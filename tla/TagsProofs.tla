------------------------------ MODULE TagsProofs ------------------------------
(***************************************************************************)
(* Proofs about Tags: the tags and names that tell subscribers apart are   *)
(* unique for any number of PONs, ONUs and subscribers, however the loops  *)
(* of OnuDevice.Start interleave.                                          *)
(***************************************************************************)
EXTENDS Tags, WellFoundedInduction, TLAPS

-----------------------------------------------------------------------------
(* Lemmas. *)

\* The fields of a new subscriber that the tags and names are about.
LEMMA NewSubscriberFields ==
  ASSUME NEW o, NEW stag, NEW d, d = NewSubscriber(o, stag)
  PROVE  /\ d.onu = o /\ d.ctag = drawnCtag[o] /\ d.stag = stag
         /\ d.name[1] = serialNum[o] /\ d.name[2] = uni[o]
         /\ d.uniPortNo = MkUniPortNum(PonIntf(o), OnuID(o), uni[o])
  BY DEF NewSubscriber

\* The types of one ONU's loop variables.
LEMMA OnuFacts ==
  ASSUME TypeOK, NEW o \in onus
  PROVE  /\ PonIntf(o) \in PonIntfs /\ PonIntf(o) \in Nat /\ OnuID(o) \in Nat
         /\ o = <<PonIntf(o), OnuID(o)>>
         /\ serialNum[o] \in Nat /\ uni[o] \in Nat /\ drawnCtag[o] \in Nat
         /\ ctag[PonIntf(o)] \in Nat
  BY DEF TypeOK, PonIntfs, PonIntf, OnuID

LEMMA InitInv == Init => IndInv
  <1> SUFFICES ASSUME Init PROVE IndInv
    OBVIOUS
  <1>1. PICK sc \in Scenarios : /\ workflow = sc.workflow
                                /\ subscribersPerOnu = sc.subscribersPerOnu
                                /\ onus = sc.onus
    BY DEF Init
  <1>2. workflow \in {"ATT", "DT", "TT"} /\ onus \subseteq Nat \X Nat
    BY <1>1, ScenarioAssumption
  <1>3. vendorSpecificId \in Nat /\ vendorSpecificId >= 1000
    BY SerialsDrawnAssumption DEF Init
  <1>4. TypeOK
    BY <1>2, <1>3 DEF Init, TypeOK
  <1>5. LoopInv
    BY DEF Init, LoopInv
  <1>6. CtagInv
    BY <1>4, OnuFacts DEF Init, CtagInv
  <1>7. StagInv
    BY DEF Init, StagInv, DtStagsUnique
  <1>8. SerialInv
    BY DEF Init, SerialInv
  <1>9. PortInv
    BY DEF Init, PortInv
  <1> QED
    BY <1>4, <1>5, <1>6, <1>7, <1>8, <1>9 DEF IndInv

-----------------------------------------------------------------------------
(* The steps. *)

\* Some power of ten leaves four digits, or more where the largest is too small.
LEMMA FourDigitsExist ==
  ASSUME NEW id \in Nat, id >= 1000
  PROVE  /\ FourDigits(id) \in Scales /\ id \div FourDigits(id) >= 1000
         /\ \A j \in Scales : j > FourDigits(id) => id \div j < 1000
  <1> DEFINE Largest(k) == id \div k >= 1000 /\ \A j \in Scales : j > k => id \div j < 1000
  <1>1. \E k \in Scales : Largest(k)
    <2>1. CASE id \div 1000000 >= 1000
      BY <2>1 DEF Scales
    <2>2. CASE id \div 1000000 < 1000 /\ id \div 100000 >= 1000
      BY <2>2 DEF Scales
    <2>3. CASE id \div 1000000 < 1000 /\ id \div 100000 < 1000 /\ id \div 10000 >= 1000
      BY <2>3 DEF Scales
    <2>4. CASE /\ id \div 1000000 < 1000 /\ id \div 100000 < 1000 /\ id \div 10000 < 1000
               /\ id \div 1000 >= 1000
      BY <2>4 DEF Scales
    <2>5. CASE /\ id \div 1000000 < 1000 /\ id \div 100000 < 1000 /\ id \div 10000 < 1000
               /\ id \div 1000 < 1000 /\ id \div 100 >= 1000
      BY <2>5 DEF Scales
    <2>6. CASE /\ id \div 1000000 < 1000 /\ id \div 100000 < 1000 /\ id \div 10000 < 1000
               /\ id \div 1000 < 1000 /\ id \div 100 < 1000 /\ id \div 10 >= 1000
      BY <2>6 DEF Scales
    <2>7. CASE /\ id \div 1000000 < 1000 /\ id \div 100000 < 1000 /\ id \div 10000 < 1000
               /\ id \div 1000 < 1000 /\ id \div 100 < 1000 /\ id \div 10 < 1000
      BY <2>7 DEF Scales
    <2> QED
      BY <2>1, <2>2, <2>3, <2>4, <2>5, <2>6, <2>7
  <1>2. FourDigits(id) = CHOOSE k \in Scales : Largest(k)
    BY DEF FourDigits
  <1> HIDE DEF Largest
  <1>3. FourDigits(id) \in Scales /\ Largest(FourDigits(id))
    BY <1>1, <1>2
  <1> QED
    BY <1>3 DEF Largest

\* A number of four digits is printed as it is; of 10000 the last digit is lost.
LEMMA PrintedSerial ==
  ASSUME NEW id \in Nat, id >= 1000
  PROVE  /\ stringifyVendorSpecific(id) \in Nat
         /\ id < 10000 => stringifyVendorSpecific(id) = id
         /\ id = 10000 => stringifyVendorSpecific(id) = 1000
  <1>1. PICK k \in Scales : /\ k = FourDigits(id) /\ id \div k >= 1000
                            /\ \A j \in Scales : j > k => id \div j < 1000
    BY FourDigitsExist
  <1>2. stringifyVendorSpecific(id) = id \div k
    BY <1>1 DEF stringifyVendorSpecific
  <1>3. id \div k \in Nat
    BY DEF Scales
  <1>4. id < 10000 => id \div k = id
    BY <1>1 DEF Scales
  <1>5. id = 10000 => id \div k = 1000
    BY <1>1 DEF Scales
  <1> QED
    BY <1>2, <1>3, <1>4, <1>5

LEMMA SerialStep ==
  ASSUME IndInv, NEW o \in onus, GenerateNextONUSerialNumber(o)
  PROVE  IndInv'
  <1> USE DEF IndInv
  <1> DEFINE v == vendorSpecificId + 1
             printed == stringifyVendorSpecific(v)
  <1>1. /\ serialNum[o] = 0 /\ vendorSpecificId' = v
        /\ serialNum' = [serialNum EXCEPT ![o] = printed]
        /\ UNCHANGED <<config, ctag, dtStag, currDtStag, uni, drawnCtag, subscribers>>
    BY DEF GenerateNextONUSerialNumber
  <1>2. UNCHANGED <<workflow, subscribersPerOnu, onus>> /\ UNCHANGED PonIntfs
    BY <1>1 DEF config, PonIntfs
  <1>3. /\ vendorSpecificId \in Nat /\ vendorSpecificId >= 1000 /\ v \in Nat /\ printed \in Nat
        /\ v < 10000 => printed = v
        /\ v = 10000 => printed = 1000
    BY PrintedSerial DEF TypeOK
  <1> HIDE DEF v, printed
  <1>4. /\ serialNum' \in [onus -> Nat] /\ serialNum'[o] = printed
        /\ \A p \in onus : p # o => serialNum'[p] = serialNum[p]
    BY <1>1, <1>3 DEF TypeOK
  <1>5. v = vendorSpecificId + 1
    BY DEF v
  <1>6. TypeOK'
    BY <1>1, <1>2, <1>3, <1>4, <1>5 DEF TypeOK
  <1>7. LoopInv'
    <2>1. \A s \in subscribers : s.onu # o /\ s.onu \in onus
      BY <1>1 DEF LoopInv, TypeOK
    <2> QED
      BY <1>1, <1>4, <2>1 DEF LoopInv
  <1>8. CtagInv' /\ StagInv' /\ PortInv'
    BY <1>1, <1>2 DEF CtagInv, StagInv, DtStagsUnique, PortInv
  <1>9. SerialInv'
    <2>1. ASSUME v < 10000 PROVE \A p \in onus : serialNum'[p] # 0 => serialNum'[p] \in 1001 .. v
      BY <2>1, <1>3, <1>4, <1>5 DEF SerialInv
    <2>2. ASSUME v <= 10000, NEW p \in onus, p # o, serialNum[p] # 0 PROVE serialNum[p] # printed
      <3>1. serialNum[p] \in 1001 .. vendorSpecificId
        BY <2>2, <1>3, <1>5 DEF SerialInv
      <3> QED
        BY <2>2, <3>1, <1>3, <1>5
    <2>3. ASSUME v <= 10000
          PROVE  \A p, q \in onus : (serialNum'[p] = serialNum'[q] /\ serialNum'[p] # 0) => p = q
      <3>1. vendorSpecificId <= 10000
        BY <2>3, <1>3, <1>5
      <3> QED
        BY <2>2, <2>3, <3>1, <1>4 DEF SerialInv
    <2> QED
      BY <1>1, <1>2, <2>1, <2>3 DEF SerialInv
  <1> QED
    BY <1>6, <1>7, <1>8, <1>9

\* The counter of the PON goes past every tag it has given out.
LEMMA CtagStep ==
  ASSUME IndInv, NEW o \in onus, GetCtag(o)
  PROVE  IndInv'
  <1> USE DEF IndInv
  <1> DEFINE p == PonIntf(o)
             tag == IF ctag[p] = 0 THEN FirstCtag ELSE ctag[p] + 1
  <1>1. /\ drawnCtag[o] = 0
        /\ ctag' = [ctag EXCEPT ![p] = tag]
        /\ drawnCtag' = [drawnCtag EXCEPT ![o] = tag]
        /\ UNCHANGED <<config, vendorSpecificId, dtStag, currDtStag, serialNum, uni, subscribers>>
    BY DEF GetCtag
  <1>2. UNCHANGED <<workflow, subscribersPerOnu, onus>> /\ UNCHANGED PonIntfs
    BY <1>1 DEF config, PonIntfs
  <1>3. tag \in Nat /\ tag > ctag[p] /\ p \in PonIntfs /\ ctag[p] \in Nat
    BY OnuFacts DEF FirstCtag
  <1>4. p = PonIntf(o)
    OBVIOUS
  <1> HIDE DEF p, tag
  <1>5. /\ ctag' \in [PonIntfs -> Nat] /\ ctag'[p] = tag
        /\ \A q \in PonIntfs : q # p => ctag'[q] = ctag[q]
        /\ drawnCtag' \in [onus -> Nat] /\ drawnCtag'[o] = tag
        /\ \A q \in onus : q # o => drawnCtag'[q] = drawnCtag[q]
    BY <1>1, <1>3 DEF TypeOK
  <1>6. TypeOK'
    BY <1>1, <1>2, <1>5 DEF TypeOK
  <1>7. LoopInv' /\ SerialInv' /\ StagInv' /\ PortInv'
    BY <1>1, <1>2 DEF LoopInv, SerialInv, StagInv, DtStagsUnique, PortInv
  <1>8. \A q \in onus : PonIntf(q) = p => drawnCtag[q] < tag
    BY <1>3, OnuFacts DEF CtagInv
  <1>9. \A s \in subscribers : PonIntf(s.onu) = p => s.ctag < tag
    BY <1>3 DEF CtagInv, TypeOK
  <1>10. CtagInv'
    <2>1. \A q \in onus : drawnCtag'[q] <= ctag'[PonIntf(q)]
      <3> SUFFICES ASSUME NEW q \in onus PROVE drawnCtag'[q] <= ctag'[PonIntf(q)]
        OBVIOUS
      <3>1. PonIntf(q) \in PonIntfs /\ drawnCtag[q] <= ctag[PonIntf(q)] /\ drawnCtag[q] \in Nat
        BY OnuFacts DEF CtagInv
      <3> QED
        BY <1>3, <1>4, <1>5, <1>8, <3>1
    <2>2. \A s \in subscribers : s.ctag <= ctag'[PonIntf(s.onu)]
      <3> SUFFICES ASSUME NEW s \in subscribers PROVE s.ctag <= ctag'[PonIntf(s.onu)]
        OBVIOUS
      <3>1. s.onu \in onus /\ s.ctag \in Nat /\ s.ctag <= ctag[PonIntf(s.onu)]
        BY DEF TypeOK, CtagInv
      <3>2. PonIntf(s.onu) \in PonIntfs
        BY <3>1, OnuFacts
      <3> QED
        BY <1>3, <1>5, <1>9, <3>1, <3>2
    <2>3. \A q, r \in onus : (PonIntf(q) = PonIntf(r) /\ drawnCtag'[q] = drawnCtag'[r] /\ drawnCtag'[q] # 0) => q = r
      BY <1>3, <1>4, <1>5, <1>8, OnuFacts DEF CtagInv
    <2>4. \A q \in onus, s \in subscribers : PonIntf(q) = PonIntf(s.onu) => drawnCtag'[q] # s.ctag
      BY <1>3, <1>4, <1>5, <1>9 DEF CtagInv, TypeOK
    <2> QED
      BY <1>1, <1>2, <2>1, <2>2, <2>3, <2>4 DEF CtagInv
  <1> QED
    BY <1>6, <1>7, <1>10

\* What making the subscriber keeps, whichever S-tag it gets.
LEMMA SubscriberStep ==
  ASSUME IndInv, NEW o \in onus, NEW stag, InLoop(o), drawnCtag[o] # 0,
         StartSubscriber(o, stag),
         UNCHANGED <<config, vendorSpecificId, ctag, serialNum>>
  PROVE  /\ LoopInv' /\ CtagInv' /\ SerialInv' /\ PortInv'
         /\ currDtStag' \in Nat => TypeOK'
  <1> USE DEF IndInv
  <1> DEFINE d == NewSubscriber(o, stag)
  <1>1. /\ d.onu = o /\ d.ctag = drawnCtag[o] /\ d.stag = stag
        /\ d.name[1] = serialNum[o] /\ d.name[2] = uni[o]
        /\ d.uniPortNo = MkUniPortNum(PonIntf(o), OnuID(o), uni[o])
    BY NewSubscriberFields
  <1>2. subscribers' = subscribers \cup {d}
    BY DEF StartSubscriber
  <1> HIDE DEF d
  <1>3. UNCHANGED <<workflow, subscribersPerOnu, onus, vendorSpecificId, ctag, serialNum>>
        /\ UNCHANGED PonIntfs
    BY DEF config, PonIntfs
  <1>4. /\ uni' \in [onus -> Nat] /\ uni'[o] = uni[o] + 1 /\ uni[o] \in Nat
        /\ \A q \in onus : q # o => uni'[q] = uni[q]
        /\ drawnCtag' \in [onus -> Nat] /\ drawnCtag'[o] = 0
        /\ \A q \in onus : q # o => drawnCtag'[q] = drawnCtag[q]
    BY OnuFacts DEF StartSubscriber, TypeOK
  <1>5. drawnCtag[o] \in Nat \ {0} /\ serialNum[o] # 0
    BY OnuFacts DEF InLoop
  <1>6. currDtStag' \in Nat => TypeOK'
    BY <1>1, <1>2, <1>3, <1>4, <1>5 DEF TypeOK
  <1>7. LoopInv'
    <2>1. \A s \in subscribers : s.onu \in onus /\ s.name[2] \in Nat /\ s.name[2] < uni[s.onu]
      BY DEF LoopInv, TypeOK
    <2>2. \A s \in subscribers : s.name[2] < uni'[s.onu]
      <3> SUFFICES ASSUME NEW s \in subscribers PROVE s.name[2] < uni'[s.onu]
        OBVIOUS
      <3>1. s.onu \in onus /\ s.name[2] \in Nat /\ s.name[2] < uni[s.onu]
        BY <2>1
      <3> QED
        BY <3>1, <1>4
    <2>3. \A s \in subscribers : s.onu = o => s.name[2] # d.name[2]
      BY <1>1, <1>4, <2>1
    <2>4. d.name[2] \in Nat /\ d.name[2] < uni'[d.onu]
      BY <1>1, <1>4
    <2>5. \A s \in subscribers' : /\ s.name[1] = serialNum'[s.onu] /\ serialNum'[s.onu] # 0
                                  /\ s.name[2] \in Nat /\ s.name[2] < uni'[s.onu]
      BY <1>1, <1>2, <1>3, <1>5, <2>1, <2>2, <2>4 DEF LoopInv
    <2>6. \A s, t \in subscribers' : (s.onu = t.onu /\ s.name[2] = t.name[2]) => s = t
      BY <1>1, <1>2, <2>3 DEF LoopInv
    <2> QED
      BY <2>5, <2>6 DEF LoopInv
  <1>8. CtagInv'
    <2>1. \A q \in onus : drawnCtag'[q] <= ctag'[PonIntf(q)]
      BY <1>3, <1>4, OnuFacts DEF CtagInv
    <2>2. \A s \in subscribers' : s.ctag <= ctag'[PonIntf(s.onu)]
      BY <1>1, <1>2, <1>3 DEF CtagInv
    <2>3. \A q, r \in onus : (PonIntf(q) = PonIntf(r) /\ drawnCtag'[q] = drawnCtag'[r] /\ drawnCtag'[q] # 0) => q = r
      BY <1>4 DEF CtagInv
    <2>4. \A q \in onus, s \in subscribers' : PonIntf(q) = PonIntf(s.onu) => drawnCtag'[q] # s.ctag
      BY <1>1, <1>2, <1>4, <1>5 DEF CtagInv, TypeOK
    <2>5. \A s, t \in subscribers' : (PonIntf(s.onu) = PonIntf(t.onu) /\ s.ctag = t.ctag) => s = t
      BY <1>1, <1>2 DEF CtagInv
    <2> QED
      BY <1>3, <2>1, <2>2, <2>3, <2>4, <2>5 DEF CtagInv
  <1>9. SerialInv'
    BY <1>3 DEF SerialInv
  <1>10. PortInv'
    BY <1>1, <1>2 DEF PortInv
  <1> QED
    BY <1>6, <1>7, <1>8, <1>9, <1>10

LEMMA PonStagStep ==
  ASSUME IndInv, NEW o \in onus, GetPonStag(o)
  PROVE  IndInv'
  <1> USE DEF IndInv
  <1> DEFINE d == NewSubscriber(o, PonIntf(o) + 2)
  <1>1. d.onu = o /\ d.stag = PonIntf(o) + 2
    BY NewSubscriberFields
  <1>2. /\ subscribers' = subscribers \cup {d} /\ workflow # "DT"
        /\ UNCHANGED <<workflow, onus, dtStag, currDtStag>>
    BY DEF GetPonStag, StartSubscriber, config
  <1> HIDE DEF d
  <1>3. TypeOK' /\ LoopInv' /\ CtagInv' /\ SerialInv' /\ PortInv'
    BY SubscriberStep DEF GetPonStag, TypeOK
  <1>4. StagInv'
    BY <1>1, <1>2 DEF StagInv, DtStagsUnique
  <1> QED
    BY <1>3, <1>4

\* No key of the DtStag map is looked up twice, so every subscriber gets the
\* next tag.
LEMMA DtStagStep ==
  ASSUME IndInv, NEW o \in onus, GetDtStag(o)
  PROVE  IndInv'
  <1> USE DEF IndInv
  <1>1. \A entry \in dtStag : entry.key # DtStagKey(o)
    <2> SUFFICES ASSUME NEW entry \in dtStag, entry.key = DtStagKey(o) PROVE FALSE
      OBVIOUS
    <2>1. PICK s \in subscribers : entry.key = <<PonIntf(s.onu), OnuID(s.onu), s.name[2]>>
      BY DEF StagInv
    <2>2. PonIntf(s.onu) = PonIntf(o) /\ OnuID(s.onu) = OnuID(o) /\ s.name[2] = uni[o]
      BY <2>1 DEF DtStagKey
    <2>3. s.onu \in onus
      BY DEF TypeOK
    <2>4. s.onu = o
      BY <2>2, <2>3, OnuFacts
    <2> QED
      BY <2>2, <2>4, OnuFacts DEF LoopInv
  <1> DEFINE tag == currDtStag + 1
             entry == [key |-> DtStagKey(o), stag |-> tag]
             d == NewSubscriber(o, tag)
  <1>2. {e \in dtStag : e.key = DtStagKey(o)} = {}
    BY <1>1
  <1>3. /\ StartSubscriber(o, tag) /\ dtStag' = dtStag \cup {entry} /\ currDtStag' = tag
        /\ workflow = "DT" /\ InLoop(o) /\ drawnCtag[o] # 0
        /\ UNCHANGED <<config, vendorSpecificId, ctag, serialNum>>
    BY <1>2 DEF GetDtStag
  <1>4. d.onu = o /\ d.stag = tag /\ d.name[2] = uni[o]
    BY NewSubscriberFields
  <1>5. subscribers' = subscribers \cup {d} /\ UNCHANGED <<workflow, onus>>
    BY <1>3 DEF StartSubscriber, config
  <1>6. tag \in Nat /\ tag = currDtStag + 1 /\ currDtStag \in Nat
    BY DEF TypeOK
  <1>7. entry.key = <<PonIntf(d.onu), OnuID(d.onu), d.name[2]>>
    BY <1>4 DEF DtStagKey
  <1> HIDE DEF d, tag, entry
  <1>8. TypeOK' /\ LoopInv' /\ CtagInv' /\ SerialInv' /\ PortInv'
    BY <1>3, <1>6, SubscriberStep
  <1>9. StagInv'
    <2>1. \A s \in subscribers : s.stag \in 1 .. currDtStag
      BY <1>3 DEF StagInv
    <2>2. \A s \in subscribers' : s.stag \in 1 .. currDtStag'
      BY <1>3, <1>4, <1>5, <1>6, <2>1
    <2>3. \A e \in dtStag' : \E s \in subscribers' : e.key = <<PonIntf(s.onu), OnuID(s.onu), s.name[2]>>
      BY <1>3, <1>5, <1>7 DEF StagInv
    <2>4. \A s, t \in subscribers' : s.stag = t.stag => s = t
      BY <1>3, <1>4, <1>5, <1>6, <2>1 DEF StagInv, DtStagsUnique
    <2> QED
      BY <1>3, <1>5, <2>2, <2>3, <2>4 DEF StagInv, DtStagsUnique
  <1> QED
    BY <1>8, <1>9

LEMMA NextInv == IndInv /\ [Next]_vars => IndInv'
  <1> SUFFICES ASSUME IndInv, [Next]_vars PROVE IndInv'
    OBVIOUS
  <1>1. ASSUME UNCHANGED vars PROVE IndInv'
    BY <1>1 DEF vars, IndInv, TypeOK, LoopInv, CtagInv, StagInv, SerialInv, PortInv, DtStagsUnique, PonIntfs
  <1> QED
    BY <1>1, SerialStep, CtagStep, PonStagStep, DtStagStep DEF Next, AllMade

-----------------------------------------------------------------------------
(* Induction over the naturals, for a set rather than a predicate. *)

\* Every set of naturals that is not empty has a least element.
LEMMA LeastElement ==
  ASSUME NEW T, T \subseteq Nat, T # {}
  PROVE  \E n \in T : \A m \in T : n <= m
  <1>1. IsWellFoundedOn({ss \in Nat \X Nat : ss[1] < ss[2]}, Nat)
    BY NatLessThanWellFounded DEF OpToRel
  <1>2. PICK n \in T : \A m \in T : <<m, n>> \notin {ss \in Nat \X Nat : ss[1] < ss[2]}
    BY <1>1, WFMin
  <1>3. SUFFICES ASSUME NEW m \in T PROVE n <= m
    OBVIOUS
  <1>4. <<m, n>> \notin {ss \in Nat \X Nat : ss[1] < ss[2]} /\ m \in Nat /\ n \in Nat
    BY <1>2
  <1>5. ~(m < n)
    BY <1>4
  <1> QED
    BY <1>4, <1>5

\* A set that holds zero and with every natural the next one holds them all.
LEMMA SetInduction ==
  ASSUME NEW T, 0 \in T, \A n \in Nat : n \in T => n + 1 \in T
  PROVE  Nat \subseteq T
  <1> DEFINE Out == Nat \ T
  <1>1. SUFFICES ASSUME Out # {} PROVE FALSE
    OBVIOUS
  <1>2. PICK n \in Out : \A m \in Out : n <= m
    BY <1>1, LeastElement
  <1>3. n # 0 /\ n - 1 \in Nat
    BY <1>2
  <1>4. n - 1 \notin Out
    BY <1>2, <1>3
  <1> QED
    BY <1>3, <1>4

-----------------------------------------------------------------------------
(* The powers of two. *)

\* One doubled n times.
Doubling(n) ==
  {g \in [0 .. n -> Nat] : g[0] = 1 /\ \A x \in 1 .. n : g[x] = 2 * g[x - 1]}

\* Every doubling can be made longer, so there is one of every length.
LEMMA DoublingExists ==
  ASSUME NEW n \in Nat
  PROVE  Doubling(n) # {}
  <1> DEFINE T == {m \in Nat : Doubling(m) # {}}
  <1>1. 0 \in T
    <2>1. [x \in 0 .. 0 |-> 1] \in Doubling(0)
      BY DEF Doubling
    <2> QED
      BY <2>1
  <1>2. ASSUME NEW m \in Nat, m \in T PROVE m + 1 \in T
    <2>1. PICK g : g \in Doubling(m)
      BY <1>2
    <2>2. g \in [0 .. m -> Nat] /\ g[0] = 1 /\ \A x \in 1 .. m : g[x] = 2 * g[x - 1]
      BY <2>1 DEF Doubling
    <2>3. PICK next \in Nat : next = 2 * g[m]
      BY <2>2
    <2> DEFINE h == [x \in 0 .. m + 1 |-> IF x = m + 1 THEN next ELSE g[x]]
    <2>4. h \in [0 .. m + 1 -> Nat] /\ h[0] = 1
      BY <2>2, <2>3
    <2>5. ASSUME NEW x \in 1 .. m + 1 PROVE h[x] = 2 * h[x - 1]
      <3>1. CASE x = m + 1
        <4>1. h[x] = next /\ h[x - 1] = g[m]
          BY <3>1
        <4> QED
          BY <4>1, <2>3
      <3>2. CASE x \in 1 .. m
        <4>1. h[x] = g[x] /\ h[x - 1] = g[x - 1]
          BY <3>2
        <4> QED
          BY <4>1, <3>2, <2>2
      <3> QED
        BY <3>1, <3>2
    <2>6. h \in Doubling(m + 1)
      BY <2>4, <2>5 DEF Doubling
    <2> QED
      BY <2>6
  <1> HIDE DEF T
  <1>3. Nat \subseteq T
    BY <1>1, <1>2, SetInduction
  <1> QED
    BY <1>3 DEF T

\* Two doublings agree as far as both go.
LEMMA DoublingsAgree ==
  ASSUME NEW n \in Nat, NEW m \in Nat, NEW g \in Doubling(n), NEW h \in Doubling(m)
  PROVE  \A x \in 0 .. n : x <= m => g[x] = h[x]
  <1> DEFINE T == {x \in Nat : x <= n /\ x <= m => g[x] = h[x]}
  <1>0. /\ g[0] = 1 /\ \A x \in 1 .. n : g[x] = 2 * g[x - 1]
        /\ h[0] = 1 /\ \A x \in 1 .. m : h[x] = 2 * h[x - 1]
    BY DEF Doubling
  <1>1. 0 \in T
    BY <1>0
  <1>2. ASSUME NEW x \in Nat, x \in T PROVE x + 1 \in T
    <2>1. SUFFICES ASSUME x + 1 <= n, x + 1 <= m PROVE g[x + 1] = h[x + 1]
      OBVIOUS
    <2>2. g[x] = h[x]
      BY <1>2, <2>1
    <2>3. x + 1 \in 1 .. n /\ x + 1 \in 1 .. m /\ (x + 1) - 1 = x
      BY <2>1
    <2> QED
      BY <1>0, <2>2, <2>3
  <1> HIDE DEF T
  <1>3. Nat \subseteq T
    BY <1>1, <1>2, SetInduction
  <1> QED
    BY <1>3 DEF T

\* The recursive definition of powerOfTwo defines a function.
LEMMA PowerUnfolds ==
  \A n \in Nat : powerOfTwo[n] = IF n = 0 THEN 1 ELSE 2 * powerOfTwo[n - 1]
  <1> DEFINE pick(n) == CHOOSE g \in Doubling(n) : TRUE
             f == [n \in Nat |-> pick(n)[n]]
  <1>1. \A n \in Nat : pick(n) \in Doubling(n)
    BY DoublingExists
  <1> HIDE DEF pick
  <1>2. ASSUME NEW n \in Nat
        PROVE  f[n] = IF n = 0 THEN 1 ELSE 2 * f[n - 1]
    <2>1. pick(n) \in Doubling(n) /\ f[n] = pick(n)[n]
      BY <1>1
    <2>2. CASE n = 0
      BY <2>1, <2>2 DEF Doubling
    <2>3. CASE n # 0
      <3>1. n - 1 \in Nat /\ pick(n - 1) \in Doubling(n - 1) /\ f[n - 1] = pick(n - 1)[n - 1]
        BY <2>3, <1>1
      <3>2. pick(n)[n] = 2 * pick(n)[n - 1]
        BY <2>1, <2>3 DEF Doubling
      <3>3. n - 1 \in 0 .. n - 1 /\ n - 1 <= n
        BY <3>1
      <3>4. pick(n - 1)[n - 1] = pick(n)[n - 1]
        BY <2>1, <3>1, <3>3, DoublingsAgree
      <3> QED
        BY <2>1, <2>3, <3>1, <3>2, <3>4
    <2> QED
      BY <2>2, <2>3
  <1>3. f = [n \in Nat |-> IF n = 0 THEN 1 ELSE 2 * f[n - 1]]
    BY <1>2
  <1> HIDE DEF f
  <1>4. powerOfTwo = [n \in Nat |-> IF n = 0 THEN 1 ELSE 2 * powerOfTwo[n - 1]]
    BY <1>3 DEF powerOfTwo
  <1> QED
    BY <1>4

\* Powers of two are positive.
LEMMA PowerPositive == \A n \in Nat : powerOfTwo[n] \in Nat \ {0}
  <1> DEFINE T == {n \in Nat : powerOfTwo[n] \in Nat \ {0}}
  <1>1. 0 \in T
    BY PowerUnfolds
  <1>2. ASSUME NEW n \in Nat, n \in T PROVE n + 1 \in T
    <2>1. n + 1 \in Nat /\ n + 1 # 0 /\ (n + 1) - 1 = n
      OBVIOUS
    <2>2. powerOfTwo[n + 1] = 2 * powerOfTwo[n]
      BY <2>1, PowerUnfolds
    <2>3. powerOfTwo[n] \in Nat \ {0}
      BY <1>2
    <2> QED
      BY <2>1, <2>2, <2>3
  <1> HIDE DEF T
  <1>3. Nat \subseteq T
    BY <1>1, <1>2, SetInduction
  <1> QED
    BY <1>3 DEF T

-----------------------------------------------------------------------------
(* The bits of a number, and the fields of a port number. *)

\* The next power is twice the power, and all of them are positive.
LEMMA NextPower ==
  ASSUME NEW n \in Nat
  PROVE  /\ powerOfTwo[0] = 1 /\ powerOfTwo[n + 1] = 2 * powerOfTwo[n]
         /\ powerOfTwo[n] \in Nat \ {0}
  <1>1. n + 1 \in Nat /\ n + 1 # 0 /\ (n + 1) - 1 = n
    OBVIOUS
  <1> QED
    BY <1>1, PowerUnfolds, PowerPositive

\* Powers grow with their exponents.
LEMMA PowersGrow ==
  ASSUME NEW m \in Nat, NEW n \in Nat, m <= n
  PROVE  powerOfTwo[m] <= powerOfTwo[n]
  <1> DEFINE T == {x \in Nat : powerOfTwo[m] <= powerOfTwo[m + x]}
  <1>1. 0 \in T
    <2>1. m + 0 = m /\ powerOfTwo[m] \in Nat
      BY NextPower
    <2> QED
      BY <2>1
  <1>2. ASSUME NEW x \in Nat, x \in T PROVE x + 1 \in T
    <2>1. m + x \in Nat /\ m + (x + 1) = (m + x) + 1
      OBVIOUS
    <2>2. powerOfTwo[m + (x + 1)] = 2 * powerOfTwo[m + x] /\ powerOfTwo[m + x] \in Nat
      BY <2>1, NextPower
    <2>3. powerOfTwo[m] <= powerOfTwo[m + x] /\ powerOfTwo[m] \in Nat
      BY <1>2, NextPower
    <2> QED
      BY <2>2, <2>3
  <1> HIDE DEF T
  <1>3. Nat \subseteq T
    BY <1>1, <1>2, SetInduction
  <1>4. n - m \in Nat /\ m + (n - m) = n
    OBVIOUS
  <1>5. n - m \in T
    BY <1>3, <1>4
  <1> QED
    BY <1>4, <1>5 DEF T

\* A quotient is known by the remainder it leaves.
LEMMA QuotientIs ==
  ASSUME NEW q \in Nat, NEW d \in Nat \ {0}, NEW r \in Nat, r < d
  PROVE  (d * q + r) \div d = q
  <1>1. PICK x \in Nat : x = d * q
    OBVIOUS
  <1>2. PICK k \in Nat : k = (x + r) \div d
    OBVIOUS
  <1>3. k * d <= x + r /\ x + r < (k + 1) * d
    BY <1>2
  <1>4. CASE k < q
    <2>1. (k + 1) * d <= d * q
      BY <1>4
    <2> QED
      BY <1>1, <1>3, <2>1
  <1>5. CASE k > q
    <2>1. d * (q + 1) <= k * d
      BY <1>5
    <2>2. d * (q + 1) = d * q + d
      OBVIOUS
    <2> QED
      BY <1>1, <1>3, <2>1, <2>2
  <1> QED
    BY <1>1, <1>2, <1>4, <1>5

\* Dividing by two first and by d then is dividing by 2 * d.
LEMMA HalveFirst ==
  ASSUME NEW n \in Nat, NEW d \in Nat \ {0}
  PROVE  (n \div 2) \div d = n \div (2 * d)
  <1>1. PICK e \in Nat \ {0} : e = 2 * d
    OBVIOUS
  <1>2. PICK q \in Nat : q = n \div e
    OBVIOUS
  <1>3. PICK r \in Nat : r < e /\ n = e * q + r
    <2>1. n % e \in Nat /\ n % e < e /\ n = e * q + (n % e)
      BY <1>2
    <2> QED
      BY <2>1
  <1>4. PICK x \in Nat : x = d * q
    OBVIOUS
  <1>5. e * q = 2 * x
    BY <1>1, <1>4
  <1>6. PICK h \in Nat : h = r \div 2
    OBVIOUS
  <1>7. n \div 2 = x + h /\ h < d
    BY <1>1, <1>3, <1>5, <1>6
  <1>8. (x + h) \div d = q
    BY <1>4, <1>7, QuotientIs
  <1> QED
    BY <1>1, <1>2, <1>7, <1>8

\* The bit at position b.
Bit(n, b) == (n \div powerOfTwo[b]) % 2

\* The lowest bit is the remainder, the others are those of the half.
LEMMA BitOfHalf ==
  ASSUME NEW n \in Nat, NEW b \in Nat
  PROVE  Bit(n, 0) = n % 2 /\ Bit(n \div 2, b) = Bit(n, b + 1)
  <1>1. powerOfTwo[0] = 1 /\ powerOfTwo[b + 1] = 2 * powerOfTwo[b] /\ powerOfTwo[b] \in Nat \ {0}
    BY NextPower
  <1>2. n \div 1 = n
    OBVIOUS
  <1>3. (n \div 2) \div powerOfTwo[b] = n \div (2 * powerOfTwo[b])
    BY <1>1, HalveFirst
  <1> QED
    BY <1>1, <1>2, <1>3 DEF Bit

\* Two numbers of w bits that agree in each of them are one number.
LEMMA BitsTellNumbers ==
  ASSUME NEW w \in Nat, NEW m \in Nat, NEW n \in Nat, m < powerOfTwo[w], n < powerOfTwo[w],
         \A b \in Nat : b < w => Bit(m, b) = Bit(n, b)
  PROVE  m = n
  <1> DEFINE Agree(k, x, y) == /\ x < powerOfTwo[k] /\ y < powerOfTwo[k]
                               /\ \A b \in Nat : b < k => Bit(x, b) = Bit(y, b)
             T == {k \in Nat : \A x, y \in Nat : Agree(k, x, y) => x = y}
  <1>1. 0 \in T
    <2>1. powerOfTwo[0] = 1
      BY NextPower
    <2> QED
      BY <2>1
  <1>2. ASSUME NEW k \in Nat, k \in T PROVE k + 1 \in T
    <2> SUFFICES ASSUME NEW x \in Nat, NEW y \in Nat, Agree(k + 1, x, y) PROVE x = y
      OBVIOUS
    <2>1. powerOfTwo[k + 1] = 2 * powerOfTwo[k] /\ powerOfTwo[k] \in Nat \ {0}
      BY NextPower
    <2>2. PICK v \in Nat : v = x \div 2
      OBVIOUS
    <2>3. PICK z \in Nat : z = y \div 2
      OBVIOUS
    <2>4. v < powerOfTwo[k] /\ z < powerOfTwo[k]
      BY <2>1, <2>2, <2>3
    <2>5. ASSUME NEW b \in Nat, b < k PROVE Bit(v, b) = Bit(z, b)
      <3>1. b + 1 \in Nat /\ b + 1 < k + 1
        BY <2>5
      <3>2. Bit(x, b + 1) = Bit(y, b + 1)
        BY <3>1
      <3> QED
        BY <2>2, <2>3, <3>2, BitOfHalf
    <2>6. Agree(k, v, z)
      BY <2>4, <2>5
    <2>7. v = z
      BY <1>2, <2>6
    <2>8. Bit(x, 0) = Bit(y, 0)
      <3>1. 0 \in Nat /\ 0 < k + 1
        OBVIOUS
      <3> QED
        BY <3>1
    <2>9. x % 2 = y % 2
      BY <2>8, BitOfHalf
    <2> QED
      BY <2>2, <2>3, <2>7, <2>9
  <1> HIDE DEF T
  <1>3. w \in T
    BY <1>1, <1>2, SetInduction
  <1>4. Agree(w, m, n)
    OBVIOUS
  <1> QED
    BY <1>3, <1>4 DEF T

\* A number of w bits has its one bits below w.
LEMMA BitsAreLow ==
  ASSUME NEW w \in Nat, NEW n \in Nat, n < powerOfTwo[w]
  PROVE  \A b \in Bits(n) : b < w
  <1> SUFFICES ASSUME NEW b \in Bits(n), ~(b < w) PROVE FALSE
    OBVIOUS
  <1>1. b \in Nat /\ (n \div powerOfTwo[b]) % 2 = 1 /\ w <= b
    BY DEF Bits
  <1>2. PICK d \in Nat \ {0} : d = powerOfTwo[b]
    BY <1>1, NextPower
  <1>3. powerOfTwo[w] <= d /\ powerOfTwo[w] \in Nat
    BY <1>1, <1>2, PowersGrow, NextPower
  <1>4. n < d
    BY <1>3
  <1>5. d * 0 + n = n
    OBVIOUS
  <1>6. n \div d = 0
    BY <1>4, <1>5, QuotientIs
  <1> QED
    BY <1>1, <1>2, <1>6

\* The set of one bits tells numbers of up to 31 bits apart.
LEMMA BitSetsTellNumbers ==
  ASSUME NEW w \in 0 .. 31, NEW m \in Nat, NEW n \in Nat, m < powerOfTwo[w], n < powerOfTwo[w],
         Bits(m) = Bits(n)
  PROVE  m = n
  <1>1. ASSUME NEW b \in Nat, b < w PROVE Bit(m, b) = Bit(n, b)
    <2>1. b \in 0 .. 30 /\ powerOfTwo[b] \in Nat \ {0}
      BY <1>1, NextPower
    <2>2. b \in Bits(m) <=> b \in Bits(n)
      OBVIOUS
    <2>3. Bit(m, b) = 1 <=> Bit(n, b) = 1
      BY <2>1, <2>2 DEF Bits, Bit
    <2>4. Bit(m, b) \in {0, 1} /\ Bit(n, b) \in {0, 1}
      <3>1. \A x \in Nat : (x \div powerOfTwo[b]) % 2 \in {0, 1}
        <4> SUFFICES ASSUME NEW x \in Nat PROVE (x \div powerOfTwo[b]) % 2 \in {0, 1}
          OBVIOUS
        <4>1. x \div powerOfTwo[b] \in Nat
          BY <2>1
        <4> QED
          BY <4>1
      <3> QED
        BY <3>1 DEF Bit
    <2> QED
      BY <2>3, <2>4
  <1> QED
    BY <1>1, BitsTellNumbers

\* The three fields of the port number, when the numbers fit them, do not meet:
\* each can be read off again.
LEMMA PortFields ==
  ASSUME NEW intf \in Nat, NEW onu \in Nat, NEW id \in Nat,
         intf < powerOfTwo[20], onu < powerOfTwo[8], id < powerOfTwo[4],
         NEW port, port = MkUniPortNum(intf, onu, id)
  PROVE  /\ Bits(id) \subseteq 0 .. 3 /\ \A b \in 0 .. 3 : b \in Bits(id) <=> b \in port
         /\ Bits(onu) \subseteq 0 .. 7 /\ \A b \in 0 .. 7 : b \in Bits(onu) <=> b + 4 \in port
         /\ Bits(intf) \subseteq 0 .. 19 /\ \A b \in 0 .. 19 : b \in Bits(intf) <=> b + 12 \in port
  <1> DEFINE P == Bits(intf)
             O == Bits(onu)
             U == Bits(id)
  <1>1. P \subseteq 0 .. 19 /\ O \subseteq 0 .. 7 /\ U \subseteq 0 .. 3
    <2>1. P \subseteq 0 .. 30 /\ O \subseteq 0 .. 30 /\ U \subseteq 0 .. 30
      BY DEF Bits
    <2>2. (\A b \in P : b < 20) /\ (\A b \in O : b < 8) /\ (\A b \in U : b < 4)
      BY BitsAreLow
    <2> QED
      BY <2>1, <2>2
  <1> HIDE DEF P, O, U
  <1>2. port = ({b + 12 : b \in P} \cap (0 .. 31)) \cup ({b + 4 : b \in O} \cap (0 .. 31)) \cup U
    BY DEF MkUniPortNum, ShiftLeft, bitsForUniID, bitsForONUID, P, O, U
  <1>3. \A x : x \in port <=> \/ \E b \in P : x = b + 12 /\ x \in 0 .. 31
                              \/ \E b \in O : x = b + 4 /\ x \in 0 .. 31
                              \/ x \in U
    BY <1>2
  <1>4. ASSUME NEW x \in 0 .. 3 PROVE x \in U <=> x \in port
    <2>1. ASSUME x \in U PROVE x \in port
      BY <1>3, <2>1
    <2>2. ASSUME x \in port PROVE x \in U
      <3>1. CASE \E b \in P : x = b + 12
        <4>1. PICK b \in 0 .. 19 : b \in P /\ x = b + 12
          BY <1>1, <3>1
        <4> QED
          BY <4>1
      <3>2. CASE \E b \in O : x = b + 4
        <4>1. PICK b \in 0 .. 7 : b \in O /\ x = b + 4
          BY <1>1, <3>2
        <4> QED
          BY <4>1
      <3>3. CASE x \in U
        BY <3>3
      <3> QED
        BY <1>3, <2>2, <3>1, <3>2, <3>3
    <2> QED
      BY <2>1, <2>2
  <1>5. ASSUME NEW x \in 0 .. 7 PROVE x \in O <=> x + 4 \in port
    <2>1. ASSUME x \in O PROVE x + 4 \in port
      BY <1>3, <2>1
    <2>2. ASSUME x + 4 \in port PROVE x \in O
      <3>1. CASE \E b \in P : x + 4 = b + 12
        <4>1. PICK b \in 0 .. 19 : b \in P /\ x + 4 = b + 12
          BY <1>1, <3>1
        <4> QED
          BY <4>1
      <3>2. CASE \E b \in O : x + 4 = b + 4
        <4>1. PICK b \in 0 .. 7 : b \in O /\ x + 4 = b + 4
          BY <1>1, <3>2
        <4> QED
          BY <4>1
      <3>3. CASE x + 4 \in U
        <4>1. x + 4 \in 0 .. 3
          BY <1>1, <3>3
        <4> QED
          BY <4>1
      <3> QED
        BY <1>3, <2>2, <3>1, <3>2, <3>3
    <2> QED
      BY <2>1, <2>2
  <1>6. ASSUME NEW x \in 0 .. 19 PROVE x \in P <=> x + 12 \in port
    <2>1. ASSUME x \in P PROVE x + 12 \in port
      BY <1>3, <2>1
    <2>2. ASSUME x + 12 \in port PROVE x \in P
      <3>1. CASE \E b \in P : x + 12 = b + 12
        <4>1. PICK b \in 0 .. 19 : b \in P /\ x + 12 = b + 12
          BY <1>1, <3>1
        <4> QED
          BY <4>1
      <3>2. CASE \E b \in O : x + 12 = b + 4
        <4>1. PICK b \in 0 .. 7 : b \in O /\ x + 12 = b + 4
          BY <1>1, <3>2
        <4> QED
          BY <4>1
      <3>3. CASE x + 12 \in U
        <4>1. x + 12 \in 0 .. 3
          BY <1>1, <3>3
        <4> QED
          BY <4>1
      <3> QED
        BY <1>3, <2>2, <3>1, <3>2, <3>3
    <2> QED
      BY <2>1, <2>2
  <1> QED
    BY <1>1, <1>4, <1>5, <1>6 DEF P, O, U

\* Numbers that fit their fields are told apart by the port number.
LEMMA PortTellsFields ==
  ASSUME NEW i \in Nat, NEW o \in Nat, NEW u \in Nat,
         i < powerOfTwo[20], o < powerOfTwo[8], u < powerOfTwo[4],
         NEW j \in Nat, NEW p \in Nat, NEW v \in Nat,
         j < powerOfTwo[20], p < powerOfTwo[8], v < powerOfTwo[4],
         MkUniPortNum(i, o, u) = MkUniPortNum(j, p, v)
  PROVE  i = j /\ o = p /\ u = v
  <1>1. PICK port : port = MkUniPortNum(i, o, u) /\ port = MkUniPortNum(j, p, v)
    OBVIOUS
  <1>2. /\ Bits(u) \subseteq 0 .. 3 /\ \A b \in 0 .. 3 : b \in Bits(u) <=> b \in port
        /\ Bits(o) \subseteq 0 .. 7 /\ \A b \in 0 .. 7 : b \in Bits(o) <=> b + 4 \in port
        /\ Bits(i) \subseteq 0 .. 19 /\ \A b \in 0 .. 19 : b \in Bits(i) <=> b + 12 \in port
    BY <1>1, PortFields
  <1>3. /\ Bits(v) \subseteq 0 .. 3 /\ \A b \in 0 .. 3 : b \in Bits(v) <=> b \in port
        /\ Bits(p) \subseteq 0 .. 7 /\ \A b \in 0 .. 7 : b \in Bits(p) <=> b + 4 \in port
        /\ Bits(j) \subseteq 0 .. 19 /\ \A b \in 0 .. 19 : b \in Bits(j) <=> b + 12 \in port
    BY <1>1, PortFields
  <1>4. Bits(u) = Bits(v) /\ Bits(o) = Bits(p) /\ Bits(i) = Bits(j)
    BY <1>2, <1>3
  <1>5. 4 \in 0 .. 31 /\ 8 \in 0 .. 31 /\ 20 \in 0 .. 31
    OBVIOUS
  <1> QED
    BY <1>4, <1>5, BitSetsTellNumbers

-----------------------------------------------------------------------------
(* What follows for every behaviour. *)

\* The inductive invariant holds in every reachable state of the allocators.
THEOREM IndInvHolds == Spec => []IndInv
  BY InitInv, NextInv, PTL DEF Spec

\* In DT no two subscribers of the OLT share an S-tag.
THEOREM DtStagsAreUnique == Spec => []DtStagsUnique
  <1>1. IndInv => DtStagsUnique
    BY DEF IndInv, StagInv
  <1> QED
    BY <1>1, IndInvHolds, PTL

\* In every workflow the S-tag and the C-tag together name one subscriber of the
\* OLT, although they are drawn in separate critical sections.
THEOREM TagPairsAreUnique == Spec => []TagPairsUnique
  <1>1. ASSUME IndInv PROVE TagPairsUnique
    <2>1. CASE workflow = "DT"
      BY <1>1, <2>1 DEF IndInv, StagInv, DtStagsUnique, TagPairsUnique
    <2>2. CASE workflow # "DT"
      <3> SUFFICES ASSUME NEW s \in subscribers, NEW t \in subscribers,
                          s.stag = t.stag, s.ctag = t.ctag
                   PROVE  s = t
        BY DEF TagPairsUnique
      <3>1. s.stag = PonIntf(s.onu) + 2 /\ t.stag = PonIntf(t.onu) + 2
        BY <1>1, <2>2 DEF IndInv, StagInv
      <3>2. PonIntf(s.onu) \in Nat /\ PonIntf(t.onu) \in Nat
        BY <1>1, OnuFacts DEF IndInv, TypeOK
      <3>3. PonIntf(s.onu) + 2 = PonIntf(t.onu) + 2
        BY <3>1
      <3>4. PonIntf(s.onu) = PonIntf(t.onu)
        BY <3>2, <3>3
      <3> QED
        BY <1>1, <3>4 DEF IndInv, CtagInv
    <2> QED
      BY <2>1, <2>2
  <1> QED
    BY <1>1, IndInvHolds, PTL

\* As long as no more serial numbers were drawn than four characters tell apart,
\* ONUs have distinct serial numbers and subscribers distinct names.
THEOREM NamesAreUnique == Spec => [](vendorSpecificId <= 10000 => NamesUnique)
  <1>1. ASSUME IndInv, vendorSpecificId <= 10000 PROVE NamesUnique
    <2>1. \A o, p \in onus : (serialNum[o] = serialNum[p] /\ serialNum[o] # 0) => o = p
      BY <1>1 DEF IndInv, SerialInv
    <2>2. ASSUME NEW s \in subscribers, NEW t \in subscribers, s.name = t.name PROVE s = t
      <3>1. s.onu \in onus /\ t.onu \in onus
        BY <1>1 DEF IndInv, TypeOK
      <3>2. serialNum[s.onu] = serialNum[t.onu] /\ serialNum[s.onu] # 0
        BY <1>1, <2>2 DEF IndInv, LoopInv
      <3>3. s.onu = t.onu
        BY <2>1, <3>1, <3>2
      <3> QED
        BY <1>1, <2>2, <3>3 DEF IndInv, LoopInv
    <2> QED
      BY <2>1, <2>2 DEF NamesUnique
  <1>2. IndInv => (vendorSpecificId <= 10000 => NamesUnique)
    BY <1>1
  <1> QED
    BY <1>2, IndInvHolds, PTL

\* As long as PON, ONU id and UNI id fit their bit fields, no two subscribers of
\* the OLT have one port number.
THEOREM FittingPortsAreUnique == Spec => []FittingPortsUnique
  <1>1. ASSUME IndInv PROVE FittingPortsUnique
    <2> SUFFICES ASSUME NEW s \in subscribers, NEW t \in subscribers,
                        Fits(s), Fits(t), s.uniPortNo = t.uniPortNo
                 PROVE  s = t
      BY DEF FittingPortsUnique
    <2>1. /\ s.onu \in onus /\ t.onu \in onus /\ s.name[2] \in Nat /\ t.name[2] \in Nat
          /\ s.uniPortNo = MkUniPortNum(PonIntf(s.onu), OnuID(s.onu), s.name[2])
          /\ t.uniPortNo = MkUniPortNum(PonIntf(t.onu), OnuID(t.onu), t.name[2])
      BY <1>1 DEF IndInv, TypeOK, LoopInv, PortInv
    <2>2. /\ PonIntf(s.onu) \in Nat /\ OnuID(s.onu) \in Nat /\ s.onu = <<PonIntf(s.onu), OnuID(s.onu)>>
          /\ PonIntf(t.onu) \in Nat /\ OnuID(t.onu) \in Nat /\ t.onu = <<PonIntf(t.onu), OnuID(t.onu)>>
      BY <1>1, <2>1, OnuFacts DEF IndInv
    <2>3. 32 - bitsForONUID - bitsForUniID = 20 /\ bitsForONUID = 8 /\ bitsForUniID = 4
      BY DEF bitsForONUID, bitsForUniID
    <2>4. /\ PonIntf(s.onu) < powerOfTwo[20] /\ OnuID(s.onu) < powerOfTwo[8] /\ s.name[2] < powerOfTwo[4]
          /\ PonIntf(t.onu) < powerOfTwo[20] /\ OnuID(t.onu) < powerOfTwo[8] /\ t.name[2] < powerOfTwo[4]
      BY <2>3 DEF Fits
    <2>5. PICK i \in Nat, o \in Nat, u \in Nat : i = PonIntf(s.onu) /\ o = OnuID(s.onu) /\ u = s.name[2]
      BY <2>1, <2>2
    <2>6. PICK j \in Nat, p \in Nat, v \in Nat : j = PonIntf(t.onu) /\ p = OnuID(t.onu) /\ v = t.name[2]
      BY <2>1, <2>2
    <2>7. MkUniPortNum(i, o, u) = MkUniPortNum(j, p, v)
      BY <2>1, <2>5, <2>6
    <2>8. i = j /\ o = p /\ u = v
      <3>1. /\ i < powerOfTwo[20] /\ o < powerOfTwo[8] /\ u < powerOfTwo[4]
            /\ j < powerOfTwo[20] /\ p < powerOfTwo[8] /\ v < powerOfTwo[4]
        BY <2>4, <2>5, <2>6
      <3> QED
        BY ONLY <2>7, <3>1, i \in Nat, o \in Nat, u \in Nat, j \in Nat, p \in Nat, v \in Nat,
                PortTellsFields
    <2>9. s.onu = t.onu /\ s.name[2] = t.name[2]
      BY <2>2, <2>5, <2>6, <2>8
    <2> QED
      BY <1>1, <2>9 DEF IndInv, LoopInv
  <1> QED
    BY <1>1, IndInvHolds, PTL
=============================================================================
