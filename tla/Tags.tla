--------------------------------- MODULE Tags ---------------------------------
(***************************************************************************)
(* What tells subscribers apart: the C-tag and S-tag counters, the UNI     *)
(* port number and the serial number (core/utils.go), as the goroutines    *)
(* that run OnuDevice.Start (core/onu_manager.go) draw them concurrently   *)
(* while provisionONUs (core/olt_manager.go) launches ONUs.                *)
(***************************************************************************)
EXTENDS Integers, FiniteSets

CONSTANTS
  Scenarios,     \* workflow name, SubscribersPerOnu, and the ONUs as <<PON, ONU id>>
  SerialsDrawn   \* how many serial numbers earlier batches may have drawn

ASSUME ScenarioAssumption ==
  \A sc \in Scenarios :
    /\ sc.workflow \in {"ATT", "DT", "TT"}
    /\ sc.subscribersPerOnu \in Nat
    /\ sc.onus \subseteq Nat \X Nat
ASSUME SerialsDrawnAssumption == SerialsDrawn \subseteq Nat

VARIABLES
  workflow,           \* TestConfig.WorkflowName
  subscribersPerOnu,  \* TestConfig.SubscribersPerOnu
  onus,               \* the ONUs of the batch: <<PonIntf, OnuID>>
  vendorSpecificId,   \* the serial number drawn last
  ctag,               \* AttCtag, DtCtag or TtCtag: the tag drawn last on a PON, 0 for no entry
  dtStag,             \* DtStag: the subscriber keys of the map, and their tags
  currDtStag,
  serialNum,          \* OnuDevice.SerialNum; 0 for an ONU that is not launched
  uni,                \* subs, the loop variable of each OnuDevice.Start
  drawnCtag,          \* the C-tag of the subscriber being made; 0 before GetCtag
  subscribers         \* the subscribers of all SubscriberMaps

vars == <<workflow, subscribersPerOnu, onus, vendorSpecificId, ctag, dtStag, currDtStag,
          serialNum, uni, drawnCtag, subscribers>>
config == <<workflow, subscribersPerOnu, onus>>

PonIntf(o) == o[1]
OnuID(o) == o[2]
PonIntfs == {PonIntf(o) : o \in onus}

-----------------------------------------------------------------------------
(* Numbers of 32 bits, as the sets of positions of their one bits. *)

bitsForUniID == 4
bitsForONUID == 8

\* The value of the bit at position e.
powerOfTwo[e \in Nat] == IF e = 0 THEN 1 ELSE 2 * powerOfTwo[e - 1]

\* The bits of a number below 2^31.
Bits(n) == {b \in 0 .. 30 : (n \div powerOfTwo[b]) % 2 = 1}

ShiftLeft(bits, by) == {b + by : b \in bits} \cap (0 .. 31)

\* Mutant: the ONU id is shifted by one bit too few.
MkUniPortNum_Short(intfID, onuID, uniID) ==
  ShiftLeft(Bits(intfID), bitsForUniID + bitsForONUID) \cup ShiftLeft(Bits(onuID), bitsForUniID - 1) \cup Bits(uniID)

\* The bitwise or of three fields; a field that is too wide runs into the next.
MkUniPortNum(intfID, onuID, uniID) ==
  ShiftLeft(Bits(intfID), bitsForUniID + bitsForONUID) \cup ShiftLeft(Bits(onuID), bitsForUniID) \cup Bits(uniID)

\* The power of ten that leaves of a number from 1000 on its first four digits;
\* the counter stays below 10^10.
Scales == {1, 10, 100, 1000, 10000, 100000, 1000000}
FourDigits(id) ==
  CHOOSE k \in Scales : id \div k >= 1000 /\ \A j \in Scales : j > k => id \div j < 1000

\* Mutant: three characters instead of four.
stringifyVendorSpecific_Short(id) == id \div (10 * FourDigits(id))

\* The first four characters of the decimal number; the rest is not printed.
stringifyVendorSpecific(id) == id \div FourDigits(id)

-----------------------------------------------------------------------------
Init ==
  /\ \E sc \in Scenarios :
       /\ workflow = sc.workflow
       /\ subscribersPerOnu = sc.subscribersPerOnu
       /\ onus = sc.onus
  /\ \E n \in SerialsDrawn : vendorSpecificId = 1000 + n
  /\ ctag = [p \in PonIntfs |-> 0]
  /\ dtStag = {}
  /\ currDtStag = 0
  /\ serialNum = [o \in onus |-> 0]
  /\ uni = [o \in onus |-> 0]
  /\ drawnCtag = [o \in onus |-> 0]
  /\ subscribers = {}

\* GenerateNextONUSerialNumber and the launch of the ONU, in provisionONUs.
GenerateNextONUSerialNumber(o) ==
  /\ serialNum[o] = 0
  /\ vendorSpecificId' = vendorSpecificId + 1
  /\ serialNum' = [serialNum EXCEPT ![o] = stringifyVendorSpecific(vendorSpecificId')]
  /\ UNCHANGED <<config, ctag, dtStag, currDtStag, uni, drawnCtag, subscribers>>

\* The subscriber loop of OnuDevice.Start.
InLoop(o) == serialNum[o] # 0 /\ uni[o] < subscribersPerOnu

\* GetAttCtag starts with 2, GetDtCtag and GetTtCtag with 1.
FirstCtag == IF workflow = "ATT" THEN 2 ELSE 1

\* Mutant: the tag is drawn but not stored, as if read outside the lock.
GetCtag_NotStored(o) ==
  LET p == PonIntf(o)
      tag == IF ctag[p] = 0 THEN FirstCtag ELSE ctag[p] + 1
  IN  /\ InLoop(o)
      /\ drawnCtag[o] = 0
      /\ ctag' = [ctag EXCEPT ![p] = IF @ = 0 THEN tag ELSE @]
      /\ drawnCtag' = [drawnCtag EXCEPT ![o] = tag]
      /\ UNCHANGED <<config, vendorSpecificId, dtStag, currDtStag, serialNum, uni, subscribers>>

\* GetCtag, a critical section of its own.
GetCtag(o) ==
  LET p == PonIntf(o)
      tag == IF ctag[p] = 0 THEN FirstCtag ELSE ctag[p] + 1
  IN  /\ InLoop(o)
      /\ drawnCtag[o] = 0
      /\ ctag' = [ctag EXCEPT ![p] = tag]
      /\ drawnCtag' = [drawnCtag EXCEPT ![o] = tag]
      /\ UNCHANGED <<config, vendorSpecificId, dtStag, currDtStag, serialNum, uni, subscribers>>

NewSubscriber(o, stag) ==
  [onu |-> o, name |-> <<serialNum[o], uni[o]>>, ctag |-> drawnCtag[o], stag |-> stag,
   uniPortNo |-> MkUniPortNum(PonIntf(o), OnuID(o), uni[o])]

\* The subscriber is made and its goroutine launched; the loop goes on.
StartSubscriber(o, stag) ==
  /\ subscribers' = subscribers \cup {NewSubscriber(o, stag)}
  /\ uni' = [uni EXCEPT ![o] = @ + 1]
  /\ drawnCtag' = [drawnCtag EXCEPT ![o] = 0]

\* GetAttStag, GetTtStag: the tag of the PON, no lock.
GetPonStag(o) ==
  /\ InLoop(o)
  /\ drawnCtag[o] # 0
  /\ workflow \in {"ATT", "TT"}
  /\ StartSubscriber(o, PonIntf(o) + 2)
  /\ UNCHANGED <<config, vendorSpecificId, ctag, dtStag, currDtStag, serialNum>>

\* Mutant: the key leaves out the UNI.
DtStagKey_NoUni(o) == <<PonIntf(o), OnuID(o), 0>>

DtStagKey(o) == <<PonIntf(o), OnuID(o), uni[o]>>

\* GetDtStag, a critical section: the tag of the key, or the next one.
GetDtStag(o) ==
  LET known == {entry \in dtStag : entry.key = DtStagKey(o)}
      next == [key |-> DtStagKey(o), stag |-> currDtStag + 1]
      entry == IF known = {} THEN next ELSE CHOOSE e \in known : TRUE
  IN  /\ InLoop(o)
      /\ drawnCtag[o] # 0
      /\ workflow = "DT"
      /\ StartSubscriber(o, entry.stag)
      /\ dtStag' = dtStag \cup {entry}
      /\ currDtStag' = IF known = {} THEN next.stag ELSE currDtStag
      /\ UNCHANGED <<config, vendorSpecificId, ctag, serialNum>>

AllMade == (\A o \in onus : serialNum[o] # 0 /\ ~InLoop(o)) /\ UNCHANGED vars

Next ==
  \/ \E o \in onus : GenerateNextONUSerialNumber(o) \/ GetCtag(o) \/ GetPonStag(o) \/ GetDtStag(o)
  \/ AllMade

Spec == Init /\ [][Next]_vars

-----------------------------------------------------------------------------
(* Properties. *)

\* In every workflow the pair of S-tag and C-tag names one subscriber of the
\* OLT, although GetCtag and GetStag are separate critical sections and the
\* goroutines of several ONUs of a PON interleave between them.
TagPairsUnique ==
  \A s, t \in subscribers : (s.stag = t.stag /\ s.ctag = t.ctag) => s = t

\* "Dt workflow requires unique stag for each subscriber": no two subscribers
\* of the OLT share an S-tag in the DT workflow, on whatever PONs they are.
DtStagsUnique ==
  workflow = "DT" => \A s, t \in subscribers : s.stag = t.stag => s = t

\* The numbers fit their bit fields; what is left of 32 bits is the PON's.
Fits(s) ==
  /\ PonIntf(s.onu) < powerOfTwo[32 - bitsForONUID - bitsForUniID]
  /\ OnuID(s.onu) < powerOfTwo[bitsForONUID]
  /\ s.name[2] < powerOfTwo[bitsForUniID]

\* As long as PON, ONU id and UNI id fit their bit fields, MkUniPortNum gives no
\* two subscribers of the OLT the same port number.
FittingPortsUnique ==
  \A s, t \in subscribers : (Fits(s) /\ Fits(t) /\ s.uniPortNo = t.uniPortNo) => s = t

\* No two ONUs print the same serial number and no two subscribers have the same
\* name, up to the serial number 10000, the first whose last character is lost.
NamesUnique ==
  /\ \A o, p \in onus : (serialNum[o] = serialNum[p] /\ serialNum[o] # 0) => o = p
  /\ \A s, t \in subscribers : s.name = t.name => s = t

\* The counters and what the loops of OnuDevice.Start have drawn.
TypeOK ==
  /\ workflow \in {"ATT", "DT", "TT"}
  /\ onus \subseteq Nat \X Nat
  /\ vendorSpecificId \in Nat /\ vendorSpecificId >= 1000
  /\ ctag \in [PonIntfs -> Nat]
  /\ currDtStag \in Nat
  /\ serialNum \in [onus -> Nat] /\ uni \in [onus -> Nat] /\ drawnCtag \in [onus -> Nat]
  /\ \A s \in subscribers : s.onu \in onus /\ s.ctag \in Nat \ {0}

\* A subscriber stands for one iteration of its ONU's loop that is over.
LoopInv ==
  /\ \A s \in subscribers : /\ s.name[1] = serialNum[s.onu] /\ serialNum[s.onu] # 0
                            /\ s.name[2] \in Nat /\ s.name[2] < uni[s.onu]
  /\ \A s, t \in subscribers : (s.onu = t.onu /\ s.name[2] = t.name[2]) => s = t

\* A C-tag that was drawn on a PON, whether a subscriber has it already or the
\* loop of an ONU still holds it, is behind the PON's counter and nobody else's.
CtagInv ==
  /\ \A o \in onus : drawnCtag[o] <= ctag[PonIntf(o)]
  /\ \A s \in subscribers : s.ctag <= ctag[PonIntf(s.onu)]
  /\ \A o, p \in onus :
       (PonIntf(o) = PonIntf(p) /\ drawnCtag[o] = drawnCtag[p] /\ drawnCtag[o] # 0) => o = p
  /\ \A o \in onus, s \in subscribers : PonIntf(o) = PonIntf(s.onu) => drawnCtag[o] # s.ctag
  /\ \A s, t \in subscribers : (PonIntf(s.onu) = PonIntf(t.onu) /\ s.ctag = t.ctag) => s = t

\* An S-tag tells the PON or, in DT, is behind the counter; every entry of the
\* DtStag map belongs to a subscriber that exists.
StagInv ==
  /\ workflow # "DT" => \A s \in subscribers : s.stag = PonIntf(s.onu) + 2
  /\ workflow = "DT" => \A s \in subscribers : s.stag \in 1 .. currDtStag
  /\ \A entry \in dtStag : \E s \in subscribers :
       entry.key = <<PonIntf(s.onu), OnuID(s.onu), s.name[2]>>
  /\ DtStagsUnique

\* Up to 9999 the printed serial numbers are the numbers drawn; 10000 is printed
\* as 1000, which was never drawn.
SerialInv ==
  /\ vendorSpecificId < 10000 =>
       \A o \in onus : serialNum[o] # 0 => serialNum[o] \in 1001 .. vendorSpecificId
  /\ vendorSpecificId <= 10000 =>
       \A o, p \in onus : (serialNum[o] = serialNum[p] /\ serialNum[o] # 0) => o = p

\* Every subscriber keeps the port number of its PON, ONU and UNI.
PortInv ==
  \A s \in subscribers : s.uniPortNo = MkUniPortNum(PonIntf(s.onu), OnuID(s.onu), s.name[2])

\* The inductive invariant of the allocators.
IndInv == TypeOK /\ LoopInv /\ CtagInv /\ StagInv /\ SerialInv /\ PortInv
=============================================================================
