------------------------------- MODULE Startup -------------------------------
(***************************************************************************)
(* From main (main.go) to provisionONUs: OpenOltManager.Start connects to  *)
(* the openolt-agent, loads the technology profiles into etcd, makes one   *)
(* resource manager per PON (core/resource_manager.go), sends the trap     *)
(* flows of the NNI and launches provisionONUs, while main waits for a     *)
(* signal.  Of provisionONUs there are the batches, the activation of the  *)
(* ONUs and the profiles of the subscribers, with every way in which they  *)
(* end or hold up the process; wait groups and verdicts are those of       *)
(* Provisioning.  Every ONU has one subscriber here.                       *)
(***************************************************************************)
EXTENDS Integers, Sequences, FiniteSets

CONSTANTS
  Scenarios,   \* device and configuration
  Answers      \* what the agent and etcd may answer: "ok", "error", "lost"

\* A field of the TP-id flag that strconv.Atoi does not take.
NotANumber == -1

\* A scenario: for each PON the technology of the range that covers it ("none"
\* without one), the technology of the device, the workflow name, the fields of
\* the TP-id flag, the profiles <<technology, TP id>> earlier runs left in etcd,
\* on whatever device, whether the agent can be reached, whether provisionONUs
\* accepts the number of ONUs, the number of batches it makes of them, and the
\* subscribers of a PON in one batch, each on an ONU of its own.
ASSUME ScenarioAssumption ==
  \A sc \in Scenarios :
    /\ sc.ponPorts \in Nat
    /\ DOMAIN sc.rangeTech = 0 .. sc.ponPorts - 1
    /\ sc.tpIDsString \in Seq(Nat \cup {NotANumber})
    /\ sc.batches \in Nat
    /\ sc.subs # {}
ASSUME AnswersAssumption == "ok" \in Answers /\ Answers \subseteq {"ok", "error", "lost"}

VARIABLES
  sc,        \* the device and the configuration
  proc,      \* "running", or how the process ended
  notified,  \* main has called signal.Notify
  signal,    \* a signal is in signalChannel
  pc,        \* where Start is
  tp,        \* the position in TpIDList of the profile to load
  etcd,      \* profiles in etcd: <<technology, TP id, "old" or "loaded">>
  rsrMgr,    \* managers: "unset", "ok", "nil", or "blind": without DefaultTpKVBackend
  nni,       \* the trap flows of the NNI have been sent to the agent
  batch,     \* provisionONUs' batch: it indexes rsrMgr
  onu,       \* the ONU of a subscriber: "unset", "no id", "refused" or "active"
  tpMap,     \* each PON's cached profile for TpIDList[0], "unset" before
  read,      \* what a subscriber's getTPFromKVStore gave it, "unset" before
  profile,   \* the profile a subscriber was provisioned with, "unset" before
  failedRead,     \* history: PONs on which a read of the profile has failed
  failedInstance  \* history: the ids for an instance could not be drawn

main == <<proc, notified, signal>>
start == <<pc, tp, etcd, rsrMgr, nni>>
subscribers == <<batch, onu, tpMap, read, profile, failedRead, failedInstance>>
vars == <<sc, main, start, subscribers>>

\* GetTpIDList: a field that is not a number is left out.
GetTpIDList(fields) ==
  LET list[n \in 0 .. Len(fields)] ==
        IF n = 0 THEN <<>>
        ELSE IF fields[n] = NotANumber THEN list[n - 1] ELSE Append(list[n - 1], fields[n])
  IN  list[Len(fields)]

TpIDList == GetTpIDList(sc.tpIDsString)

Pons == 0 .. sc.ponPorts - 1
Subscribers == Pons \X (0 .. sc.batches - 1) \X sc.subs
Supported == sc.workflow \in {"ATT", "DT", "TT"}

Init ==
  /\ sc \in Scenarios
  /\ proc = "running"
  /\ notified = FALSE
  /\ signal = FALSE
  /\ pc = "dial"
  /\ tp = 1
  /\ etcd = {<<e[1], e[2], "old">> : e \in sc.old}
  /\ rsrMgr = [p \in Pons |-> "unset"]
  /\ nni = FALSE
  /\ batch = 0
  /\ onu = [s \in Subscribers |-> "unset"]
  /\ tpMap = [p \in Pons |-> "unset"]
  /\ read = [s \in Subscribers |-> "unset"]
  /\ profile = [s \in Subscribers |-> "unset"]
  /\ failedRead = {}
  /\ failedInstance = FALSE

At(place) == proc = "running" /\ pc = place

\* logger.Fatal ends the process.
Fatal == proc' = "exited" /\ UNCHANGED <<notified, signal, pc>>
Panics == proc' = "panicked" /\ UNCHANGED <<notified, signal, pc>>
GoTo(place) == pc' = place /\ UNCHANGED main

-----------------------------------------------------------------------------
(* main *)

\* waitForExit, which runs beside Start.
Notify ==
  /\ proc = "running"
  /\ ~notified
  /\ notified' = TRUE
  /\ UNCHANGED <<sc, proc, signal, start, subscribers>>

\* Mutant: a signal before Notify is lost.
SendSignal_Lost ==
  /\ IF notified THEN signal' = TRUE ELSE UNCHANGED signal
  /\ UNCHANGED proc

\* A signal that main has not asked for yet kills the process.
SendSignal ==
  \/ notified /\ signal' = TRUE /\ UNCHANGED proc
  \/ ~notified /\ proc' = "killed" /\ UNCHANGED signal

\* A signal from outside.
Interrupt ==
  /\ proc = "running"
  /\ SendSignal
  /\ UNCHANGED <<sc, notified, start, subscribers>>

MainReturns ==
  /\ proc = "running"
  /\ signal
  /\ proc' = "stopped"
  /\ UNCHANGED <<sc, notified, signal, start, subscribers>>

-----------------------------------------------------------------------------
(* OpenOltManager.Start *)

\* grpc.Dial with WithBlock: it waits until the agent is there.
Dial ==
  /\ At("dial")
  /\ sc.agentUp
  /\ GoTo("device info")
  /\ UNCHANGED <<sc, tp, etcd, rsrMgr, nni, subscribers>>

\* Its error, of a target or an option that it does not take, is returned to
\* main, which started Start with "go": it is lost.
DialFails ==
  /\ At("dial")
  /\ Answers # {"ok"}
  /\ GoTo("returned error")
  /\ UNCHANGED <<sc, tp, etcd, rsrMgr, nni, subscribers>>

\* So is the error of GetDeviceInfo.
PopulateDeviceInfo ==
  /\ At("device info")
  /\ \E answer \in Answers : GoTo(IF answer = "ok" THEN "etcd client" ELSE "returned error")
  /\ UNCHANGED <<sc, tp, etcd, rsrMgr, nni, subscribers>>

NewEtcdClient ==
  /\ At("etcd client")
  /\ \E answer \in Answers : IF answer = "ok" THEN GoTo("load") ELSE Fatal
  /\ UNCHANGED <<sc, tp, etcd, rsrMgr, nni, subscribers>>

Stored(t) ==
  {e \in etcd : e[1] # sc.technology \/ e[2] # t} \cup {<<sc.technology, t, "loaded">>}

\* Mutant: a profile that is in etcd already is not loaded again.
LoadTP_KeepOld ==
  /\ At("load")
  /\ tp <= Len(TpIDList)
  /\ \E answer \in Answers :
       /\ etcd' = IF answer = "error" \/ (\E e \in etcd : e[1] = sc.technology /\ e[2] = TpIDList[tp])
                  THEN etcd ELSE Stored(TpIDList[tp])
       /\ IF answer = "ok" THEN tp' = tp + 1 /\ GoTo(pc) ELSE Fatal /\ UNCHANGED tp
  /\ UNCHANGED <<sc, rsrMgr, nni, subscribers>>

\* readAndLoadTPsToEtcd for one profile: the file is read, put, and read back.
\* Every failure is fatal, before the put or after it.
LoadTP ==
  /\ At("load")
  /\ tp <= Len(TpIDList)
  /\ \E answer \in Answers :
       /\ etcd' = IF answer = "error" THEN etcd ELSE Stored(TpIDList[tp])
       /\ IF answer = "ok" THEN tp' = tp + 1 /\ GoTo(pc) ELSE Fatal /\ UNCHANGED tp
  /\ UNCHANGED <<sc, rsrMgr, nni, subscribers>>

\* Mutant: the loop stops before the last PON.
MoreManagers_LastLeftOut == \E p \in Pons : p + 1 \in Pons /\ rsrMgr[p] = "unset"

MoreManagers == \E p \in Pons : rsrMgr[p] = "unset"

\* The next PON without a manager.
ponIdx == CHOOSE p \in Pons : rsrMgr[p] = "unset" /\ \A q \in Pons : q < p => rsrMgr[q] # "unset"

\* What comes of making a manager: a client that cannot be made gives a nil
\* manager, which goes unnoticed, or, of the three clients of NewTechProfile the
\* one that is not checked, a manager that cannot read profiles; a pool that
\* cannot be set up is fatal.
Managers == IF Answers = {"ok"} THEN {"ok"} ELSE {"ok", "nil", "blind", "fatal"}

\* NewResourceMgr for one PON.  Without a range for the PON PonRsrMgr stays nil
\* and is dereferenced.
NewResourceMgr ==
  /\ At("load")
  /\ tp > Len(TpIDList)
  /\ MoreManagers
  /\ \/ sc.rangeTech[ponIdx] = "none" /\ Panics /\ UNCHANGED rsrMgr
     \/ /\ sc.rangeTech[ponIdx] # "none"
        /\ \E mgr \in Managers :
             IF mgr = "fatal" THEN Fatal /\ UNCHANGED rsrMgr
             ELSE rsrMgr' = [rsrMgr EXCEPT ![ponIdx] = mgr] /\ GoTo(pc)
  /\ UNCHANGED <<sc, tp, etcd, nni, subscribers>>

\* Mutant: the trap flows are left to a goroutine.
ProvisionNniTrapFlow_Later ==
  /\ At("load")
  /\ tp > Len(TpIDList)
  /\ ~MoreManagers
  /\ GoTo("returned")
  /\ UNCHANGED <<sc, tp, etcd, rsrMgr, nni, subscribers>>

\* ProvisionNniTrapFlow with rsrMgr[0], then "go provisionONUs".  A supported
\* workflow draws its flow ids, which cannot fail, and sends the flows, whatever
\* the agent answers; an unsupported one sends none, and its error is logged.
ProvisionNniTrapFlow ==
  /\ At("load")
  /\ tp > Len(TpIDList)
  /\ ~MoreManagers
  /\ IF sc.ponPorts = 0 \/ (Supported /\ rsrMgr[0] \notin {"ok", "blind"})
     THEN Panics /\ UNCHANGED nni
     ELSE GoTo("returned") /\ nni' = Supported
  /\ UNCHANGED <<sc, tp, etcd, rsrMgr, subscribers>>

-----------------------------------------------------------------------------
(* provisionONUs, without a group test *)

\* What comes of one ONU: no id could be drawn and the ONU is left out; the agent
\* refuses it, AlreadyExists included; or it is active.
Activations == IF Answers = {"ok"} THEN {"active"} ELSE {"no id", "refused", "active"}

\* The loop of a batch for one ONU, and activateONU.  The id is drawn through the
\* manager that the batch number indexes, which may be past the end or nil.
ActivateOnu(s) ==
  /\ At("returned")
  /\ sc.accepted
  /\ s[2] = batch /\ onu[s] = "unset"
  /\ IF batch \notin Pons \/ rsrMgr[batch] \in {"nil", "unset"}
     THEN Panics /\ UNCHANGED onu
     ELSE (\E outcome \in Activations : onu' = [onu EXCEPT ![s] = outcome]) /\ GoTo(pc)
  /\ UNCHANGED <<sc, tp, etcd, rsrMgr, nni, batch, tpMap, read, profile, failedRead, failedInstance>>

\* The manager of PON p looks the profile up under its own technology.
Found(p) == {e \in etcd : e[1] = sc.rangeTech[p] /\ e[2] = TpIDList[1]}

\* getTPFromKVStore: the cached profile, or the one in etcd, or, when there is
\* none or etcd fails, the default profile of the library.
ProfileOf(p, answer) ==
  IF tpMap[p] # "unset" THEN tpMap[p]
  ELSE IF answer # "ok" \/ Found(p) = {} THEN "default"
  ELSE (CHOOSE e \in Found(p) : TRUE)[3]

\* OnuDevice.Start, and Subscriber.Start up to the lookup of its first profile;
\* with an empty TpIDList there is none.  A nil manager or backend is dereferenced.
GetTP(s) ==
  LET p == s[1]
  IN  /\ At("returned")
      /\ onu[s] = "active" /\ read[s] = "unset"
      /\ IF TpIDList # <<>> /\ (rsrMgr[p] \in {"nil", "unset"} \/ (rsrMgr[p] = "blind" /\ tpMap[p] = "unset"))
         THEN Panics /\ UNCHANGED subscribers
         ELSE /\ \E answer \in Answers :
                   /\ read' = [read EXCEPT ![s] = IF TpIDList = <<>> THEN "none" ELSE ProfileOf(p, answer)]
                   /\ failedRead' = IF answer = "ok" \/ tpMap[p] # "unset" THEN failedRead ELSE failedRead \cup {p}
              /\ GoTo(pc)
              /\ UNCHANGED <<batch, onu, tpMap, profile, failedInstance>>
      /\ UNCHANGED <<sc, tp, etcd, rsrMgr, nni>>

\* What comes of the instance: ids that cannot be drawn give none, and an instance
\* that cannot be stored in etcd is fatal.
Instances == IF Answers = {"ok"} THEN {"ok"} ELSE {"ok", "no ids", "not stored"}

\* "Store TP in cache", then the instance and DeployWorkflow: an EPON instance,
\* and none at all, are not of the asserted type, the workflow may be nil, and
\* TpIDList[0] is indexed.
StoreTP(s) ==
  LET p == s[1]
  IN  /\ At("returned")
      /\ read[s] # "unset" /\ profile[s] = "unset"
      /\ \/ /\ sc.rangeTech[p] = "EPON" \/ ~Supported \/ TpIDList = <<>>
            /\ Panics /\ UNCHANGED <<tpMap, profile, failedInstance>>
         \/ /\ sc.rangeTech[p] # "EPON" /\ TpIDList # <<>>
            /\ \E made \in Instances :
                 \/ made = "no ids" /\ Panics /\ failedInstance' = TRUE /\ UNCHANGED <<tpMap, profile>>
                 \/ made = "not stored" /\ Fatal /\ UNCHANGED <<tpMap, profile, failedInstance>>
                 \/ /\ made = "ok" /\ Supported
                    /\ tpMap' = [tpMap EXCEPT ![p] = read[s]]
                    /\ profile' = [profile EXCEPT ![s] = read[s]]
                    /\ GoTo(pc) /\ UNCHANGED failedInstance
      /\ UNCHANGED <<sc, tp, etcd, rsrMgr, nni, batch, onu, read, failedRead>>

\* onuWg.Wait: the ONUs that got an id have ended, which a refused one never does.
NextBatch ==
  /\ At("returned")
  /\ sc.accepted /\ batch < sc.batches
  /\ \A s \in Subscribers : s[2] = batch => onu[s] = "no id" \/ profile[s] # "unset"
  /\ batch' = batch + 1
  /\ UNCHANGED <<sc, main, start, onu, tpMap, read, profile, failedRead, failedInstance>>

\* All batches are done, or the number of ONUs was not accepted: the process sends
\* itself a SIGINT.
StopProcess ==
  /\ At("returned")
  /\ sc.accepted => batch = sc.batches
  /\ pc' = "done"
  /\ SendSignal
  /\ UNCHANGED <<sc, notified, tp, etcd, rsrMgr, nni, subscribers>>

-----------------------------------------------------------------------------
Start ==
  \/ Dial \/ PopulateDeviceInfo \/ NewEtcdClient \/ LoadTP
  \/ NewResourceMgr \/ ProvisionNniTrapFlow

ProvisionONUs ==
  \/ NextBatch \/ StopProcess
  \/ \E s \in Subscribers : ActivateOnu(s) \/ GetTP(s) \/ StoreTP(s)

Program == Start \/ ProvisionONUs \/ Notify \/ MainReturns

\* The process is over.
Over == proc # "running" /\ UNCHANGED vars

Next == Program \/ DialFails \/ Interrupt \/ Over

Spec == Init /\ [][Next]_vars

\* Goroutines run, and the agent, once it is there, and etcd answer.  Nobody has
\* to send a signal from outside, and Dial need not fail.
FairSpec == Spec /\ WF_vars(Program)

-----------------------------------------------------------------------------
(* Properties. *)

\* "This function should get called even before provisioning an ONUs": when
\* provisionONUs runs, the trap flows of a supported workflow have been sent, every
\* profile asked for by number is in etcd as loaded by this run, and for every PON
\* a manager has been tried.  One that could not be made is nil and goes unnoticed,
\* but never that of PON 0 with a supported workflow, which the trap flows need.
StartupOrder ==
  pc \in {"returned", "done"} =>
    /\ \A n \in DOMAIN sc.tpIDsString :
         sc.tpIDsString[n] # NotANumber => <<sc.technology, sc.tpIDsString[n], "loaded">> \in etcd
    /\ \A p \in Pons : rsrMgr[p] # "unset"
    /\ Supported => nni /\ rsrMgr[0] # "nil"

\* A subscriber is provisioned with a profile that an earlier run left in etcd only
\* where the range of its PON has another technology than the device, under which
\* nothing was loaded, and with the library's default only there or where a read
\* has failed on its PON: the cache spreads the default of one failed read to the
\* subscribers that come later, never to another PON.
LoadedProfileUsed ==
  \A s \in Subscribers :
    /\ profile[s] = "old" => sc.rangeTech[s[1]] # sc.technology
    /\ profile[s] = "default" => sc.rangeTech[s[1]] # sc.technology \/ s[1] \in failedRead

Healthy ==
  /\ sc.ponPorts > 0 /\ Supported /\ TpIDList # <<>>
  /\ \A p \in Pons : sc.rangeTech[p] \notin {"none", "EPON"}

BadManager == \E p \in Pons : rsrMgr[p] \in {"nil", "blind"}

\* On a device whose ranges cover its PONs, with a supported workflow and a
\* profile, a panic has one of three causes: a manager that could not be made in
\* full; ids for an instance that could not be drawn; or more batches than PONs,
\* and then as many batches as there are PONs are complete before it.
PanicsHaveACause ==
  (Healthy /\ proc = "panicked") =>
    \/ BadManager
    \/ failedInstance
    \/ batch = sc.ponPorts /\ batch < sc.batches

\* The process comes to an end by itself unless the agent is never there, the
\* connection or the device info fails, or the agent has refused an ONU, for which
\* provisionONUs waits forever; the SIGINT is not lost when it overtakes
\* signal.Notify.
StopsUnlessHeldUp ==
  <>[](\/ proc # "running"
       \/ pc \in {"dial", "returned error"}
       \/ \E s \in Subscribers : onu[s] = "refused")
-----------------------------------------------------------------------------
(* The inductive invariant. *)

TypeOK ==
  /\ sc \in Scenarios
  /\ tp \in Nat \ {0}
  /\ rsrMgr \in [Pons -> {"unset", "ok", "nil", "blind"}]
  /\ batch \in Nat
  /\ DOMAIN onu = Subscribers
  /\ DOMAIN tpMap = Pons /\ DOMAIN read = Subscribers /\ DOMAIN profile = Subscribers

\* The profiles before tp are in etcd as this run loaded them, and under the
\* technology of the device only so.
ProfilesLoaded ==
  \A n \in 1 .. Len(TpIDList) : n < tp =>
    /\ <<sc.technology, TpIDList[n], "loaded">> \in etcd
    /\ \A e \in etcd : e[1] = sc.technology /\ e[2] = TpIDList[n] => e[3] = "loaded"

Started ==
  pc \in {"returned", "done"} =>
    /\ tp > Len(TpIDList) /\ sc.ponPorts > 0
    /\ \A p \in Pons : rsrMgr[p] # "unset"
    /\ Supported => nni /\ rsrMgr[0] # "nil"

\* An ONU is only tried in a batch that has a manager, so that no more batches are
\* completed than there are PONs.
BatchesHaveManagers ==
  /\ batch <= sc.ponPorts
  /\ \A s \in Subscribers :
       /\ onu[s] # "unset" => s[2] \in Pons
       /\ onu[s] = "unset" => read[s] = "unset"
       /\ read[s] = "unset" => profile[s] = "unset"

\* A profile, cached, read or used on PON p, that LoadedProfileUsed allows.
Allowed(used, p) ==
  /\ used = "old" => sc.rangeTech[p] # sc.technology
  /\ used = "default" => sc.rangeTech[p] # sc.technology \/ p \in failedRead

OnlyAllowed ==
  /\ \A p \in Pons : Allowed(tpMap[p], p)
  /\ \A s \in Subscribers : Allowed(read[s], s[1]) /\ Allowed(profile[s], s[1])

IndInv ==
  /\ TypeOK /\ ProfilesLoaded /\ Started /\ BatchesHaveManagers /\ OnlyAllowed
  /\ PanicsHaveACause
=============================================================================
