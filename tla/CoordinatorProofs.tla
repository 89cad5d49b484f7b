------------------------- MODULE CoordinatorProofs -------------------------
(***************************************************************************)
(* For any number of connections, workers, incarnations and devices: no    *)
(* worker registration outlives the connections of its worker, and, where  *)
(* every worker keeps its boot id, no device serves on the evidence of an  *)
(* incarnation that is not registered.  Every step of the coordinator is a *)
(* step of the store or leaves it alone, so that the invariants of the     *)
(* store (HealthStoreProofs) hold in it too.                               *)
(***************************************************************************)
EXTENDS Coordinator, DeviceStepProofs

ConnType ==
  [phase: {"free", "idle", "devices", "closing"},
   worker: Workers \cup {NoWorker}, boot: Boots \cup {NoBoot},
   haveWorker: BOOLEAN]

(* The inductive invariant: the types of the registry and of the threads'      *)
(* locals, a worker behind every open connection, and the property itself.     *)
CoordInv ==
  /\ workerBootRegistry \in [Workers -> Boots \cup {NoBoot}]
  /\ conns \in [Conns -> ConnType]
  /\ \A c \in Conns :
       conns[c].phase # "free" => conns[c].worker \in Workers /\ conns[c].boot \in Boots
  /\ RegistrationHasConnection

(* A thread that only moves on inside its loop keeps the invariant: the        *)
(* registry and the identities of the connections stay what they were.         *)
LEMMA EnterKept ==
  ASSUME CoordInv, NEW c \in Conns, conns[c].phase # "free",
         NEW p \in {"idle", "devices", "closing"}, Enter(c, p),
         workerBootRegistry' = workerBootRegistry
  PROVE  CoordInv'
<1>1. conns' \in [Conns -> ConnType]
  BY DEF CoordInv, ConnType, Enter
<1>2. \A x \in Conns :
        /\ conns'[x].worker = conns[x].worker /\ conns'[x].boot = conns[x].boot
        /\ conns'[x].haveWorker = conns[x].haveWorker
        /\ (conns'[x].phase # "free") = (conns[x].phase # "free")
  BY DEF CoordInv, ConnType, Enter
<1> QED
  BY <1>1, <1>2 DEF CoordInv, RegistrationHasConnection

(* A step that touches neither the connections nor the registry keeps it. *)
LEMMA UntouchedKept ==
  ASSUME CoordInv, conns' = conns, workerBootRegistry' = workerBootRegistry
  PROVE  CoordInv'
BY DEF CoordInv, RegistrationHasConnection

(* REGISTER makes its own connection the witness for the worker it registers. *)
LEMMA HandleRegisterKept ==
  ASSUME CoordInv, NEW c \in Conns, HandleRegister(c)
  PROVE  CoordInv'
<1> DEFINE w == conns[c].worker
           b == conns[c].boot
<1>1. w \in Workers /\ b \in Boots
  BY DEF CoordInv, HandleRegister
<1>2. workerBootRegistry' = [workerBootRegistry EXCEPT ![w] = b]
  BY DEF HandleRegister, RegisterWorker
<1>3. conns' = [conns EXCEPT ![c].phase = "devices", ![c].haveWorker = TRUE]
  BY DEF HandleRegister
<1>4. /\ workerBootRegistry' \in [Workers -> Boots \cup {NoBoot}]
      /\ conns' \in [Conns -> ConnType]
  <2>1. workerBootRegistry' \in [Workers -> Boots \cup {NoBoot}]
    BY <1>1, <1>2 DEF CoordInv
  <2>2. [conns[c] EXCEPT !.phase = "devices", !.haveWorker = TRUE] \in ConnType
    BY DEF CoordInv, ConnType
  <2>3. conns' \in [Conns -> ConnType]
    BY <1>3, <2>2 DEF CoordInv
  <2> QED
    BY <2>1, <2>3
<1>5. \A x \in Conns :
        /\ conns'[x].worker = conns[x].worker /\ conns'[x].boot = conns[x].boot
        /\ conns[x].haveWorker => conns'[x].haveWorker
        /\ conns[x].phase # "free" => conns'[x].phase # "free"
  BY <1>3 DEF CoordInv, ConnType
<1>6. /\ conns'[c].phase # "free" /\ conns'[c].haveWorker
      /\ conns'[c].worker = w /\ conns'[c].boot = b
  BY <1>3 DEF CoordInv, ConnType
<1>7. \A x \in Conns : conns'[x].phase # "free" =>
        conns'[x].worker \in Workers /\ conns'[x].boot \in Boots
  BY <1>1, <1>3 DEF CoordInv, ConnType
<1>8. ASSUME NEW v \in Workers, workerBootRegistry'[v] # NoBoot
      PROVE  \E x \in Conns :
               /\ conns'[x].phase # "free" /\ conns'[x].haveWorker
               /\ conns'[x].worker = v /\ conns'[x].boot = workerBootRegistry'[v]
  <2>1. CASE v = w
    BY <1>1, <1>2, <1>6, <2>1 DEF CoordInv
  <2>2. CASE v # w
    <3>1. workerBootRegistry'[v] = workerBootRegistry[v]
      BY <1>2, <2>2 DEF CoordInv
    <3>2. PICK x \in Conns :
            /\ conns[x].phase # "free" /\ conns[x].haveWorker
            /\ conns[x].worker = v /\ conns[x].boot = workerBootRegistry[v]
      BY <1>8, <3>1 DEF CoordInv, RegistrationHasConnection
    <3> QED
      BY <1>5, <3>1, <3>2
  <2> QED
    BY <2>1, <2>2
<1> QED
  BY <1>4, <1>7, <1>8 DEF CoordInv, RegistrationHasConnection

(* A new connection has no worker yet; the slot it takes witnessed nothing. *)
LEMMA AcceptClientKept ==
  ASSUME CoordInv, NEW c \in Conns, NEW w \in Workers, NEW b \in Boots,
         AcceptClient(c, w, b)
  PROVE  CoordInv'
<1>1. conns[c].phase = "free" /\ workerBootRegistry' = workerBootRegistry
  BY DEF AcceptClient, vars
<1>2. conns' = [conns EXCEPT ![c] =
        [phase |-> "idle", worker |-> w, boot |-> b, haveWorker |-> FALSE]]
  BY DEF AcceptClient
<1>3. conns' \in [Conns -> ConnType] /\ conns'[c].worker = w /\ conns'[c].boot = b
  BY <1>2 DEF CoordInv, ConnType
<1>4. \A x \in Conns : x # c => conns'[x] = conns[x]
  BY <1>2 DEF CoordInv
<1> QED
  BY <1>1, <1>3, <1>4 DEF CoordInv, RegistrationHasConnection

(* A thread that ends takes its worker's registration with it, if that is      *)
(* still its own; otherwise another connection is the witness.                 *)
LEMMA DisconnectKept ==
  ASSUME CoordInv, NEW c \in Conns, Disconnect(c)
  PROVE  CoordInv'
<1> DEFINE w == conns[c].worker
           b == conns[c].boot
<1>1. w \in Workers /\ b \in Boots
  BY DEF CoordInv, Disconnect
<1>2. conns' = [conns EXCEPT ![c] = Free]
  BY DEF Disconnect
<1>3. conns' \in [Conns -> ConnType] /\ conns'[c].phase = "free"
  BY <1>2 DEF CoordInv, ConnType, Free
<1>4. \A x \in Conns : x # c => conns'[x] = conns[x]
  BY <1>2 DEF CoordInv
<1>5. CASE conns[c].haveWorker /\ workerBootRegistry[w] = b
  <2>1. workerBootRegistry' = [workerBootRegistry EXCEPT ![w] = NoBoot]
    BY <1>5 DEF Disconnect, InvalidateWorker
  <2>2. workerBootRegistry' \in [Workers -> Boots \cup {NoBoot}]
    BY <1>1, <2>1 DEF CoordInv
  <2>3. \A v \in Workers : workerBootRegistry'[v] # NoBoot =>
          v # w /\ workerBootRegistry'[v] = workerBootRegistry[v]
    BY <1>1, <2>1 DEF CoordInv
  <2> QED
    BY <1>3, <1>4, <2>2, <2>3 DEF CoordInv, RegistrationHasConnection
<1>6. CASE ~(conns[c].haveWorker /\ workerBootRegistry[w] = b)
  <2>1. workerBootRegistry' = workerBootRegistry
    BY <1>6 DEF Disconnect, vars
  <2> QED
    BY <1>3, <1>4, <1>6, <2>1 DEF CoordInv, RegistrationHasConnection
<1> QED
  BY <1>5, <1>6

(* Every step of the coordinator keeps the invariant. *)
LEMMA CoordStep ==
  ASSUME CoordInv, [CoordNext]_coordVars PROVE CoordInv'
<1>1. ASSUME NEW c \in Conns, NEW w \in Workers, NEW b \in Boots, AcceptClient(c, w, b)
      PROVE  CoordInv'
  BY <1>1, AcceptClientKept
<1>2. ASSUME NEW c \in Conns, HandleRegister(c) PROVE CoordInv'
  BY <1>2, HandleRegisterKept
<1>3. ASSUME NEW c \in Conns, NEW id \in DOMAIN devices,
             HandleObservation(c, id) \/ HandleValidation(c, id) \/ HandleFault(c, id)
      PROVE  CoordInv'
  <2>1. conns' = conns /\ workerBootRegistry' = workerBootRegistry
    BY <1>3 DEF HandleObservation, HandleValidation, HandleFault, AcceptObservation,
                RecordValidation, RecordFault, registryVars
  <2> QED
    BY <2>1, UntouchedKept
<1>4. ASSUME NEW c \in Conns, NEW id \in DOMAIN devices, HandleRepeatedFault(c, id)
      PROVE  CoordInv'
  <2>1. conns[c].phase # "free" /\ workerBootRegistry' = workerBootRegistry
    BY <1>4 DEF HandleRepeatedFault, Reporting, vars
  <2> QED
    BY <1>4, <2>1, EnterKept DEF HandleRepeatedFault
<1>5. ASSUME NEW c \in Conns, LeaveLoop(c) PROVE CoordInv'
  <2>1. conns[c].phase # "free" /\ workerBootRegistry' = workerBootRegistry
    BY <1>5 DEF LeaveLoop, vars
  <2> QED
    BY <1>5, <2>1, EnterKept DEF LeaveLoop
<1>6. ASSUME NEW c \in Conns, RegisterItsDevice(c) PROVE CoordInv'
  <2>1. conns' = conns /\ workerBootRegistry' = workerBootRegistry
    BY <1>6 DEF RegisterItsDevice, RegisterDevice, registryVars
  <2> QED
    BY <2>1, UntouchedKept
<1>7. ASSUME NEW c \in Conns, RegisterReassess(c) \/ RegisterCutShort(c) PROVE CoordInv'
  <2>1. conns[c].phase # "free" /\ workerBootRegistry' = workerBootRegistry
    BY <1>7 DEF RegisterReassess, RegisterCutShort, ReassessAll, registryVars, vars
  <2> QED
    BY <1>7, <2>1, EnterKept DEF RegisterReassess, RegisterCutShort
<1>8. ASSUME NEW c \in Conns, Disconnect(c) PROVE CoordInv'
  BY <1>8, DisconnectKept
<1>9. CASE Time \/ UNCHANGED coordVars
  <2>1. conns' = conns /\ workerBootRegistry' = workerBootRegistry
    BY <1>9 DEF Time, Tick, registryVars, coordVars, vars
  <2> QED
    BY <2>1, UntouchedKept
<1> QED
  BY <1>1, <1>2, <1>3, <1>4, <1>5, <1>6, <1>7, <1>8, <1>9 DEF CoordNext, ThreadStep

(* No registration outlives its worker's connections: in every behaviour of    *)
(* the coordinator, a registered incarnation has a thread that will invalidate *)
(* it.                                                                         *)
THEOREM RegistrationSafe == CoordSpec => []RegistrationHasConnection
<1>1. CoordInit => CoordInv
  BY DEF CoordInit, Init, CoordInv, ConnType, Free, RegistrationHasConnection
<1>2. CoordInv /\ [CoordNext]_coordVars => CoordInv'
  BY CoordStep
<1>3. CoordInv => RegistrationHasConnection
  BY DEF CoordInv
<1> QED
  BY <1>1, <1>2, <1>3, PTL DEF CoordSpec

-----------------------------------------------------------------------------
(* The store inside the coordinator *)

(* Every step of the coordinator is one of the store, or none. *)
LEMMA CoordStoreStep ==
  ASSUME CoordInv, [CoordNext]_coordVars PROVE [Next]_vars
<1>1. ASSUME NEW c \in Conns, HandleRegister(c) PROVE Next
  <2>1. conns[c].worker \in Workers /\ conns[c].boot \in Boots
    BY <1>1 DEF HandleRegister, CoordInv
  <2> QED
    BY <1>1, <2>1 DEF HandleRegister, Next
<1>2. ASSUME NEW c \in Conns, NEW id \in DOMAIN devices,
             HandleObservation(c, id) \/ HandleValidation(c, id) \/ HandleFault(c, id)
      PROVE  Next
  <2>1. DeviceNext(id)
    BY <1>2 DEF HandleObservation, HandleValidation, HandleFault, DeviceNext
  <2> QED
    BY <2>1 DEF Next
<1>3. ASSUME NEW c \in Conns, NEW w \in Workers, NEW b \in Boots, AcceptClient(c, w, b)
      PROVE  UNCHANGED vars
  BY <1>3 DEF AcceptClient
<1>4. ASSUME NEW c \in Conns, NEW id \in DOMAIN devices, HandleRepeatedFault(c, id)
      PROVE  UNCHANGED vars
  BY <1>4 DEF HandleRepeatedFault
<1>5. ASSUME NEW c \in Conns, LeaveLoop(c) \/ RegisterCutShort(c) PROVE UNCHANGED vars
  BY <1>5 DEF LeaveLoop, RegisterCutShort
<1>6. ASSUME NEW c \in Conns, RegisterItsDevice(c) \/ RegisterReassess(c) PROVE Next
  BY <1>6 DEF RegisterItsDevice, RegisterReassess, Next
<1>7. ASSUME NEW c \in Conns, Disconnect(c) PROVE [Next]_vars
  <2>1. conns[c].worker \in Workers /\ conns[c].boot \in Boots
    BY <1>7 DEF Disconnect, CoordInv
  <2> QED
    BY <1>7, <2>1 DEF Disconnect, Next
<1>8. CASE Time
  BY <1>8 DEF Time, Next
<1>9. CASE UNCHANGED coordVars
  BY <1>9 DEF coordVars
<1> QED
  BY <1>1, <1>2, <1>3, <1>4, <1>5, <1>6, <1>7, <1>8, <1>9 DEF CoordNext, ThreadStep

(* Evidence that counts comes from a registered incarnation, and a device that *)
(* is ready has evidence.                                                      *)
Backed(d) ==
  /\ d.readiness \in ExecutionReady => d.lastObservation # 0
  /\ d.lastObservation # 0 =>
       /\ d.lastWorker \in Workers /\ d.lastWorkerBootId \in Boots
       /\ workerBootRegistry[d.lastWorker] = d.lastWorkerBootId

EvidenceBacked == \A id \in DOMAIN devices : Backed(devices[id])

(* A reassessment makes no device ready that has no evidence. *)
LEMMA StepNeedsEvidence ==
  ASSUME TypeOK, NEW d, Intact(d), Backed(d), NEW e, DeviceStep(d, e),
         e.readiness \in ExecutionReady
  PROVE  e.lastObservation # 0
<1>1. CASE e = d
  BY <1>1 DEF Backed
<1>2. CASE Flagged(d, e) \/ Lost(d, e) \/ HeldWhenLost(d, e)
  BY <1>2 DEF Backed, Flagged, Lost, HeldWhenLost, Frame, SameVerdict
<1>3. ASSUME NEW x \in DeviceType, Edited(d, x), e = Assessed(x)
      PROVE  e.lastObservation # 0
  <2>1. policyGeneration \in Nat /\ policy \in PolicyType /\ Editable(x)
    BY <1>3 DEF TypeOK, Edited
  <2> QED
    BY <1>3, <2>1, ReassessEarned DEF Assessed, Earned
<1> QED
  BY <1>1, <1>2, <1>3 DEF DeviceStep

(* While the registry stays as it is, new evidence has been checked against it. *)
LEMMA BackedStep ==
  ASSUME StoreInv, EvidenceBacked, StoreStep, workerBootRegistry' = workerBootRegistry
  PROVE  EvidenceBacked'
<1> SUFFICES ASSUME NEW id \in DOMAIN devices' PROVE Backed(devices[id])'
  BY DEF EvidenceBacked
<1>1. CASE New(id)
  BY <1>1 DEF New, NewDevice, Backed, ExecutionReady
<1>2. CASE id \in DOMAIN devices /\ DeviceStep(devices[id], devices'[id])
  <2> DEFINE d == devices[id]
             e == devices'[id]
  <2>1. Intact(d) /\ TypeOK /\ Backed(d)
    BY <1>2 DEF StoreInv, DevicesIntact, EvidenceBacked
  <2>2. e.readiness \in ExecutionReady => e.lastObservation # 0
    BY <1>2, <2>1, StepNeedsEvidence
  <2>3. SameEvidence(d, e) \/ Heard(d, e)
    BY <1>2, <2>1, StepRecords
  <2> HIDE DEF d
  <2> QED
    BY <2>1, <2>2, <2>3 DEF Backed, SameEvidence, Heard
<1> QED
  BY <1>1, <1>2 DEF StoreStep, DevicesStep

(* A worker that keeps its boot id registers again as the incarnation it was. *)
LEMMA BackedRegister ==
  ASSUME \A b1, b2 \in Boots : b1 = b2, StoreInv, EvidenceBacked,
         NEW w \in Workers, NEW b \in Boots, RegisterWorker(w, b)
  PROVE  EvidenceBacked'
<1>1. /\ devices' = devices
      /\ workerBootRegistry' = [workerBootRegistry EXCEPT ![w] = b]
      /\ workerBootRegistry \in [Workers -> Boots \cup {NoBoot}]
  BY DEF RegisterWorker, StoreInv, TypeOK
<1> QED
  BY <1>1 DEF EvidenceBacked, Backed

(* A worker that is invalidated takes its evidence with it. *)
LEMMA BackedInvalidate ==
  ASSUME StoreInv, EvidenceBacked,
         NEW w \in Workers, NEW b \in Boots, InvalidateWorker(w, b)
  PROVE  EvidenceBacked'
<1>1. /\ workerBootRegistry' = [workerBootRegistry EXCEPT ![w] = NoBoot]
      /\ workerBootRegistry \in [Workers -> Boots \cup {NoBoot}] /\ workerBootRegistry[w] = b
      /\ DOMAIN devices' = DOMAIN devices /\ StoreStep
  BY InvalidateWorkerStep DEF InvalidateWorker, StoreInv, TypeOK
<1> SUFFICES ASSUME NEW id \in DOMAIN devices PROVE Backed(devices[id])'
  BY <1>1 DEF EvidenceBacked
<1>2. CASE devices[id].lastWorker = w /\ devices[id].lastWorkerBootId = b
  <2> DEFINE o == Opened(id)
             x == [o EXCEPT !.lastObservation = 0, !.deviceGenerationChanged = FALSE]
             e == Assessed(x)
  <2>1. o \in DeviceType
    BY OpenedFacts DEF StoreInv, DevicesIntact, Intact
  <2>2. devices'[id] = e
    BY <1>2 DEF InvalidateWorker
  <2> HIDE DEF o
  <2>3. x \in DeviceType /\ x.lastObservation = 0
    BY <2>1 DEF DeviceType
  <2> HIDE DEF x
  <2>4. policyGeneration \in Nat
    BY DEF StoreInv, TypeOK
  <2>5. e.lastObservation = 0
    BY <2>3, <2>4, ReassessFacts DEF Assessed, Frame
  <2>6. DeviceStep(devices[id], devices'[id]) \/ New(id)
    BY <1>1 DEF StoreStep, DevicesStep
  <2>7. e.readiness \notin ExecutionReady
    BY <2>2, <2>5, <2>6, StepNeedsEvidence
    DEF StoreInv, DevicesIntact, EvidenceBacked, New, NewDevice, ExecutionReady
  <2> QED
    BY <2>2, <2>5, <2>7 DEF Backed
<1>3. CASE ~(devices[id].lastWorker = w /\ devices[id].lastWorkerBootId = b)
  <2>1. devices'[id] = devices[id] /\ Backed(devices[id])
    BY <1>3 DEF InvalidateWorker, EvidenceBacked
  <2> QED
    BY <1>1, <1>3, <2>1 DEF Backed
<1> QED
  BY <1>2, <1>3

(* So evidence stays backed in every step of the coordinator. *)
LEMMA BackedCoordStep ==
  ASSUME \A b1, b2 \in Boots : b1 = b2,
         CoordInv, StoreInv, EvidenceBacked, [CoordNext]_coordVars
  PROVE  EvidenceBacked'
<1>1. StoreStep
  BY CoordStoreStep, NextStep
<1>2. CASE \E c \in Conns : HandleRegister(c)
  <2>1. PICK c \in Conns : HandleRegister(c)
    BY <1>2
  <2>2. conns[c].worker \in Workers /\ conns[c].boot \in Boots
    BY <2>1 DEF HandleRegister, CoordInv
  <2> QED
    BY <2>1, <2>2, BackedRegister DEF HandleRegister
<1>3. CASE \E c \in Conns : Disconnect(c)
  <2>1. PICK c \in Conns : Disconnect(c)
    BY <1>3
  <2>2. conns[c].worker \in Workers /\ conns[c].boot \in Boots
    BY <2>1 DEF Disconnect, CoordInv
  <2>3. InvalidateWorker(conns[c].worker, conns[c].boot) \/ UNCHANGED vars
    BY <2>1 DEF Disconnect
  <2> QED
    BY <1>1, <2>2, <2>3, BackedInvalidate, BackedStep DEF vars
<1>4. CASE ~(\E c \in Conns : HandleRegister(c) \/ Disconnect(c))
  <2>1. ASSUME NEW c \in Conns, NEW id \in DOMAIN devices,
               HandleObservation(c, id) \/ HandleValidation(c, id)
                 \/ HandleFault(c, id) \/ HandleRepeatedFault(c, id)
        PROVE  workerBootRegistry' = workerBootRegistry
    BY <2>1 DEF HandleObservation, HandleValidation, HandleFault, HandleRepeatedFault,
                AcceptObservation, RecordValidation, RecordFault, registryVars, vars
  <2>2. ASSUME NEW c \in Conns,
               \/ \E w \in Workers, b \in Boots : AcceptClient(c, w, b)
               \/ LeaveLoop(c) \/ RegisterItsDevice(c)
               \/ RegisterReassess(c) \/ RegisterCutShort(c)
        PROVE  workerBootRegistry' = workerBootRegistry
    BY <2>2 DEF AcceptClient, LeaveLoop, RegisterItsDevice, RegisterReassess,
                RegisterCutShort, RegisterDevice, ReassessAll, registryVars, vars
  <2>3. ASSUME Time \/ UNCHANGED coordVars PROVE workerBootRegistry' = workerBootRegistry
    BY <2>3 DEF Time, Tick, registryVars, coordVars, vars
  <2>4. workerBootRegistry' = workerBootRegistry
    BY <1>4, <2>1, <2>2, <2>3 DEF CoordNext, ThreadStep
  <2> QED
    BY <1>1, <2>4, BackedStep
<1> QED
  BY <1>2, <1>3, <1>4

(* Where every worker keeps its boot id, no order of connections, reports and  *)
(* disconnections leaves a device execution ready on the evidence of a worker  *)
(* that is not registered: for any number of workers, devices and connections. *)
THEOREM RegisteredWorkerSafe ==
  ASSUME \A b1, b2 \in Boots : b1 = b2
  PROVE  CoordSpec => []ServingHasRegisteredWorker
<1>1. CoordInit => CoordInv /\ Inv /\ EvidenceBacked
  <2>1. CoordInit => CoordInv
    BY DEF CoordInit, Init, CoordInv, ConnType, Free, RegistrationHasConnection
  <2>2. CoordInit => DOMAIN devices = {}
    BY DEF CoordInit, Init
  <2> QED
    BY <2>1, <2>2, InitInv DEF CoordInit, EvidenceBacked
<1>2. CoordInv /\ Inv /\ EvidenceBacked /\ [CoordNext]_coordVars
      => (CoordInv /\ Inv /\ EvidenceBacked)'
  <2> SUFFICES ASSUME CoordInv, Inv, EvidenceBacked, [CoordNext]_coordVars
               PROVE  (CoordInv /\ Inv /\ EvidenceBacked)'
    OBVIOUS
  <2>1. CoordInv' /\ [Next]_vars
    BY CoordStep, CoordStoreStep
  <2>2. EvidenceBacked'
    BY BackedCoordStep DEF Inv
  <2> QED
    BY <2>1, <2>2, NextInv
<1>3. EvidenceBacked => ServingHasRegisteredWorker
  BY DEF EvidenceBacked, Backed, ServingHasRegisteredWorker
<1> QED
  BY <1>1, <1>2, <1>3, PTL DEF CoordSpec
=============================================================================
