---------------------------- MODULE Persistence ----------------------------
(***************************************************************************)
(* Saving the store to a file and loading it in a later process.  Save     *)
(* takes no lock: it encodes the store piece by piece, writes path.tmp and *)
(* renames it over path, while other threads call the store or save too.   *)
(* The process may die anywhere; what it leaves is the disk.               *)
(*                                                                         *)
(* A file is Garbage (truncated, partly written, mixed) or an image; the   *)
(* size, magic, version and CRC checks of the decoder reject exactly       *)
(* Garbage, before the store is touched.                                   *)
(***************************************************************************)
EXTENDS HealthStore, FiniteSetsExt

CONSTANTS
  Savers,       \* threads that may be inside saveToFile
  Racing,       \* where in a save other threads may call the store or save too
  LoadFlags,    \* whether processes are started with --load, without, or either
  Inodes,       \* files the disk can hold, numbers from 1
  Garbage,      \* the content of a file no writer has finished
  MaxSaves, MaxRestarts

(* A device's uuid is its id, unless the uuid is 0. *)
ASSUME PersistenceAssumption ==
  /\ 0 \notin Uuids
  /\ LoadFlags \subseteq BOOLEAN
  /\ Inodes \subseteq Nat \ {0}
  /\ MaxSaves \in Nat /\ MaxRestarts \in Nat

VARIABLES
  saver,                \* thread -> where it is in saveToFile, and what it holds
  disk,                 \* inode -> content
  pathEntry, tmpEntry,  \* the inodes named path and path.tmp, 0 if none
  saves, restarts,      \* calls of saveToFile and process starts so far
  loaded,               \* not in the code: this process has loaded a file
  mixedStore            \* not in the code: it was a mixed one (see Mixed)

fileVars == <<disk, pathEntry, tmpEntry>>
originVars == <<loaded, mixedStore>>
allVars == <<vars, saver, fileVars, saves, restarts, originVars>>

Idle == [pc |-> "idle", image |-> Garbage, inode |-> 0]

File == IF pathEntry = 0 THEN Garbage ELSE disk[pathEntry]

-----------------------------------------------------------------------------
(* encodeState *)

(* What a device record holds of a device: not requiresRevalidation, nor the   *)
(* indexes.                                                                    *)
Saved(d) ==
  [d EXCEPT !.trail = <<>>, !.requiresRevalidation = FALSE,
            !.stateIndexed = "UNKNOWN", !.staleIndexed = FALSE,
            !.quarantineIndexed = FALSE]

(* Variant: the inRecovery flag is left out of the file. *)
WithBackForgettingRecovery(front, d) ==
  [front EXCEPT !.quarantine = d.quarantine, !.inRecovery = FALSE]

(* The fields written after the change log, read later than those before it.   *)
WithBack(front, d) ==
  [front EXCEPT
     !.assessedPolicyGeneration = d.assessedPolicyGeneration,
     !.highestValidation        = d.highestValidation,
     !.lastObservation          = d.lastObservation,
     !.quarantine               = d.quarantine,
     !.successfulValidations    = d.successfulValidations,
     !.deviceGenerationChanged  = d.deviceGenerationChanged,
     !.policyGenerationChanged  = d.policyGenerationChanged,
     !.inRecovery               = d.inRecovery]

(* Not in the code: whether what the file says of a device, entry, was true of *)
(* it at no time, because a call changed it between its two halves.            *)
Mixed(front, entry, new) == front # new /\ entry \notin {front, new}

(* The devices map is walked in the order of its keys. *)
Unwritten(img) == {id \in DOMAIN devices : \A x \in DOMAIN img.devices : x < id}

AfterDevice(img) == IF Unwritten(img) = {} THEN "open" ELSE "front"

(* Other threads run everywhere in the code; a run may leave out the points of *)
(* a save where the store is not read.                                         *)
OthersRun == \A s \in Savers : saver[s].pc \in Racing \cup {"idle"}

EncodeHeader(s) ==
  /\ saver[s].pc = "idle" /\ saves < MaxSaves
  /\ OthersRun
  /\ LET img == [policy |-> policy, policyGeneration |-> policyGeneration,
                 epoch |-> coordinatorEpoch, count |-> Cardinality(DOMAIN devices),
                 devices |-> <<>>, mixed |-> mixedStore]
     IN  saver' = [saver EXCEPT ![s].image = img, ![s].pc = AfterDevice(img)]
  /\ saves' = saves + 1
  /\ UNCHANGED <<vars, fileVars, restarts, originVars>>

EncodeFront(s) ==
  /\ saver[s].pc = "front"
  /\ LET id == Min(Unwritten(saver[s].image)) IN
     saver' = [saver EXCEPT
       ![s].image.devices = [x \in DOMAIN @ \cup {id} |->
          IF x = id THEN Saved(devices[id]) ELSE @[x]],
       ![s].pc = "back"]
  /\ UNCHANGED <<vars, fileVars, saves, restarts, originVars>>

EncodeBack(s) ==
  /\ saver[s].pc = "back"
  /\ LET img   == saver[s].image
         id    == Max(DOMAIN img.devices)
         front == img.devices[id]
         entry == WithBack(front, devices[id])
     IN  saver' = [saver EXCEPT
           ![s].image.devices[id] = entry,
           ![s].image.mixed = @ \/ Mixed(front, entry, Saved(devices[id])),
           ![s].pc = AfterDevice(img)]
  /\ UNCHANGED <<vars, fileVars, saves, restarts, originVars>>

-----------------------------------------------------------------------------
(* saveInternal *)

(* Variant: the file is written where it will be read. *)
OpenInPlace(s) ==
  /\ saver[s].pc = "open"
  /\ \E i \in Inodes :
       /\ IF pathEntry # 0 THEN i = pathEntry ELSE i # tmpEntry
       /\ disk' = [disk EXCEPT ![i] = Garbage]
       /\ pathEntry' = i
       /\ saver' = [saver EXCEPT ![s].pc = "write", ![s].inode = i]
  /\ UNCHANGED <<vars, tmpEntry, saves, restarts, originVars>>

(* Opening path.tmp truncates the file of that name, or makes a new one. *)
OpenTmp(s) ==
  /\ saver[s].pc = "open"
  /\ \E i \in Inodes :
       /\ IF tmpEntry # 0 THEN i = tmpEntry
          ELSE i = Min({j \in Inodes : /\ j # pathEntry
                                         /\ \A x \in Savers : saver[x].inode # j})
       /\ disk' = [disk EXCEPT ![i] = Garbage]
       /\ tmpEntry' = i
       /\ saver' = [saver EXCEPT ![s].pc = "write", ![s].inode = i]
  /\ UNCHANGED <<vars, pathEntry, saves, restarts, originVars>>

OpenFails(s) ==
  /\ saver[s].pc = "open"
  /\ saver' = [saver EXCEPT ![s] = Idle]
  /\ UNCHANGED <<vars, fileVars, saves, restarts, originVars>>

(* A file another thread has filled meanwhile may be longer: a mix is left. *)
WriteTmp(s) ==
  /\ saver[s].pc = "write"
  /\ LET i == saver[s].inode IN
     \E c \in {saver[s].image, Garbage} :
       /\ c = Garbage => disk[i] \notin {Garbage, saver[s].image}
       /\ disk' = [disk EXCEPT ![i] = c]
  /\ saver' = [saver EXCEPT ![s].pc = "rename"]
  /\ UNCHANGED <<vars, pathEntry, tmpEntry, saves, restarts, originVars>>

WriteFails(s) ==
  /\ saver[s].pc = "write"
  /\ disk' = [disk EXCEPT ![saver[s].inode] = Garbage]
  /\ saver' = [saver EXCEPT ![s] = Idle]
  /\ UNCHANGED <<vars, pathEntry, tmpEntry, saves, restarts, originVars>>

(* The disk without the file i: what it held can no longer be read. *)
Without(i) == [j \in Inodes |-> IF j = i THEN Garbage ELSE disk[j]]

Rename(s) ==
  /\ saver[s].pc = "rename" /\ tmpEntry # 0
  /\ pathEntry' = tmpEntry
  /\ tmpEntry' = 0
  /\ disk' = Without(pathEntry)
  /\ saver' = [saver EXCEPT ![s] = Idle]
  /\ UNCHANGED <<vars, saves, restarts, originVars>>

(* The rename fails when path.tmp is gone, or for the system's own reasons; *)
(* path.tmp is then removed.                                                *)
RenameFails(s) ==
  /\ saver[s].pc = "rename"
  /\ saver' = [saver EXCEPT ![s].pc = "remove"]
  /\ UNCHANGED <<vars, fileVars, saves, restarts, originVars>>

RemoveTmp(s) ==
  /\ saver[s].pc = "remove"
  /\ tmpEntry' = 0
  /\ disk' = Without(tmpEntry)
  /\ saver' = [saver EXCEPT ![s] = Idle]
  /\ UNCHANGED <<vars, pathEntry, saves, restarts, originVars>>

-----------------------------------------------------------------------------
(* loadInternal, in a new process *)

(* A device record decodeState refuses. *)
Rejected(d) ==
  \/ d.validationRepeated
  \/ Quarantined(d) /\ d.state = "HEALTHY"

Loadable(img) ==
  /\ img.count = Cardinality(DOMAIN img.devices)
  /\ \A id \in DOMAIN img.devices : ~Rejected(img.devices[id])

(* Variant: the restored evidence is taken to be as good as live. *)
RestoredAsLive(d, img, t) ==
  ReassessLocked([d EXCEPT !.quarantineIndexed = Quarantined(d)],
                 img.policy, img.policyGeneration, t)

(* Variant: the quarantine record is read but not put back. *)
RestoredForgettingQuarantine(d, img, t) ==
  ReassessLocked([d EXCEPT !.requiresRevalidation = TRUE, !.quarantine = "none",
                           !.quarantineIndexed = FALSE],
                 img.policy, img.policyGeneration, t)

(* Variant: a restored device is brought up from the start. *)
RestoredAfresh(d, img, t) ==
  [d EXCEPT !.state = "INITIALIZING", !.requiresRevalidation = TRUE,
            !.quarantineIndexed = Quarantined(d)]

(* What a restored device becomes: its evidence needs a live worker's refresh. *)
Restored(d, img, t) ==
  ReassessLocked([d EXCEPT !.requiresRevalidation = TRUE,
                           !.quarantineIndexed = Quarantined(d)],
                 img.policy, img.policyGeneration, t)

(* A device loaded before the one that made the decoder give up. *)
Kept(img) ==
  {id \in DOMAIN img.devices :
     LET upTo == {j \in DOMAIN img.devices : j <= id} IN
     /\ Cardinality(upTo) <= img.count
     /\ \A j \in upTo : ~Rejected(img.devices[j])}

(* decodeState replaces policy, epoch and devices before it has seen the whole *)
(* image: what it refuses half way stays half loaded, and is not reassessed.   *)
Load(img, t) ==
  /\ policy' = img.policy
  /\ policyGeneration' = img.policyGeneration
  /\ coordinatorEpoch' = img.epoch
  /\ loaded' = Loadable(img)
  /\ mixedStore' = img.mixed
  /\ devices' = IF Loadable(img)
                  THEN [id \in DOMAIN img.devices |-> Restored(img.devices[id], img, t)]
                  ELSE [id \in Kept(img) |-> img.devices[id]]
  /\ uuidIndex' = [id \in DOMAIN devices' |-> id]
  /\ nextDeviceRaw' = IF Loadable(img) /\ DOMAIN img.devices # {}
                        THEN Max(DOMAIN img.devices) + 1 ELSE 1

FreshStart(e) ==
  /\ devices' = <<>> /\ uuidIndex' = <<>> /\ nextDeviceRaw' = 1
  /\ policy' \in Policies /\ policyGeneration' = 1
  /\ coordinatorEpoch' = e
  /\ loaded' = FALSE
  /\ mixedStore' = FALSE

(* The process dies, whatever it was doing, and is started again with --epoch  *)
(* e and perhaps --load.  Its clock goes on, or starts anew with the machine.  *)
Restart(e, load) ==
  /\ restarts < MaxRestarts
  /\ restarts' = restarts + 1
  /\ \E t \in {1, now} :
       /\ now' = t
       /\ IF load /\ File # Garbage THEN Load(File, t) ELSE FreshStart(e)
  /\ workerBootRegistry' = [w \in Workers |-> NoBoot]
  /\ lastObservedGeneration' = [wb \in Workers \X Boots |-> 0]
  /\ pendingReassess' = 0
  /\ saver' = [s \in Savers |-> Idle]
  /\ UNCHANGED <<fileVars, saves>>

-----------------------------------------------------------------------------
(* A call of the store by another thread, during a save or between two. *)
StoreCall ==
  /\ OthersRun
  /\ Next
  /\ UNCHANGED <<saver, fileVars, saves, restarts, originVars>>

SaveStep(s) ==
  \/ EncodeHeader(s) \/ EncodeFront(s) \/ EncodeBack(s)
  \/ OpenTmp(s) \/ OpenFails(s) \/ WriteTmp(s) \/ WriteFails(s)
  \/ Rename(s) \/ RenameFails(s) \/ RemoveTmp(s)

PersistInit ==
  /\ Init
  /\ saver = [s \in Savers |-> Idle]
  /\ disk = [i \in Inodes |-> Garbage]
  /\ pathEntry = 0 /\ tmpEntry = 0
  /\ saves = 0 /\ restarts = 0
  /\ loaded = FALSE
  /\ mixedStore = FALSE

PersistNext ==
  \/ StoreCall
  \/ \E s \in Savers : SaveStep(s)
  \/ \E e \in Epochs, load \in LoadFlags : Restart(e, load)

PersistSpec == PersistInit /\ [][PersistNext]_allVars

-----------------------------------------------------------------------------
(* Replacement is atomic: wherever a save fails or the process dies, the file  *)
(* that a later load would read is a complete one.                             *)
FileAlwaysWhole == pathEntry # 0 => File # Garbage

(* A save that runs beside other calls may write a device down as it never     *)
(* was: half before a call, half after it.  Nothing in the file tells.  The    *)
(* statements below speak of the stores that do not descend from such a file;  *)
(* of the others the code promises none of them.                               *)

(* The recovery discipline of the store survives saving, death and loading.    *)
RecoverySurvives == ~mixedStore => RecoveryDiscipline

(* So does the quarantine: whatever is saved, lost and loaded, a quarantined   *)
(* device is in no state that could serve.                                     *)
QuarantineSurvives == ~mixedStore => QuarantineHolds

(* A load that succeeds brings back what was saved: the faults, the quarantine,*)
(* the recovery under way and the generation of every device, and no device in *)
(* a better state than it was saved in.                                        *)
LoadIsFaithful ==
  [][/\ restarts' = restarts + 1
     /\ loaded' /\ ~mixedStore'
     => /\ DOMAIN devices' = DOMAIN File.devices
        /\ \A id \in DOMAIN devices' :
             LET d == File.devices[id]  e == devices'[id] IN
             /\ e.faults = d.faults
             /\ e.generation = d.generation
             /\ Quarantined(e) = Quarantined(d)
             /\ e.inRecovery = d.inRecovery
             /\ d.state # "INITIALIZING" =>
                  e.state = d.state \/ Rank(e.state) > Rank(d.state)]_allVars

(* After a load, a HEALTHY device is not execution ready until a live worker   *)
(* has been heard, whatever validations, recoveries, faults and reassessments  *)
(* come first.                                                                 *)
RestoredNeedsRefresh ==
  /\ loaded /\ ~mixedStore
  /\ \A wb \in Workers \X Boots : lastObservedGeneration[wb] = 0
  => \A id \in DOMAIN devices :
       devices[id].state = "HEALTHY" => devices[id].readiness \notin ExecutionReady

-----------------------------------------------------------------------------
(* A statement of the documentation that the code does not keep *)

(* README, Persistence: after recovery, dynamic evidence is never treated as   *)
(* CURRENT until refreshed by a live worker.                                   *)
NothingReadyUntilRefreshed ==
  /\ loaded
  /\ \A wb \in Workers \X Boots : lastObservedGeneration[wb] = 0
  => \A id \in DOMAIN devices : devices[id].readiness \notin ExecutionReady
=============================================================================
