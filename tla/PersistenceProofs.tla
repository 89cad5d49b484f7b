------------------------- MODULE PersistenceProofs -------------------------
(***************************************************************************)
(* Proofs about Persistence for any store, any number of savers, inodes,   *)
(* saves and restarts, with the store called at any point of a save.       *)
(* Replacement is atomic as long as one thread saves at a time.  Whoever   *)
(* saves beside whom, as long as the calls leave each device alone between *)
(* its two halves, what an image says of a device was true of it, every    *)
(* store that is loaded has the invariants of one that grew by operations, *)
(* and what the load says of a device can be relied on.                    *)
(***************************************************************************)
EXTENDS Persistence, DeviceStepProofs, WellFoundedInduction

(* A set of numbers that is not empty has a least element. *)
LEMMA MinOfSet ==
  ASSUME NEW S, S \subseteq Nat, S # {} PROVE Min(S) \in S
<1>1. PICK x \in S : \A y \in S : ~(<<y, x>> \in OpToRel(<, Nat))
  BY NatLessThanWellFounded, WFMin
<1>2. \A y \in S : ~(y < x)
  BY <1>1 DEF OpToRel
<1>3. \A y \in S : x <= y
  BY <1>2
<1> QED
  BY <1>3 DEF Min

(* So has every finite set of numbers a greatest one. *)
LEMMA MaxOfSet ==
  ASSUME NEW S, S \subseteq Nat, S # {}, IsFiniteSet(S) PROVE Max(S) \in S
<1> DEFINE HasMax(T) == \E x \in T : \A y \in T : x >= y
           sizes == {n \in Nat : \E T \in SUBSET S :
                       T # {} /\ IsFiniteSet(T) /\ Cardinality(T) = n /\ ~HasMax(T)}
<1>1. sizes = {}
  <2> SUFFICES ASSUME sizes # {} PROVE FALSE
    OBVIOUS
  <2>1. PICK n \in sizes : \A m \in sizes : ~(<<m, n>> \in OpToRel(<, Nat))
    BY NatLessThanWellFounded, WFMin
  <2>2. \A m \in sizes : ~(m < n)
    BY <2>1 DEF OpToRel
  <2>3. PICK T \in SUBSET S : T # {} /\ IsFiniteSet(T) /\ Cardinality(T) = n /\ ~HasMax(T)
    OBVIOUS
  <2>4. PICK x \in T : TRUE
    BY <2>3
  <2>5. /\ IsFiniteSet(T \ {x}) /\ Cardinality(T \ {x}) = n - 1 /\ n \in Nat
    BY <2>3, <2>4, FS_RemoveElement
  <2>6. Cardinality(T \ {x}) \in Nat
    BY <2>5, FS_CardinalityType
  <2>7. T \ {x} = {} \/ HasMax(T \ {x})
    <3>1. n - 1 \notin sizes
      BY <2>2, <2>5
    <3> QED
      BY <2>5, <2>6, <3>1
  <2>8. CASE T \ {x} = {}
    BY <2>3, <2>4, <2>8
  <2>9. CASE HasMax(T \ {x})
    <3>1. PICK m \in T \ {x} : \A y \in T \ {x} : m >= y
      BY <2>9
    <3>2. \A y \in T : y \in Nat
      OBVIOUS
    <3>3. CASE x >= m
      BY <2>3, <2>4, <3>1, <3>2, <3>3
    <3>4. CASE ~(x >= m)
      BY <2>3, <2>4, <3>1, <3>2, <3>4
    <3> QED
      BY <3>3, <3>4
  <2> QED
    BY <2>7, <2>8, <2>9
<1>2. Cardinality(S) \in Nat
  BY FS_CardinalityType
<1>3. HasMax(S)
  BY <1>1, <1>2
<1> QED
  BY <1>3 DEF Max

-----------------------------------------------------------------------------
(* The file *)

IsImage(img) ==
  img = [policy |-> img.policy, policyGeneration |-> img.policyGeneration,
         epoch |-> img.epoch, count |-> img.count, devices |-> img.devices,
         mixed |-> img.mixed]

IsSaver(r) == r = [pc |-> r.pc, image |-> r.image, inode |-> r.inode]

(* What the proof asks of the system: one saver at a time, which the           *)
(* coordinator leaves to its clients (with two, FileAlwaysWhole fails: run     *)
(* two_savers), room for a second file, and a decoder that can tell a damaged  *)
(* file from a whole one.                                                      *)
OneSaver == Racing = {} \/ \A s1, s2 \in Savers : s1 = s2
RoomForTmp == \E i, j \in Inodes : i # j
GarbageIsNoImage == ~IsImage(Garbage)

(* Of one thread inside saveToFile: before path.tmp is open it owns no file,   *)
(* and from then on to the rename the file it owns is the one of that name.    *)
SaverOK(r, tmp, files) ==
  /\ IsSaver(r)
  /\ r.pc \in {"idle", "front", "back", "open", "write", "rename", "remove"}
  /\ r.pc # "idle" => IsImage(r.image)
  /\ r.pc \in {"idle", "front", "back", "open"} => r.inode = 0
  /\ r.pc \in {"write", "rename"} => r.inode = tmp /\ tmp # 0
  /\ r.pc = "write" => files[r.inode] = Garbage
  /\ r.pc = "rename" => files[r.inode] # Garbage

(* The inductive invariant: the names, the savers one at a time, and the file. *)
FileInv ==
  /\ saver = [s \in Savers |-> saver[s]]
  /\ disk = [i \in Inodes |-> disk[i]]
  /\ pathEntry \in Inodes \cup {0} /\ tmpEntry \in Inodes \cup {0}
  /\ pathEntry # 0 => pathEntry # tmpEntry /\ disk[pathEntry] # Garbage
  /\ \A s \in Savers : SaverOK(saver[s], tmpEntry, disk)
  /\ \A s1, s2 \in Savers : saver[s1].pc # "idle" /\ saver[s2].pc # "idle" => s1 = s2

(* What a step of one saver leaves to show, the others being idle. *)
LEMMA OneSaverStep ==
  ASSUME FileInv, NEW s \in Savers, NEW r,
         \A x \in Savers : x # s => saver[x].pc = "idle",
         saver' = [saver EXCEPT ![s] = r], SaverOK(r, tmpEntry', disk'),
         disk' = [i \in Inodes |-> disk'[i]],
         pathEntry' \in Inodes \cup {0} /\ tmpEntry' \in Inodes \cup {0},
         pathEntry' # 0 => pathEntry' # tmpEntry' /\ disk'[pathEntry'] # Garbage
  PROVE  FileInv'
<1>1. /\ saver' = [x \in Savers |-> saver'[x]] /\ saver'[s] = r
      /\ \A x \in Savers : x # s => saver'[x] = saver[x]
  BY DEF FileInv
<1>2. ASSUME NEW x \in Savers PROVE SaverOK(saver'[x], tmpEntry', disk')
  <2>1. CASE x = s
    BY <1>1, <2>1 DEF SaverOK, IsSaver, IsImage
  <2>2. CASE x # s
    BY <1>1, <2>2 DEF FileInv, SaverOK, IsSaver, IsImage
  <2> QED
    BY <2>1, <2>2
<1> QED
  BY <1>1, <1>2 DEF FileInv

(* An image stays one when a device is added to it. *)
LEMMA ImageEdited ==
  ASSUME NEW img, IsImage(img), NEW more, NEW m, NEW new,
         new = [img EXCEPT !.devices = more, !.mixed = m]
  PROVE  /\ IsImage(new) /\ new.devices = more /\ new.mixed = m
         /\ new.policy = img.policy /\ new.policyGeneration = img.policyGeneration
         /\ new.epoch = img.epoch
<1>1. new \in [policy: {img.policy}, policyGeneration: {img.policyGeneration},
               epoch: {img.epoch}, count: {img.count}, devices: {more}, mixed: {m}]
  <2>1. img \in [policy: {img.policy}, policyGeneration: {img.policyGeneration},
                 epoch: {img.epoch}, count: {img.count}, devices: {img.devices},
                 mixed: {img.mixed}]
    BY DEF IsImage
  <2> QED
    BY <2>1
<1> QED
  BY <1>1 DEF IsImage

(* What a saver holds when it has written the second half of a device. *)
LEMMA SaverEdited ==
  ASSUME saver = [x \in Savers |-> saver[x]], NEW s \in Savers, IsSaver(saver[s]),
         NEW more, NEW m, NEW next,
         saver' = [saver EXCEPT ![s].image.devices = more, ![s].image.mixed = m,
                                ![s].pc = next]
  PROVE  /\ saver'[s] = [pc |-> next, inode |-> saver[s].inode,
                         image |-> [saver[s].image EXCEPT !.devices = more, !.mixed = m]]
         /\ saver' = [saver EXCEPT ![s] = saver'[s]]
<1> DEFINE img == saver[s].image
           a == [saver[s] EXCEPT !.image.devices = more]
           b == [a EXCEPT !.image.mixed = m]
           c == [b EXCEPT !.pc = next]
           half == [img EXCEPT !.devices = more]
           new == [half EXCEPT !.mixed = m]
           n == saver[s].inode
<1>1. saver'[s] = c /\ saver' = [saver EXCEPT ![s] = c]
  OBVIOUS
<1>2. a = [pc |-> saver[s].pc, image |-> half, inode |-> n]
  BY DEF IsSaver
<1> HIDE DEF a, half, n
<1>3. b = [pc |-> saver[s].pc, image |-> new, inode |-> n]
  BY <1>2
<1>4. new = [img EXCEPT !.devices = more, !.mixed = m]
  BY DEF half
<1> HIDE DEF b, new
<1>5. c = [pc |-> next, image |-> new, inode |-> n]
  BY <1>3
<1> HIDE DEF c
<1> QED
  BY <1>1, <1>4, <1>5 DEF n

(* The three steps that encode the image, whatever happens to the store. *)
LEMMA EncodeKept ==
  ASSUME FileInv, OneSaver, NEW s \in Savers,
         EncodeHeader(s) \/ EncodeFront(s) \/ EncodeBack(s)
  PROVE  FileInv'
<1> DEFINE r == saver'[s]
<1>1. /\ UNCHANGED <<disk, pathEntry, tmpEntry>>
      /\ SaverOK(saver[s], tmpEntry, disk)
      /\ \A x \in Savers : x # s => saver[x].pc = "idle"
  BY DEF FileInv, OneSaver, OthersRun, EncodeHeader, EncodeFront, EncodeBack, fileVars
<1>2. /\ saver' = [saver EXCEPT ![s] = r]
      /\ IsSaver(r) /\ IsImage(r.image) /\ r.inode = 0
      /\ r.pc \in {"front", "back", "open"}
  <2>1. CASE EncodeHeader(s)
    <3> DEFINE img == [policy |-> policy, policyGeneration |-> policyGeneration,
                       epoch |-> coordinatorEpoch, count |-> Cardinality(DOMAIN devices),
                       devices |-> <<>>, mixed |-> mixedStore]
               next == AfterDevice(img)
    <3>1. saver[s].pc = "idle" /\ saver' = [saver EXCEPT ![s].image = img, ![s].pc = next]
      BY <2>1 DEF EncodeHeader
    <3>2. next \in {"open", "front"} /\ IsImage(img)
      BY DEF AfterDevice, IsImage
    <3> HIDE DEF img, next
    <3> QED
      BY <1>1, <3>1, <3>2 DEF FileInv, SaverOK, IsSaver
  <2>2. CASE EncodeFront(s)
    <3> DEFINE id == Min(Unwritten(saver[s].image))
               old == saver[s].image.devices
               more == [x \in DOMAIN old \cup {id} |->
                          IF x = id THEN Saved(devices[id]) ELSE old[x]]
    <3>1. saver[s].pc = "front"
          /\ saver' = [saver EXCEPT ![s].image.devices = more, ![s].pc = "back"]
      BY <2>2 DEF EncodeFront, FileInv
    <3> HIDE DEF more
    <3>2. IsImage(saver[s].image) /\ IsSaver(saver[s]) /\ saver[s].inode = 0
      BY <1>1, <3>1 DEF SaverOK
    <3>3. r = [[saver[s] EXCEPT !.image.devices = more] EXCEPT !.pc = "back"]
      BY <3>1 DEF FileInv
    <3>4. /\ r.image = [saver[s].image EXCEPT !.devices = more] /\ r.pc = "back"
          /\ r.inode = 0 /\ IsSaver(r)
      BY <3>2, <3>3 DEF IsSaver
    <3>5. IsImage([saver[s].image EXCEPT !.devices = more])
      BY <3>2 DEF IsImage
    <3> QED
      BY <3>1, <3>4, <3>5 DEF FileInv
  <2>3. CASE EncodeBack(s)
    <3> DEFINE old == saver[s].image.devices
               id == Max(DOMAIN old)
               entry == WithBack(old[id], devices[id])
               more == [old EXCEPT ![id] = entry]
               m == saver[s].image.mixed \/ Mixed(old[id], entry, Saved(devices[id]))
               next == AfterDevice(saver[s].image)
    <3>1. saver[s].pc = "back"
          /\ saver' = [saver EXCEPT ![s].image.devices = more, ![s].image.mixed = m,
                                    ![s].pc = next]
      BY <2>3 DEF EncodeBack, FileInv
    <3>2. IsImage(saver[s].image) /\ IsSaver(saver[s]) /\ saver[s].inode = 0
          /\ next \in {"open", "front"}
      BY <1>1, <3>1 DEF SaverOK, AfterDevice
    <3> HIDE DEF more, next, m
    <3>3. /\ r = [pc |-> next, inode |-> saver[s].inode,
                  image |-> [saver[s].image EXCEPT !.devices = more, !.mixed = m]]
          /\ saver' = [saver EXCEPT ![s] = r]
      BY <3>1, <3>2, SaverEdited DEF FileInv
    <3>4. IsImage([saver[s].image EXCEPT !.devices = more, !.mixed = m])
      <4> DEFINE new == [saver[s].image EXCEPT !.devices = more, !.mixed = m]
      <4>1. new = [saver[s].image EXCEPT !.devices = more, !.mixed = m]
        OBVIOUS
      <4> HIDE DEF new
      <4>2. IsImage(new)
        BY <3>2, <4>1, ImageEdited
      <4> QED
        BY <4>2 DEF new
    <3> QED
      BY <3>2, <3>3, <3>4 DEF IsSaver
  <2> QED
    BY <2>1, <2>2, <2>3
<1>3. SaverOK(r, tmpEntry', disk')
  BY <1>2 DEF SaverOK
<1> HIDE DEF r
<1> QED
  BY <1>1, <1>2, <1>3, OneSaverStep DEF FileInv

(* A saver that is at work is alone. *)
LEMMA AtWorkAlone ==
  ASSUME FileInv, NEW s \in Savers, saver[s].pc # "idle"
  PROVE  /\ SaverOK(saver[s], tmpEntry, disk)
         /\ \A x \in Savers : x # s => saver[x].pc = "idle"
         /\ \A x \in Savers : x # s => saver[x].inode = 0
BY DEF FileInv, SaverOK

(* path.tmp is never the file that path names. *)
LEMMA OpenTmpKept ==
  ASSUME FileInv, RoomForTmp, NEW s \in Savers, OpenTmp(s) PROVE FileInv'
<1> DEFINE free == {j \in Inodes : j # pathEntry /\ \A x \in Savers : saver[x].inode # j}
<1>1. /\ saver[s].pc = "open" /\ pathEntry' = pathEntry
      /\ IsSaver(saver[s]) /\ IsImage(saver[s].image) /\ saver[s].inode = 0
      /\ \A x \in Savers : x # s => saver[x].pc = "idle"
      /\ \A x \in Savers : saver[x].inode = 0
  <2>1. saver[s].pc = "open" /\ pathEntry' = pathEntry
    BY DEF OpenTmp
  <2> QED
    BY <2>1, AtWorkAlone DEF SaverOK
<1>2. PICK i \in Inodes :
        /\ IF tmpEntry # 0 THEN i = tmpEntry ELSE i = Min(free)
        /\ disk' = [disk EXCEPT ![i] = Garbage]
        /\ tmpEntry' = i
        /\ saver' = [saver EXCEPT ![s].pc = "write", ![s].inode = i]
  BY DEF OpenTmp
<1>3. i # 0 /\ (pathEntry # 0 => i # pathEntry)
  <2>1. CASE tmpEntry # 0
    BY <1>2, <2>1 DEF FileInv
  <2>2. CASE tmpEntry = 0
    <3>1. Inodes \subseteq Nat \ {0}
      BY PersistenceAssumption DEF PersistenceAssumption
    <3>2. free # {} /\ free \subseteq Nat
      BY <1>1, <3>1 DEF RoomForTmp
    <3>3. Min(free) \in free
      BY <3>2, MinOfSet
    <3> QED
      BY <1>2, <2>2, <3>1, <3>3
  <2> QED
    BY <2>1, <2>2
<1> DEFINE r == [saver[s] EXCEPT !.pc = "write", !.inode = i]
<1>4. saver' = [saver EXCEPT ![s] = r]
  BY <1>2 DEF FileInv
<1>8. r = [saver[s] EXCEPT !.pc = "write", !.inode = i]
  OBVIOUS
<1> HIDE DEF r
<1>5. IsSaver(r) /\ r.pc = "write" /\ r.inode = i /\ r.image = saver[s].image
  <2>1. saver[s] \in [pc: {"open"}, image: {saver[s].image}, inode: {0}]
    BY <1>1 DEF IsSaver
  <2>2. r \in [pc: {"write"}, image: {saver[s].image}, inode: {i}]
    BY <1>8, <2>1
  <2> QED
    BY <2>2 DEF IsSaver
<1>6. /\ disk' = [k \in Inodes |-> disk'[k]] /\ disk'[i] = Garbage
      /\ pathEntry' # 0 => pathEntry' # tmpEntry' /\ disk'[pathEntry'] # Garbage
  BY <1>1, <1>2, <1>3 DEF FileInv
<1>7. SaverOK(r, tmpEntry', disk')
  BY <1>1, <1>2, <1>3, <1>5, <1>6 DEF SaverOK
<1> QED
  BY <1>1, <1>2, <1>4, <1>6, <1>7, OneSaverStep DEF FileInv

(* What is written is the image, and only to path.tmp. *)
LEMMA WriteKept ==
  ASSUME FileInv, GarbageIsNoImage, NEW s \in Savers, WriteTmp(s) \/ WriteFails(s)
  PROVE  FileInv'
<1> DEFINE i == saver[s].inode
<1>1. /\ saver[s].pc = "write" /\ UNCHANGED <<pathEntry, tmpEntry>>
      /\ IsSaver(saver[s]) /\ IsImage(saver[s].image)
      /\ i = tmpEntry /\ i # 0 /\ i \in Inodes /\ disk[i] = Garbage
      /\ \A x \in Savers : x # s => saver[x].pc = "idle"
  <2>1. saver[s].pc = "write" /\ UNCHANGED <<pathEntry, tmpEntry>>
    BY DEF WriteTmp, WriteFails
  <2> QED
    BY <2>1, AtWorkAlone DEF SaverOK, FileInv
<1>2. CASE WriteTmp(s)
  <2> DEFINE r == [saver[s] EXCEPT !.pc = "rename"]
  <2>1. /\ disk' = [disk EXCEPT ![i] = saver[s].image]
        /\ saver' = [saver EXCEPT ![s] = r]
    BY <1>1, <1>2 DEF WriteTmp, FileInv
  <2>2. IsSaver(r) /\ r.pc = "rename" /\ r.inode = i /\ r.image = saver[s].image
    BY <1>1 DEF IsSaver
  <2>3. saver[s].image # Garbage
    BY <1>1 DEF GarbageIsNoImage
  <2> HIDE DEF r
  <2>4. /\ disk' = [k \in Inodes |-> disk'[k]] /\ disk'[i] # Garbage
        /\ pathEntry' # 0 => pathEntry' # tmpEntry' /\ disk'[pathEntry'] # Garbage
    BY <1>1, <2>1, <2>3 DEF FileInv
  <2>5. SaverOK(r, tmpEntry', disk')
    BY <1>1, <2>2, <2>4 DEF SaverOK
  <2> QED
    BY <1>1, <2>1, <2>4, <2>5, OneSaverStep DEF FileInv
<1>3. CASE WriteFails(s)
  <2>1. disk' = [disk EXCEPT ![i] = Garbage] /\ saver' = [saver EXCEPT ![s] = Idle]
    BY <1>3 DEF WriteFails
  <2>2. /\ disk' = [k \in Inodes |-> disk'[k]]
        /\ pathEntry' # 0 => pathEntry' # tmpEntry' /\ disk'[pathEntry'] # Garbage
    BY <1>1, <2>1 DEF FileInv
  <2>3. SaverOK(Idle, tmpEntry', disk')
    BY DEF SaverOK, Idle, IsSaver
  <2> QED
    BY <1>1, <2>1, <2>2, <2>3, OneSaverStep DEF FileInv
<1> QED
  BY <1>2, <1>3

(* What is renamed has been written. *)
LEMMA RenameKept ==
  ASSUME FileInv, NEW s \in Savers,
         OpenFails(s) \/ Rename(s) \/ RenameFails(s) \/ RemoveTmp(s)
  PROVE  FileInv'
<1>1. /\ SaverOK(saver[s], tmpEntry, disk)
      /\ \A x \in Savers : x # s => saver[x].pc = "idle"
      /\ disk' = [i \in Inodes |-> disk'[i]]
  <2>1. saver[s].pc # "idle"
    BY DEF OpenFails, Rename, RenameFails, RemoveTmp
  <2>2. disk' = disk \/ \E i : disk' = Without(i)
    BY DEF OpenFails, Rename, RenameFails, RemoveTmp, fileVars
  <2>3. disk' = [i \in Inodes |-> disk'[i]]
    BY <2>2 DEF FileInv, Without
  <2> QED
    BY <2>1, <2>3, AtWorkAlone
<1>2. SaverOK(Idle, tmpEntry', disk')
  BY DEF SaverOK, Idle, IsSaver
<1>3. CASE OpenFails(s)
  <2>1. saver' = [saver EXCEPT ![s] = Idle] /\ UNCHANGED <<disk, pathEntry, tmpEntry>>
    BY <1>3 DEF OpenFails, fileVars
  <2> QED
    BY <1>1, <1>2, <2>1, OneSaverStep DEF FileInv
<1>4. CASE Rename(s)
  <2>1. /\ saver[s].pc = "rename" /\ tmpEntry # 0 /\ pathEntry' = tmpEntry /\ tmpEntry' = 0
        /\ saver' = [saver EXCEPT ![s] = Idle] /\ disk' = Without(pathEntry)
    BY <1>4 DEF Rename
  <2>2. disk'[tmpEntry] # Garbage
    <3>1. disk[tmpEntry] # Garbage /\ tmpEntry \in Inodes
      BY <1>1, <2>1 DEF SaverOK, FileInv
    <3>2. tmpEntry # pathEntry
      BY <2>1 DEF FileInv
    <3> QED
      BY <2>1, <3>1, <3>2 DEF Without
  <2> QED
    BY <1>1, <1>2, <2>1, <2>2, OneSaverStep DEF FileInv
<1>5. CASE RenameFails(s)
  <2> DEFINE r == [saver[s] EXCEPT !.pc = "remove"]
  <2>1. /\ saver' = [saver EXCEPT ![s] = r] /\ UNCHANGED <<disk, pathEntry, tmpEntry>>
        /\ saver[s].pc = "rename"
    BY <1>5 DEF RenameFails, FileInv, fileVars
  <2>2. IsSaver(r) /\ r.pc = "remove" /\ r.inode = saver[s].inode /\ r.image = saver[s].image
    BY <1>1 DEF SaverOK, IsSaver
  <2> HIDE DEF r
  <2>3. SaverOK(r, tmpEntry', disk')
    BY <1>1, <2>1, <2>2 DEF SaverOK
  <2> QED
    BY <1>1, <2>1, <2>3, OneSaverStep DEF FileInv
<1>6. CASE RemoveTmp(s)
  <2>1. /\ saver' = [saver EXCEPT ![s] = Idle] /\ pathEntry' = pathEntry /\ tmpEntry' = 0
        /\ disk' = Without(tmpEntry)
    BY <1>6 DEF RemoveTmp
  <2>2. pathEntry # 0 => pathEntry # 0 /\ disk'[pathEntry] # Garbage
    BY <2>1 DEF FileInv, Without
  <2> QED
    BY <1>1, <1>2, <2>1, <2>2, OneSaverStep DEF FileInv
<1> QED
  BY <1>3, <1>4, <1>5, <1>6

(* A crash leaves the disk as it is, and nobody at work. *)
LEMMA RestartKept ==
  ASSUME FileInv, NEW e, NEW load, Restart(e, load) PROVE FileInv'
<1>1. saver' = [s \in Savers |-> Idle] /\ UNCHANGED <<disk, pathEntry, tmpEntry>>
  BY DEF Restart, fileVars
<1>2. SaverOK(Idle, tmpEntry', disk')
  BY DEF SaverOK, Idle, IsSaver
<1> QED
  BY <1>1, <1>2 DEF FileInv, Idle

(* Every step keeps the file whole. *)
LEMMA FileStep ==
  ASSUME FileInv, OneSaver, RoomForTmp, GarbageIsNoImage, [PersistNext]_allVars
  PROVE  FileInv'
<1>1. CASE StoreCall \/ UNCHANGED allVars
  <2>1. UNCHANGED <<saver, disk, pathEntry, tmpEntry>>
    BY <1>1 DEF StoreCall, allVars, fileVars
  <2> QED
    BY <2>1 DEF FileInv
<1> QED
  BY <1>1, EncodeKept, OpenTmpKept, WriteKept, RenameKept, RestartKept
  DEF PersistNext, SaveStep

(* Replacement is atomic: for any number of saves, failures at any step of     *)
(* them and crashes at any point, the file a later load would read is a        *)
(* complete one, as long as one thread saves at a time.                        *)
THEOREM FileSafe ==
  ASSUME OneSaver, RoomForTmp, GarbageIsNoImage
  PROVE  PersistSpec => []FileAlwaysWhole
<1>1. PersistInit => FileInv
  <2>1. SaverOK(Idle, tmpEntry, disk)
    BY DEF SaverOK, Idle, IsSaver
  <2> QED
    BY <2>1 DEF PersistInit, FileInv, Idle
<1>2. FileInv /\ [PersistNext]_allVars => FileInv'
  BY FileStep
<1>3. FileInv => FileAlwaysWhole
  BY DEF FileInv, FileAlwaysWhole, File
<1> QED
  BY <1>1, <1>2, <1>3, PTL DEF PersistSpec

-----------------------------------------------------------------------------
(* What is saved and loaded, whoever saves and calls the store meanwhile *)

(* A HEALTHY device that is ready rests on evidence heard since the latest     *)
(* load.                                                                       *)
Settled(d) ==
  d.readiness \in ExecutionReady /\ d.state = "HEALTHY" =>
    d.lastObservation # 0 /\ ~d.requiresRevalidation

Restorable(d) == Intact(d) /\ Settled(d)

GoodImage(img) ==
  /\ IsImage(img)
  /\ img.policy \in PolicyType /\ img.policyGeneration \in Nat /\ img.epoch \in Epochs
  /\ img.devices = [id \in DOMAIN img.devices |-> img.devices[id]]
  /\ DOMAIN img.devices \subseteq Uuids /\ IsFiniteSet(DOMAIN img.devices)
  /\ \A id \in DOMAIN img.devices : Restorable(img.devices[id])

(* Of an image with a device written down as it never was, nothing is known.   *)
SoundImage(img) == IsImage(img) /\ (~img.mixed => GoodImage(img))

(* What a saver holds: nothing of the store it has encoded is forgotten since. *)
OnItsWay(img) ==
  /\ SoundImage(img)
  /\ ~img.mixed => DOMAIN img.devices \subseteq DOMAIN devices /\ ~mixedStore

SaverTrue(r) ==
  /\ IsSaver(r)
  /\ r.pc # "idle" => OnItsWay(r.image)
  /\ r.pc = "front" /\ ~r.image.mixed => Unwritten(r.image) # {}

(* Until a worker has been heard, nothing that was loaded counts as fresh. *)
Unheard ==
  /\ loaded
  /\ \A wb \in Workers \X Boots : lastObservedGeneration[wb] = 0

LoadedWaits ==
  Unheard => \A id \in DOMAIN devices :
               devices[id].requiresRevalidation \/ devices[id].lastObservation = 0

StoreSettled ==
  /\ StoreInv /\ KnownIds /\ FinitelyMany
  /\ \A id \in DOMAIN devices : Settled(devices[id])

(* The inductive invariant: what is on the disk, what is on its way there, and *)
(* the store, if it does not come from a mixed file.  It asks nothing of the   *)
(* order of the savers and the calls, so the file may well be garbage.         *)
PersistInv ==
  /\ saver = [s \in Savers |-> saver[s]] /\ disk = [i \in Inodes |-> disk[i]]
  /\ pathEntry \in Inodes \cup {0} /\ tmpEntry \in Inodes \cup {0}
  /\ \A i \in Inodes : disk[i] = Garbage \/ SoundImage(disk[i])
  /\ \A s \in Savers : SaverTrue(saver[s])
  /\ ~mixedStore => StoreSettled /\ LoadedWaits
  /\ restarts \in Nat /\ now \in Nat

(* Every operation keeps ready devices settled, *)
LEMMA SettledStep ==
  ASSUME TypeOK, NEW d, Intact(d), Settled(d), NEW e, DeviceStep(d, e) PROVE Settled(e)
<1>1. CASE e = d
  BY <1>1
<1>2. CASE Flagged(d, e)
  BY <1>2 DEF Flagged, Frame, SameVerdict, Settled
<1>3. CASE Lost(d, e) \/ HeldWhenLost(d, e)
  BY <1>3 DEF Lost, HeldWhenLost, Settled
<1>4. ASSUME NEW x \in DeviceType, Edited(d, x), e = Assessed(x) PROVE Settled(e)
  <2>1. policyGeneration \in Nat /\ policy \in PolicyType /\ Editable(x)
    BY <1>4 DEF TypeOK, Edited
  <2>2. e.readiness \in ExecutionReady => Earned(e, policy)
    BY <1>4, <2>1, ReassessEarned DEF Assessed
  <2> QED
    BY <2>2 DEF Earned, NeedsRevalidation, Settled
<1> QED
  BY <1>1, <1>2, <1>3, <1>4 DEF DeviceStep

(* and the store with them. *)
LEMMA SettledStoreStep ==
  ASSUME StoreSettled, Next PROVE StoreSettled' /\ StoreStep
<1>1. StoreInv /\ TypeOK /\ StoreStep /\ 0 \notin Uuids
  BY NextStep, PersistenceAssumption DEF StoreSettled, StoreInv, PersistenceAssumption
<1>2. StoreInv' /\ KnownIds' /\ FinitelyMany'
  BY <1>1, StoreStepInv, KnownIdsStep, FiniteStep DEF StoreSettled
<1>3. ASSUME NEW id \in DOMAIN devices' PROVE Settled(devices'[id])
  <2>1. CASE New(id)
    BY <2>1 DEF New, NewDevice, Settled, ExecutionReady
  <2>2. CASE id \in DOMAIN devices /\ DeviceStep(devices[id], devices'[id])
    BY <1>1, <2>2, SettledStep DEF StoreSettled, StoreInv, DevicesIntact
  <2> QED
    BY <1>1, <2>1, <2>2 DEF StoreStep, DevicesStep
<1> QED
  BY <1>1, <1>2, <1>3 DEF StoreSettled

(* Evidence becomes fresh again only by a worker that is heard. *)
LEMMA WaitsStep ==
  ASSUME StoreSettled, LoadedWaits, Next, loaded' = loaded PROVE LoadedWaits'
<1>1. StoreInv /\ TypeOK /\ StoreStep
  BY SettledStoreStep DEF StoreSettled, StoreInv
<1>2. lastObservedGeneration \in [Workers \X Boots -> Nat]
      /\ lastObservedGeneration' \in [Workers \X Boots -> Nat]
      /\ \A wb \in Workers \X Boots : lastObservedGeneration'[wb] >= lastObservedGeneration[wb]
  BY <1>1 DEF TypeOK, StoreStep, RestStep, RestTyped
<1> SUFFICES ASSUME Unheard', NEW id \in DOMAIN devices'
             PROVE  devices'[id].requiresRevalidation \/ devices'[id].lastObservation = 0
  BY DEF LoadedWaits
<1>3. Unheard
  BY <1>2 DEF Unheard
<1>4. CASE New(id)
  BY <1>4 DEF New, NewDevice
<1>5. CASE id \in DOMAIN devices /\ DeviceStep(devices[id], devices'[id])
  <2>1. devices[id].requiresRevalidation \/ devices[id].lastObservation = 0
    BY <1>3, <1>5 DEF LoadedWaits
  <2>2. SameEvidence(devices[id], devices'[id]) \/ Heard(devices[id], devices'[id])
    BY <1>1, <1>5, StepRecords DEF StoreInv, DevicesIntact
  <2>3. ~Heard(devices[id], devices'[id])
    BY <1>2 DEF Heard, Unheard
  <2> QED
    BY <2>1, <2>2, <2>3 DEF SameEvidence
<1> QED
  BY <1>1, <1>4, <1>5 DEF StoreStep, DevicesStep

(* What the file keeps of a device is as sound as the device, *)
LEMMA SavedFacts ==
  ASSUME NEW d, Restorable(d)
  PROVE  Restorable(Saved(d)) /\ WithBack(Saved(d), d) = Saved(d)
<1> DEFINE x == [d EXCEPT !.trail = <<>>, !.requiresRevalidation = FALSE,
                          !.stateIndexed = "UNKNOWN", !.staleIndexed = FALSE,
                          !.quarantineIndexed = FALSE]
<1>1. d \in DeviceType /\ Sound(d) /\ Settled(d)
  BY DEF Restorable, Intact
<1>6. x \in DeviceType
  <2>1. "UNKNOWN" \in HealthStates /\ <<>> \in Seq(HealthStates)
    BY DEF HealthStates
  <2> QED
    BY <1>1, <2>1 DEF DeviceType
<1>2. /\ x.state = d.state /\ x.readiness = d.readiness
      /\ x.quarantine = d.quarantine /\ x.faults = d.faults /\ x.inRecovery = d.inRecovery
      /\ x.lastObservation = d.lastObservation /\ x.requiresRevalidation = FALSE
      /\ x.assessedPolicyGeneration = d.assessedPolicyGeneration
      /\ x.highestValidation = d.highestValidation
      /\ x.successfulValidations = d.successfulValidations
      /\ x.deviceGenerationChanged = d.deviceGenerationChanged
      /\ x.policyGenerationChanged = d.policyGenerationChanged
  BY <1>1 DEF DeviceType
<1>3. Saved(d) = x
  BY DEF Saved
<1> HIDE DEF x
<1>4. Sound(x) /\ Settled(x)
  BY <1>1, <1>2 DEF Sound, Settled, Quarantined
<1>5. WithBack(x, d) = x
  BY <1>2, <1>6 DEF WithBack, DeviceType
<1> QED
  BY <1>6, <1>3, <1>4, <1>5 DEF Restorable, Intact

(* and so is what the decoder makes of it. *)
LEMMA RestoredFacts ==
  ASSUME NEW d, Restorable(d), NEW img, GoodImage(img), NEW t
  PROVE  LET e == Restored(d, img, t) IN
         /\ Restorable(e) /\ e.requiresRevalidation
         /\ e.faults = d.faults /\ e.generation = d.generation
         /\ Quarantined(e) = Quarantined(d) /\ e.inRecovery = d.inRecovery
         /\ d.state # "INITIALIZING" => e.state = d.state \/ Rank(e.state) > Rank(d.state)
<1> DEFINE listed == Quarantined(d)
           x == [d EXCEPT !.requiresRevalidation = TRUE, !.quarantineIndexed = listed]
           e == ReassessLocked(x, img.policy, img.policyGeneration, t)
<1>1. d \in DeviceType /\ Sound(d) /\ listed \in BOOLEAN
  BY DEF Restorable, Intact, Quarantined
<1>2. img.policy \in PolicyType /\ img.policyGeneration \in Nat
  BY DEF GoodImage
<1>3. Restored(d, img, t) = e
  BY DEF Restored
<1> HIDE DEF listed
<1>4. /\ x \in DeviceType /\ x.state = d.state
      /\ x.quarantine = d.quarantine /\ x.faults = d.faults /\ x.inRecovery = d.inRecovery
      /\ x.generation = d.generation /\ x.requiresRevalidation = TRUE
  BY <1>1 DEF DeviceType
<1> HIDE DEF x
<1>5. Editable(x)
  BY <1>1, <1>4 DEF Sound, Editable, Quarantined
<1>6. e \in DeviceType /\ Sound(e) /\ Frame(x, e)
  BY <1>2, <1>4, <1>5, ReassessFacts, ReassessSound
<1>7. e.readiness \in ExecutionReady => Earned(e, img.policy)
  BY <1>2, <1>4, <1>5, ReassessEarned
<1>8. /\ x.state = "LOST" => e.state = "LOST"
      /\ x.inRecovery /\ x.state # "LOST" =>
           e.state = IF x.state = "QUARANTINED" THEN "RECOVERING" ELSE x.state
      /\ ~x.inRecovery =>
           /\ \/ e.state = x.state
              \/ /\ CanTransition(x.state, e.state)
                 /\ e.state \in {"HEALTHY", "DEGRADED", "UNHEALTHY", "FAILED", "QUARANTINED"}
           /\ e.state = "HEALTHY" /\ x.state # "HEALTHY" => x.state = "INITIALIZING"
  BY <1>2, <1>4, <1>5, ReassessMoves
<1> HIDE DEF e
<1>9. Settled(e)
  BY <1>7 DEF Earned, NeedsRevalidation, Settled
<1>10. /\ e.requiresRevalidation = TRUE /\ e.faults = d.faults /\ e.generation = d.generation
       /\ e.inRecovery = d.inRecovery /\ Quarantined(e) = Quarantined(d)
  BY <1>4, <1>6 DEF Frame, Quarantined
<1>11. d.state # "INITIALIZING" => e.state = d.state \/ Rank(e.state) > Rank(d.state)
  <2>1. CASE d.inRecovery \/ d.state = "LOST"
    BY <1>1, <1>4, <1>8, <2>1 DEF Sound
  <2>2. CASE ~d.inRecovery /\ d.state # "LOST"
    <3>1. d.state \in {"INITIALIZING", "HEALTHY", "DEGRADED", "UNHEALTHY", "FAILED", "QUARANTINED"}
      BY <1>1, <2>2 DEF Sound, StoreStates, HealthStates
    <3>2. \/ e.state = d.state
          \/ /\ CanTransition(d.state, e.state)
             /\ e.state \in {"HEALTHY", "DEGRADED", "UNHEALTHY", "FAILED", "QUARANTINED"}
      BY <1>4, <1>8, <2>2
    <3> QED
      BY <3>1, <3>2 DEF Rank, CanTransition, LegalFrom
  <2> QED
    BY <2>1, <2>2
<1> QED
  BY <1>3, <1>6, <1>9, <1>10, <1>11 DEF Restorable, Intact

(* The second half of a device, if it is not mixed, makes it what it was before *)
(* or after the calls in between.                                              *)
LEMMA BackRestorable ==
  ASSUME NEW front, Restorable(front), NEW d, Restorable(d),
         ~Mixed(front, WithBack(front, d), Saved(d))
  PROVE  Restorable(WithBack(front, d))
<1>1. Restorable(Saved(d)) /\ WithBack(Saved(d), d) = Saved(d)
  BY SavedFacts
<1> QED
  BY <1>1 DEF Mixed

(* Encoding the header. *)
LEMMA HeaderTrue ==
  ASSUME PersistInv, NEW s \in Savers, EncodeHeader(s) PROVE SaverTrue(saver'[s])
<1> DEFINE img == [policy |-> policy, policyGeneration |-> policyGeneration,
                   epoch |-> coordinatorEpoch, count |-> Cardinality(DOMAIN devices),
                   devices |-> <<>>, mixed |-> mixedStore]
<1>1. saver' = [saver EXCEPT ![s].image = img, ![s].pc = AfterDevice(img)]
  BY DEF EncodeHeader
<1>2. DOMAIN img.devices = {} /\ IsFiniteSet(DOMAIN img.devices)
  BY FS_EmptySet
<1>3. ~mixedStore => TypeOK
  BY DEF PersistInv, StoreSettled, StoreInv
<1>4. <<>> = [x \in DOMAIN <<>> |-> <<>>[x]]
  OBVIOUS
<1>5. /\ IsImage(img) /\ img.mixed = mixedStore /\ img.devices = <<>>
      /\ ~mixedStore => GoodImage(img)
  BY <1>2, <1>3, <1>4 DEF TypeOK, GoodImage, IsImage
<1> HIDE DEF img
<1>6. OnItsWay(img)
  BY <1>2, <1>5 DEF OnItsWay, SoundImage
<1>7. saver'[s].pc = AfterDevice(img) /\ saver'[s].image = img /\ IsSaver(saver'[s])
  <2>1. saver'[s] = [[saver[s] EXCEPT !.image = img] EXCEPT !.pc = AfterDevice(img)]
    BY <1>1 DEF PersistInv
  <2>2. IsSaver(saver[s])
    BY DEF PersistInv, SaverTrue
  <2> QED
    BY <2>1, <2>2 DEF IsSaver
<1> QED
  BY <1>6, <1>7 DEF SaverTrue, IsSaver, AfterDevice

(* Encoding the first half of a device. *)
LEMMA FrontTrue ==
  ASSUME PersistInv, NEW s \in Savers, EncodeFront(s) PROVE SaverTrue(saver'[s])
<1> DEFINE img == saver[s].image
           old == img.devices
           id == Min(Unwritten(img))
           more == [x \in DOMAIN old \cup {id} |->
                      IF x = id THEN Saved(devices[id]) ELSE old[x]]
           new == [img EXCEPT !.devices = more]
<1>1. /\ saver[s].pc = "front"
      /\ saver' = [saver EXCEPT ![s].image.devices = more, ![s].pc = "back"]
  BY DEF EncodeFront, PersistInv
<1>2. IsSaver(saver[s]) /\ OnItsWay(img) /\ IsImage(img)
  BY <1>1 DEF PersistInv, SaverTrue, OnItsWay, SoundImage
<1>3. ASSUME ~img.mixed
      PROVE  /\ GoodImage(img) /\ ~mixedStore /\ id \in DOMAIN devices
             /\ \A x \in DOMAIN devices : Restorable(devices[x]) /\ x \in Uuids
             /\ DOMAIN old \subseteq DOMAIN devices
  <2>1. /\ GoodImage(img) /\ ~mixedStore /\ DOMAIN old \subseteq DOMAIN devices
        /\ Unwritten(img) # {} /\ Unwritten(img) \subseteq DOMAIN devices
    BY <1>1, <1>2, <1>3 DEF PersistInv, SaverTrue, OnItsWay, SoundImage, Unwritten
  <2>2. StoreInv /\ TypeOK /\ StoreSettled
    BY <2>1 DEF PersistInv, StoreSettled, StoreInv
  <2>3. \A x \in DOMAIN devices : Restorable(devices[x]) /\ x \in Uuids
    <3>1. DOMAIN devices \subseteq Uuids
      BY <2>2 DEF StoreSettled, KnownIds, TypeOK
    <3>2. \A x \in DOMAIN devices : Restorable(devices[x])
      BY <2>2 DEF StoreSettled, StoreInv, DevicesIntact, Restorable
    <3> QED
      BY <3>1, <3>2
  <2>4. DOMAIN devices \subseteq Nat
    BY <2>2, <2>3, ConstantsAssumption DEF ConstantsAssumption
  <2> QED
    BY <2>1, <2>3, <2>4, MinOfSet
<1> HIDE DEF id
<1>4. ASSUME ~img.mixed
      PROVE  /\ DOMAIN more = DOMAIN old \cup {id} /\ IsFiniteSet(DOMAIN more)
             /\ more = [x \in DOMAIN more |-> more[x]]
             /\ DOMAIN more \subseteq DOMAIN devices
             /\ \A x \in DOMAIN more : Restorable(more[x]) /\ x \in Uuids
  <2>1. IsFiniteSet(DOMAIN old \cup {id})
    BY <1>3, <1>4, FS_AddElement DEF GoodImage
  <2>2. Restorable(Saved(devices[id]))
    BY <1>3, <1>4, SavedFacts
  <2> QED
    BY <1>3, <1>4, <2>1, <2>2 DEF GoodImage
<1> HIDE DEF more
<1>5. /\ new.devices = more /\ new.policy = img.policy /\ new.epoch = img.epoch
      /\ new.policyGeneration = img.policyGeneration /\ IsImage(new)
      /\ new.mixed = img.mixed
  BY <1>2 DEF IsImage
<1>6. saver'[s].image = new /\ saver'[s].pc = "back" /\ IsSaver(saver'[s])
  <2>1. saver'[s] = [[saver[s] EXCEPT !.image.devices = more] EXCEPT !.pc = "back"]
    BY <1>1 DEF PersistInv
  <2> QED
    BY <1>2, <2>1 DEF IsSaver
<1> HIDE DEF new
<1>7. ASSUME ~new.mixed
      PROVE  /\ GoodImage(new) /\ ~mixedStore
             /\ DOMAIN new.devices \subseteq DOMAIN devices
  <2>1. ~img.mixed
    BY <1>5, <1>7
  <2> QED
    BY <1>3, <1>4, <1>5, <2>1 DEF GoodImage
<1> QED
  BY <1>5, <1>6, <1>7 DEF SaverTrue, OnItsWay, SoundImage

(* Encoding the second half, which shows if a call came in between. *)
LEMMA BackTrue ==
  ASSUME PersistInv, NEW s \in Savers, EncodeBack(s)
  PROVE  SaverTrue(saver'[s]) /\ saver' = [saver EXCEPT ![s] = saver'[s]]
<1> DEFINE img == saver[s].image
           old == img.devices
           id == Max(DOMAIN old)
           d == devices[id]
           entry == WithBack(old[id], d)
           more == [old EXCEPT ![id] = entry]
           mixing == Mixed(old[id], entry, Saved(d))
           m == img.mixed \/ mixing
           next == AfterDevice(img)
           new == [img EXCEPT !.devices = more, !.mixed = m]
<1>1. /\ saver[s].pc = "back"
      /\ saver' = [saver EXCEPT ![s].image.devices = more, ![s].image.mixed = m,
                                ![s].pc = next]
  BY DEF EncodeBack, PersistInv
<1>2. IsSaver(saver[s]) /\ OnItsWay(img) /\ IsImage(img)
  BY <1>1 DEF PersistInv, SaverTrue, OnItsWay, SoundImage
<1>3. ASSUME ~img.mixed, ~mixing
      PROVE  /\ GoodImage(img) /\ ~mixedStore /\ DOMAIN old \subseteq DOMAIN devices
             /\ DOMAIN more = DOMAIN old /\ more = [x \in DOMAIN more |-> more[x]]
             /\ \A x \in DOMAIN more : Restorable(more[x])
  <2>1. GoodImage(img) /\ ~mixedStore /\ DOMAIN old \subseteq DOMAIN devices
    BY <1>2, <1>3 DEF OnItsWay, SoundImage
  <2>2. \A x \in DOMAIN old : Restorable(old[x]) /\ Restorable(devices[x])
    BY <2>1 DEF PersistInv, StoreSettled, StoreInv, DevicesIntact, Restorable, GoodImage
  <2>3. id \in DOMAIN old => Restorable(entry)
    BY <1>3, <2>2, BackRestorable
  <2> HIDE DEF entry, id
  <2>4. old = [x \in DOMAIN old |-> old[x]]
    BY <2>1 DEF GoodImage
  <2> QED
    BY <2>1, <2>2, <2>3, <2>4
<1> HIDE DEF more, next, mixing, m
<1>4. /\ saver'[s] = [pc |-> next, inode |-> saver[s].inode, image |-> new]
      /\ saver' = [saver EXCEPT ![s] = saver'[s]]
  <2>1. saver = [x \in Savers |-> saver[x]]
    BY DEF PersistInv
  <2> QED
    BY <1>1, <1>2, <2>1, SaverEdited
<1>5. /\ IsImage(new) /\ new.devices = more /\ new.mixed = m
      /\ new.policy = img.policy /\ new.policyGeneration = img.policyGeneration
      /\ new.epoch = img.epoch
  <2> HIDE DEF img
  <2>1. img \in [policy: {img.policy}, policyGeneration: {img.policyGeneration},
                 epoch: {img.epoch}, count: {img.count}, devices: {img.devices},
                 mixed: {img.mixed}]
    BY <1>2 DEF IsImage
  <2>2. new \in [policy: {img.policy}, policyGeneration: {img.policyGeneration},
                 epoch: {img.epoch}, count: {img.count}, devices: {more}, mixed: {m}]
    BY <2>1
  <2> HIDE DEF new
  <2> QED
    BY <2>2 DEF IsImage
<1> HIDE DEF new
<1>6. ASSUME ~new.mixed
      PROVE  /\ GoodImage(new) /\ ~mixedStore
             /\ DOMAIN new.devices \subseteq DOMAIN devices
             /\ ~img.mixed /\ DOMAIN new.devices = DOMAIN old
  <2>1. ~img.mixed /\ ~mixing
    BY <1>5, <1>6 DEF m
  <2> QED
    BY <1>3, <1>5, <2>1 DEF GoodImage
<1>7. next = "front" /\ ~new.mixed => Unwritten(new) # {}
  BY <1>6 DEF next, AfterDevice, Unwritten
<1>8. next \in {"front", "open"}
  BY DEF next, AfterDevice
<1> QED
  BY <1>4, <1>5, <1>6, <1>7 DEF SaverTrue, IsSaver, OnItsWay, SoundImage

-----------------------------------------------------------------------------
(* Starting the process again *)

(* A file that is refused half way brings back some of its devices as they     *)
(* were saved, one that is accepted all of them, reassessed.                   *)
LEMMA LoadSettled ==
  ASSUME NEW img, GoodImage(img), NEW t \in {1, now}, now \in Nat, now' = t,
         Load(img, t),
         workerBootRegistry' = [w \in Workers |-> NoBoot],
         lastObservedGeneration' = [wb \in Workers \X Boots |-> 0],
         pendingReassess' = 0
  PROVE  /\ StoreSettled' /\ LoadedWaits'
         /\ loaded' => /\ DOMAIN devices' = DOMAIN img.devices
                       /\ \A id \in DOMAIN devices' :
                            devices'[id] = Restored(img.devices[id], img, t)
<1>1. /\ policy' = img.policy /\ policyGeneration' = img.policyGeneration
      /\ coordinatorEpoch' = img.epoch /\ loaded' = Loadable(img)
      /\ uuidIndex' = [id \in DOMAIN devices' |-> id]
      /\ policy' \in PolicyType /\ policyGeneration' \in Nat /\ coordinatorEpoch' \in Epochs
  BY DEF Load, GoodImage
<1>2. /\ DOMAIN devices' \subseteq DOMAIN img.devices
      /\ \A id \in DOMAIN devices' :
           \/ Loadable(img) /\ devices'[id] = Restored(img.devices[id], img, t)
           \/ ~Loadable(img) /\ devices'[id] = img.devices[id]
      /\ Loadable(img) => DOMAIN devices' = DOMAIN img.devices
  <2>1. CASE Loadable(img)
    <3>1. devices' = [id \in DOMAIN img.devices |-> Restored(img.devices[id], img, t)]
      BY <2>1 DEF Load
    <3> QED
      BY <2>1, <3>1
  <2>2. CASE ~Loadable(img)
    <3>1. devices' = [id \in Kept(img) |-> img.devices[id]]
      BY <2>2 DEF Load
    <3>2. Kept(img) \subseteq DOMAIN img.devices
      BY DEF Kept
    <3> QED
      BY <2>2, <3>1, <3>2
  <2> QED
    BY <2>1, <2>2
<1>3. ASSUME NEW id \in DOMAIN devices'
      PROVE  /\ id \in Uuids /\ Restorable(devices'[id])
             /\ Loadable(img) => devices'[id].requiresRevalidation
  <2>1. id \in Uuids /\ Restorable(img.devices[id])
    BY <1>2, <1>3 DEF GoodImage
  <2>2. CASE Loadable(img)
    BY <1>2, <1>3, <2>1, <2>2, RestoredFacts
  <2>3. CASE ~Loadable(img)
    BY <1>2, <1>3, <2>1, <2>3
  <2> QED
    BY <2>1, <2>2, <2>3
<1>4. nextDeviceRaw' \in Nat
  <2>1. Uuids \subseteq Nat
    BY ConstantsAssumption DEF ConstantsAssumption
  <2>2. CASE Loadable(img) /\ DOMAIN img.devices # {}
    <3>1. Max(DOMAIN img.devices) \in DOMAIN img.devices
      BY <2>1, <2>2, MaxOfSet DEF GoodImage
    <3>2. nextDeviceRaw' = Max(DOMAIN img.devices) + 1
      BY <2>2 DEF Load
    <3>3. DOMAIN img.devices \subseteq Nat
      BY <2>1 DEF GoodImage
    <3>4. Max(DOMAIN img.devices) \in Nat
      BY <3>1, <3>3, Zenon
    <3> QED
      BY <3>2, <3>4
  <2>3. CASE ~(Loadable(img) /\ DOMAIN img.devices # {})
    BY <2>3 DEF Load
  <2> QED
    BY <2>2, <2>3
<1>5. TypeOK'
  <2>1. Uuids \subseteq Nat /\ NoBoot \in Boots \cup {NoBoot}
    BY ConstantsAssumption DEF ConstantsAssumption
  <2>2. \A id \in DOMAIN devices' : devices'[id] \in DeviceType
    BY <1>3 DEF Restorable, Intact
  <2>3. now' \in Nat
    OBVIOUS
  <2> QED
    BY <1>1, <1>3, <1>4, <2>1, <2>2, <2>3 DEF TypeOK
<1>6. IsFiniteSet(DOMAIN devices')
  BY <1>2, FS_Subset DEF GoodImage
<1>7. StoreSettled'
  BY <1>1, <1>3, <1>5, <1>6
  DEF StoreSettled, StoreInv, DevicesIntact, Restorable, KnownIds, FinitelyMany
<1>8. LoadedWaits'
  <2>1. loaded' => Loadable(img)
    BY <1>1
  <2>2. loaded' => \A id \in DOMAIN devices' : devices'[id].requiresRevalidation
    BY <1>3, <2>1, Zenon
  <2> QED
    BY <2>2 DEF LoadedWaits, Unheard
<1> QED
  BY <1>1, <1>2, <1>7, <1>8

(* Without a file the store starts empty, as at the first start. *)
LEMMA FreshSettled ==
  ASSUME NEW e \in Epochs, FreshStart(e), now' \in Nat,
         workerBootRegistry' = [w \in Workers |-> NoBoot],
         lastObservedGeneration' = [wb \in Workers \X Boots |-> 0],
         pendingReassess' = 0
  PROVE  StoreSettled' /\ LoadedWaits' /\ ~loaded'
<1>1. DOMAIN devices' = {} /\ DOMAIN uuidIndex' = {} /\ IsFiniteSet({})
  BY FS_EmptySet DEF FreshStart
<1>2. policy' \in PolicyType
  BY ConstantsAssumption DEF ConstantsAssumption, FreshStart
<1>3. TypeOK'
  BY <1>1, <1>2 DEF FreshStart, TypeOK
<1> QED
  BY <1>1, <1>3 DEF StoreSettled, StoreInv, DevicesIntact, KnownIds, FinitelyMany,
                    LoadedWaits, Unheard, FreshStart

(* The process starts from a file, the store of which is settled if the file is *)
(* not a mixed one, or from nothing.                                           *)
LEMMA RestartSettled ==
  ASSUME PersistInv, NEW e \in Epochs, NEW load, Restart(e, load)
  PROVE  /\ ~mixedStore' => StoreSettled' /\ LoadedWaits'
         /\ restarts' = restarts + 1 /\ now' \in Nat
         /\ loaded' /\ ~mixedStore' =>
              /\ GoodImage(File)
              /\ DOMAIN devices' = DOMAIN File.devices
              /\ \E t \in {1, now} : \A id \in DOMAIN devices' :
                   devices'[id] = Restored(File.devices[id], File, t)
<1>1. PICK t \in {1, now} :
        /\ now' = t
        /\ IF load /\ File # Garbage THEN Load(File, t) ELSE FreshStart(e)
  BY DEF Restart
<1>2. /\ workerBootRegistry' = [w \in Workers |-> NoBoot]
      /\ lastObservedGeneration' = [wb \in Workers \X Boots |-> 0]
      /\ pendingReassess' = 0 /\ restarts' = restarts + 1
  BY DEF Restart
<1>3. now \in Nat /\ now' \in Nat
  BY <1>1 DEF PersistInv
<1>4. CASE load /\ File # Garbage
  <2>1. Load(File, t) /\ mixedStore' = File.mixed
    BY <1>1, <1>4 DEF Load
  <2>2. SoundImage(File)
    BY <1>4 DEF PersistInv, File
  <2>3. CASE File.mixed
    BY <1>2, <1>3, <2>1, <2>3
  <2>4. CASE ~File.mixed
    <3> DEFINE img == File
    <3>1. GoodImage(img) /\ Load(img, t)
      BY <2>1, <2>2, <2>4 DEF SoundImage
    <3> HIDE DEF img
    <3>2. /\ StoreSettled' /\ LoadedWaits'
          /\ loaded' => /\ DOMAIN devices' = DOMAIN img.devices
                        /\ \A id \in DOMAIN devices' :
                             devices'[id] = Restored(img.devices[id], img, t)
      BY <1>1, <1>2, <1>3, <3>1, LoadSettled
    <3>3. /\ StoreSettled' /\ LoadedWaits' /\ GoodImage(File)
          /\ loaded' => /\ DOMAIN devices' = DOMAIN File.devices
                        /\ \A id \in DOMAIN devices' :
                             devices'[id] = Restored(File.devices[id], File, t)
      BY <3>1, <3>2 DEF img
    <3> QED
      BY <1>2, <1>3, <3>3
  <2> QED
    BY <2>3, <2>4
<1>5. CASE ~(load /\ File # Garbage)
  BY <1>1, <1>2, <1>3, <1>5, FreshSettled
<1> QED
  BY <1>4, <1>5

-----------------------------------------------------------------------------
(* The inductive invariant of saving and loading *)

(* Writing and renaming change no image, and put on the disk what was encoded. *)
LEMMA WriteTrue ==
  ASSUME PersistInv, NEW s \in Savers,
         OpenTmp(s) \/ OpenFails(s) \/ WriteTmp(s) \/ WriteFails(s)
           \/ Rename(s) \/ RenameFails(s) \/ RemoveTmp(s)
  PROVE  /\ \A i \in Inodes : disk'[i] = Garbage \/ SoundImage(disk'[i])
         /\ disk' = [i \in Inodes |-> disk'[i]]
         /\ pathEntry' \in Inodes \cup {0} /\ tmpEntry' \in Inodes \cup {0}
         /\ SaverTrue(saver'[s])
<1>1. /\ saver = [x \in Savers |-> saver[x]] /\ disk = [i \in Inodes |-> disk[i]]
      /\ SaverTrue(saver[s]) /\ IsSaver(saver[s])
      /\ \A i \in Inodes : disk[i] = Garbage \/ SoundImage(disk[i])
      /\ pathEntry \in Inodes \cup {0} /\ tmpEntry \in Inodes \cup {0}
  BY DEF PersistInv, SaverTrue
<1>2. SaverTrue(Idle)
  BY DEF SaverTrue, Idle, IsSaver
<1>3. ASSUME NEW r, IsSaver(r), r.image = saver[s].image, saver[s].pc # "idle",
             r.pc # "front"
      PROVE  SaverTrue(r)
  BY <1>1, <1>3 DEF SaverTrue
<1>4. CASE OpenTmp(s)
  <2>1. PICK i \in Inodes :
          /\ disk' = [disk EXCEPT ![i] = Garbage] /\ tmpEntry' = i /\ pathEntry' = pathEntry
          /\ saver' = [saver EXCEPT ![s].pc = "write", ![s].inode = i]
    BY <1>4 DEF OpenTmp
  <2> DEFINE r == [saver[s] EXCEPT !.pc = "write", !.inode = i]
  <2>2. saver'[s] = r /\ saver[s].pc = "open"
    BY <1>1, <1>4, <2>1 DEF OpenTmp
  <2>3. r.image = saver[s].image /\ r.pc = "write" /\ IsSaver(r)
    <3> DEFINE img == saver[s].image
    <3>1. saver[s] \in [pc: {saver[s].pc}, image: {img}, inode: {saver[s].inode}]
      BY <1>1 DEF IsSaver
    <3> HIDE DEF img
    <3>2. r \in [pc: {"write"}, image: {img}, inode: {i}]
      BY <3>1
    <3> HIDE DEF r
    <3>3. r.image = img /\ r.pc = "write" /\ IsSaver(r)
      BY <3>2 DEF IsSaver
    <3> QED
      BY <3>3 DEF img
  <2> HIDE DEF r
  <2> QED
    BY <1>1, <1>3, <2>1, <2>2, <2>3
<1>5. CASE OpenFails(s) \/ Rename(s) \/ RemoveTmp(s)
  <2>1. /\ saver' = [saver EXCEPT ![s] = Idle]
        /\ disk' = disk \/ \E i : disk' = Without(i)
        /\ pathEntry' \in {pathEntry, tmpEntry} /\ tmpEntry' \in {tmpEntry, 0}
    BY <1>5 DEF OpenFails, Rename, RemoveTmp, fileVars
  <2>2. /\ \A i \in Inodes : disk'[i] = Garbage \/ SoundImage(disk'[i])
        /\ disk' = [i \in Inodes |-> disk'[i]]
    BY <1>1, <2>1 DEF Without
  <2> QED
    BY <1>1, <1>2, <2>1, <2>2
<1>6. CASE RenameFails(s)
  <2>1. /\ saver' = [saver EXCEPT ![s].pc = "remove"] /\ saver[s].pc = "rename"
        /\ UNCHANGED <<disk, pathEntry, tmpEntry>>
    BY <1>6 DEF RenameFails, fileVars
  <2>2. /\ saver'[s].image = saver[s].image /\ saver'[s].pc = "remove"
        /\ IsSaver(saver'[s])
    BY <1>1, <2>1 DEF IsSaver
  <2> QED
    BY <1>1, <1>3, <2>1, <2>2
<1>7. CASE WriteTmp(s)
  <2>1. PICK c \in {saver[s].image, Garbage} : disk' = [disk EXCEPT ![saver[s].inode] = c]
    BY <1>7 DEF WriteTmp
  <2>2. /\ saver' = [saver EXCEPT ![s].pc = "rename"] /\ saver[s].pc = "write"
        /\ UNCHANGED <<pathEntry, tmpEntry>>
    BY <1>7 DEF WriteTmp
  <2>3. /\ saver'[s].image = saver[s].image /\ saver'[s].pc = "rename"
        /\ IsSaver(saver'[s])
    BY <1>1, <2>2 DEF IsSaver
  <2>4. c = Garbage \/ SoundImage(c)
    BY <1>1, <2>2 DEF SaverTrue, OnItsWay
  <2>5. /\ \A i \in Inodes : disk'[i] = Garbage \/ SoundImage(disk'[i])
        /\ disk' = [i \in Inodes |-> disk'[i]]
    BY <1>1, <2>1, <2>4
  <2> QED
    BY <1>1, <1>3, <2>2, <2>3, <2>5
<1>8. CASE WriteFails(s)
  <2>1. /\ saver' = [saver EXCEPT ![s] = Idle] /\ UNCHANGED <<pathEntry, tmpEntry>>
        /\ disk' = [disk EXCEPT ![saver[s].inode] = Garbage]
    BY <1>8 DEF WriteFails
  <2> QED
    BY <1>1, <1>2, <2>1
<1> QED
  BY <1>4, <1>5, <1>6, <1>7, <1>8

(* A step of a saver leaves the store alone and the images true. *)
LEMMA SaveStepTrue ==
  ASSUME PersistInv, NEW s \in Savers, SaveStep(s)
  PROVE  PersistInv' /\ restarts' = restarts
<1>1. UNCHANGED <<vars, restarts, loaded, mixedStore>>
  BY DEF SaveStep, EncodeHeader, EncodeFront, EncodeBack, OpenTmp, OpenFails,
         WriteTmp, WriteFails, Rename, RenameFails, RemoveTmp, originVars
<1>2. UNCHANGED <<devices, uuidIndex, nextDeviceRaw, workerBootRegistry,
                  lastObservedGeneration, policy, policyGeneration, pendingReassess,
                  coordinatorEpoch, now>>
  BY <1>1 DEF vars
<1>3. ~mixedStore' => StoreSettled' /\ LoadedWaits'
  BY <1>1, <1>2 DEF PersistInv, StoreSettled, StoreInv, TypeOK, DevicesIntact, KnownIds,
                    FinitelyMany, LoadedWaits, Unheard
<1>4. /\ saver' = [x \in Savers |-> saver'[x]]
      /\ \A x \in Savers : x # s => saver'[x] = saver[x]
  <2>1. \E r : saver' = [saver EXCEPT ![s] = r]
    <3>1. CASE EncodeHeader(s)
      BY <3>1 DEF EncodeHeader
    <3>2. CASE EncodeFront(s)
      BY <3>2 DEF EncodeFront
    <3>3. CASE EncodeBack(s)
      BY <3>3, BackTrue
    <3>4. CASE ~(EncodeHeader(s) \/ EncodeFront(s) \/ EncodeBack(s))
      BY <3>4 DEF SaveStep, OpenTmp, OpenFails, WriteTmp, WriteFails, Rename, RenameFails,
                  RemoveTmp
    <3> QED
      BY <3>1, <3>2, <3>3, <3>4
  <2> QED
    BY <2>1 DEF PersistInv
<1>5. /\ \A i \in Inodes : disk'[i] = Garbage \/ SoundImage(disk'[i])
      /\ disk' = [i \in Inodes |-> disk'[i]]
      /\ pathEntry' \in Inodes \cup {0} /\ tmpEntry' \in Inodes \cup {0}
      /\ SaverTrue(saver'[s])
  <2>1. CASE EncodeHeader(s) \/ EncodeFront(s) \/ EncodeBack(s)
    <3>1. UNCHANGED <<disk, pathEntry, tmpEntry>>
      BY <2>1 DEF EncodeHeader, EncodeFront, EncodeBack, fileVars
    <3> QED
      BY <2>1, <3>1, HeaderTrue, FrontTrue, BackTrue DEF PersistInv
  <2>2. CASE ~(EncodeHeader(s) \/ EncodeFront(s) \/ EncodeBack(s))
    <3>1. OpenTmp(s) \/ OpenFails(s) \/ WriteTmp(s) \/ WriteFails(s)
            \/ Rename(s) \/ RenameFails(s) \/ RemoveTmp(s)
      BY <2>2 DEF SaveStep
    <3> QED
      BY <3>1, WriteTrue
  <2> QED
    BY <2>1, <2>2
<1>6. ASSUME NEW x \in Savers PROVE SaverTrue(saver'[x])
  BY <1>4, <1>5 DEF PersistInv
<1>7. \A x \in Savers : SaverTrue(saver[x])'
  BY <1>1, <1>2, <1>6 DEF SaverTrue, OnItsWay, Unwritten
<1> QED
  BY <1>1, <1>2, <1>3, <1>4, <1>5, <1>7 DEF PersistInv

(* The clock of the store only ticks. *)
LEMMA ClockKept ==
  ASSUME now \in Nat, Next PROVE now' \in Nat
<1>1. now' = now \/ now' = now + 1
  BY DEF Next, DeviceNext, SetPolicy, FinishSetPolicy, SetCoordinatorEpoch, RegisterWorker,
         InvalidateWorker, RegisterDevice, MarkLost, AcceptObservation, RecordFault,
         RecordValidation, Revalidate, BeginQuarantine, ClearQuarantine, BeginRecovery,
         Reassess, ReassessAll, Tick
<1> QED
  BY <1>1

(* A call of the store, whoever saves meanwhile: nothing encoded is forgotten. *)
LEMMA StoreCallTrue ==
  ASSUME PersistInv, StoreCall PROVE PersistInv'
<1>1. /\ Next /\ UNCHANGED <<saver, disk, pathEntry, tmpEntry, restarts, loaded, mixedStore>>
      /\ now' \in Nat
  BY ClockKept DEF StoreCall, fileVars, originVars, PersistInv
<1>2. ~mixedStore => StoreSettled' /\ LoadedWaits' /\ DOMAIN devices \subseteq DOMAIN devices'
  BY <1>1, SettledStoreStep, WaitsStep DEF PersistInv, StoreStep, DevicesStep
<1>3. ASSUME NEW s \in Savers PROVE SaverTrue(saver[s])'
  <2>1. SaverTrue(saver[s])
    BY DEF PersistInv
  <2>2. OnItsWay(saver[s].image) => OnItsWay(saver[s].image)'
    BY <1>1, <1>2 DEF OnItsWay
  <2>3. saver[s].pc = "front" /\ ~saver[s].image.mixed =>
          Unwritten(saver[s].image) \subseteq Unwritten(saver[s].image)'
    BY <1>1, <1>2, <2>1 DEF SaverTrue, OnItsWay, Unwritten
  <2> QED
    BY <1>1, <2>1, <2>2, <2>3 DEF SaverTrue
<1> QED
  BY <1>1, <1>2, <1>3 DEF PersistInv

(* The step that keeps the invariant. *)
LEMMA PersistStep ==
  ASSUME PersistInv, [PersistNext]_allVars PROVE PersistInv'
<1>1. CASE UNCHANGED allVars
  <2>1. UNCHANGED <<devices, uuidIndex, nextDeviceRaw, workerBootRegistry,
                    lastObservedGeneration, policy, policyGeneration, pendingReassess,
                    coordinatorEpoch, now, saver, disk, pathEntry, tmpEntry, restarts,
                    loaded, mixedStore>>
    BY <1>1 DEF allVars, vars, fileVars, originVars
  <2>2. ~mixedStore' => StoreSettled' /\ LoadedWaits'
    BY <2>1 DEF PersistInv, StoreSettled, StoreInv, TypeOK, DevicesIntact, KnownIds,
                FinitelyMany, LoadedWaits, Unheard
  <2>3. \A s \in Savers : SaverTrue(saver[s])'
    BY <2>1 DEF PersistInv, SaverTrue, OnItsWay, Unwritten
  <2> QED
    BY <2>1, <2>2, <2>3 DEF PersistInv
<1>2. ASSUME NEW e \in Epochs, NEW load \in LoadFlags, Restart(e, load) PROVE PersistInv'
  <2>1. /\ ~mixedStore' => StoreSettled' /\ LoadedWaits'
        /\ restarts' \in Nat /\ now' \in Nat
    BY <1>2, RestartSettled DEF PersistInv
  <2>2. /\ saver' = [s \in Savers |-> Idle]
        /\ UNCHANGED <<disk, pathEntry, tmpEntry>>
    BY <1>2 DEF Restart, fileVars
  <2>3. \A s \in Savers : SaverTrue(saver[s])'
    <3>1. Idle.pc = "idle" /\ IsSaver(Idle)
      BY DEF Idle, IsSaver
    <3> QED
      BY <2>2, <3>1 DEF SaverTrue
  <2> QED
    BY <2>1, <2>2, <2>3 DEF PersistInv
<1> QED
  BY <1>1, <1>2, StoreCallTrue, SaveStepTrue DEF PersistNext

(* It holds of the first process, which starts with no file. *)
LEMMA PersistInitial == PersistInit => PersistInv
<1> SUFFICES ASSUME PersistInit PROVE PersistInv
  OBVIOUS
<1>1. Init /\ Inv /\ DOMAIN devices = {} /\ now \in Nat
  BY InitInv DEF PersistInit, Init
<1>2. SaverTrue(Idle)
  BY DEF SaverTrue, Idle, IsSaver
<1>3. StoreSettled /\ LoadedWaits
  BY <1>1, FS_EmptySet DEF StoreSettled, Inv, KnownIds, FinitelyMany, LoadedWaits
<1> QED
  BY <1>1, <1>2, <1>3 DEF PersistInit, PersistInv

(* The invariant always holds. *)
LEMMA PersistAlways == PersistSpec => []PersistInv
<1>1. PersistInv /\ [PersistNext]_allVars => PersistInv'
  BY PersistStep
<1> QED
  BY <1>1, PersistInitial, PTL DEF PersistSpec

-----------------------------------------------------------------------------
(* After any number of saves, by any number of threads beside any calls, of    *)
(* crashes and of loads, a HEALTHY device that was loaded from a file that is  *)
(* not mixed is not execution ready until a live worker has been heard.        *)
THEOREM RefreshSafe == PersistSpec => []RestoredNeedsRefresh
<1>1. PersistInv => RestoredNeedsRefresh
  BY DEF PersistInv, StoreSettled, Settled, LoadedWaits, Unheard, RestoredNeedsRefresh
<1> QED
  BY <1>1, PersistAlways, PTL

(* The recovery discipline of the store survives the file: no process starts   *)
(* from a device whose recovery flag and state disagree, but from a mixed file.*)
THEOREM LoadedRecoverySafe == PersistSpec => []RecoverySurvives
<1>1. PersistInv => RecoverySurvives
  BY DEF PersistInv, StoreSettled, StoreInv, DevicesIntact, Intact, Sound, RecoveryDiscipline,
         RecoverySurvives
<1> QED
  BY <1>1, PersistAlways, PTL

(* So does the quarantine: whatever is saved, lost and loaded, a quarantined   *)
(* device is in no state that could serve, unless a mixed file was loaded.     *)
THEOREM LoadedQuarantineSafe == PersistSpec => []QuarantineSurvives
<1>1. PersistInv => QuarantineSurvives
  BY DEF PersistInv, StoreSettled, StoreInv, DevicesIntact, Intact, Sound, QuarantineHolds,
         QuarantineSurvives
<1> QED
  BY <1>1, PersistAlways, PTL

(* A load that succeeds, of a file that is not mixed, brings back the faults,  *)
(* the quarantine, the recovery and the generation of every device of the      *)
(* file, and improves none.                                                    *)
THEOREM LoadSafe == PersistSpec => LoadIsFaithful
<1> DEFINE P ==
      /\ restarts' = restarts + 1
      /\ loaded' /\ ~mixedStore'
      => /\ DOMAIN devices' = DOMAIN File.devices
         /\ \A id \in DOMAIN devices' :
              LET d == File.devices[id]  e == devices'[id] IN
              /\ e.faults = d.faults
              /\ e.generation = d.generation
              /\ Quarantined(e) = Quarantined(d)
              /\ e.inRecovery = d.inRecovery
              /\ d.state # "INITIALIZING" =>
                   e.state = d.state \/ Rank(e.state) > Rank(d.state)
<1>1. PersistInv /\ [PersistNext]_allVars => P
  <2> SUFFICES ASSUME PersistInv, [PersistNext]_allVars, restarts' = restarts + 1, loaded',
                      ~mixedStore'
               PROVE  P
    OBVIOUS
  <2>1. restarts' # restarts
    BY DEF PersistInv
  <2>2. ~StoreCall /\ ~UNCHANGED allVars /\ \A s \in Savers : ~SaveStep(s)
    <3>1. ~StoreCall /\ ~UNCHANGED allVars
      BY <2>1 DEF StoreCall, allVars
    <3>2. ASSUME NEW s \in Savers, SaveStep(s) PROVE FALSE
      BY <2>1, <3>2, SaveStepTrue
    <3> QED
      BY <3>1, <3>2
  <2>3. PICK e \in Epochs, load \in LoadFlags : Restart(e, load)
    BY <2>2 DEF PersistNext
  <2>4. /\ GoodImage(File) /\ DOMAIN devices' = DOMAIN File.devices
        /\ \E t \in {1, now} : \A id \in DOMAIN devices' :
             devices'[id] = Restored(File.devices[id], File, t)
    BY <2>3, RestartSettled
  <2>5. PICK t \in {1, now} : \A id \in DOMAIN devices' :
          devices'[id] = Restored(File.devices[id], File, t)
    BY <2>4
  <2>6. ASSUME NEW id \in DOMAIN devices'
        PROVE  LET d == File.devices[id]  x == devices'[id] IN
               /\ x.faults = d.faults /\ x.generation = d.generation
               /\ Quarantined(x) = Quarantined(d) /\ x.inRecovery = d.inRecovery
               /\ d.state # "INITIALIZING" => x.state = d.state \/ Rank(x.state) > Rank(d.state)
    <3> DEFINE d == File.devices[id]
               img == File
    <3>1. Restorable(d) /\ GoodImage(img) /\ devices'[id] = Restored(d, img, t)
      BY <2>4, <2>5, <2>6 DEF GoodImage
    <3> HIDE DEF d, img
    <3>2. LET x == devices'[id] IN
          /\ x.faults = d.faults /\ x.generation = d.generation
          /\ Quarantined(x) = Quarantined(d) /\ x.inRecovery = d.inRecovery
          /\ d.state # "INITIALIZING" => x.state = d.state \/ Rank(x.state) > Rank(d.state)
      BY <3>1, RestoredFacts
    <3> QED
      BY <3>2 DEF d
  <2> QED
    BY <2>4, <2>6
<1> QED
  BY <1>1, PersistAlways, PTL DEF PersistSpec, LoadIsFaithful
=============================================================================
