------------------------------ MODULE Session ------------------------------
(***************************************************************************)
(* Runs of ah-worker against the coordinator: each process connects, sends *)
(* REGISTER, then the requests its mode asks for, waiting for one reply to *)
(* each; a thread of the coordinator answers them.  Frames arrive whole or *)
(* damaged, in the bytes module Protocol is about; a damaged length loses  *)
(* the count of all that follow.  Processes are killed at will.            *)
(*                                                                         *)
(* The body of a frame follows from its type and the command line of the   *)
(* process that sent it.  Two modes stand for other clients: "report"      *)
(* sends a fault and retries it, "skewed" a body that does not decode.     *)
(***************************************************************************)
EXTENDS HealthStore

CONSTANTS
  Procs,          \* worker processes, each with its connection and its thread
  CommandLines,   \* [worker, boot, uuid, mode, epoch, obsgen, devicegen]
  MaxSnapshot,    \* records that fit into one SNAPSHOT_RESPONSE
  MaxDamage       \* bound on the frames damaged on their way

VARIABLES
  proc,               \* process -> its program: command line, place, plan, results
  thread,             \* process -> the thread that serves its connection
  requests, replies,  \* process -> the frames on their way
  damage,             \* frames damaged so far
  ledger              \* not in the code: the observations accepted, in order

wireVars == <<requests, replies, damage>>
sessionVars == <<vars, proc, thread, wireVars, ledger>>

(* astray is not in the code: a length has been damaged on the connection. *)
Unborn == [cl |-> NoWorker, pc |-> "unborn", plan |-> <<>>, results |-> <<>>,
           astray |-> FALSE]
(* took is not in the code: which of the requests the store has taken. *)
NoThread == [pc |-> "none", haveWorker |-> FALSE, took |-> <<>>]

-----------------------------------------------------------------------------
(* The program of ah-worker *)

(* What a mode sends after REGISTER. *)
Plan(mode) ==
  CASE mode = "register" -> <<>>
    [] mode = "query" -> <<"SNAPSHOT_REQUEST">>
    [] mode = "stale-obsgen" -> <<"OBSERVATION", "OBSERVATION">>
    [] mode \in {"validate", "revalidate", "combine", "live"} ->
         <<"OBSERVATION", "VALIDATION_RESULT">>
    [] mode = "report" -> <<"FAULT_REPORT", "FAULT_REPORT">>
    [] mode = "skewed" -> <<"UNREADABLE">>
    [] OTHER -> <<"OBSERVATION">>

(* The envelope of its reports, with what the stale modes falsify. *)
Envelope(cl) ==
  [epoch |-> IF cl.mode = "stale-epoch" THEN cl.epoch - 1 ELSE cl.epoch,
   worker |-> cl.worker,
   boot |-> IF cl.mode = "stale-boot" THEN cl.boot + 1000 ELSE cl.boot,
   observationGeneration |-> cl.obsgen,
   deviceGeneration |-> IF cl.mode = "stale-devgen" THEN 0 ELSE cl.devicegen]

(* makeObs: every dimension it names is nominal. *)
Report == [k \in Kinds |-> "NOMINAL"]

(* Every validation a process publishes carries its boot id, as do the faults. *)
ItsValidation(cl) == [id |-> cl.boot, depth |-> 7, passed |-> TRUE]
ItsFault(cl) ==
  [id |-> cl.boot, type |-> "TRANSFER", severity |-> CRITICAL, fatal |-> FALSE, open |-> TRUE]

(* A device's uuid is its id; the constants of the store hold what the         *)
(* processes send; and the boot ids "stale-boot" makes up are nobody's own.    *)
ASSUME SessionAssumption ==
  /\ 0 \notin Uuids /\ 1 \in Timestamps /\ Report \in Reports
  /\ MaxSnapshot \in Nat /\ MaxDamage \in Nat
  /\ \A p \in Procs : \A cl \in CommandLines[p] :
       /\ cl.worker \in Workers /\ cl.boot \in Boots /\ cl.uuid \in Uuids
       /\ cl.obsgen \in 0 .. MaxObservationGeneration
       /\ cl.devicegen \in 0 .. MaxDeviceGeneration
       /\ ItsFault(cl) \in Faults /\ ItsValidation(cl) \in Validations
       /\ cl.boot + 1000 # NoBoot
       /\ \A q \in Procs : \A other \in CommandLines[q] : other.boot # cl.boot + 1000

Start(p, cl) ==
  /\ proc[p].pc = "unborn"
  /\ proc' = [proc EXCEPT ![p] =
       [cl |-> cl, pc |-> "registering", plan |-> Plan(cl.mode), results |-> <<>>,
        astray |-> FALSE]]
  /\ requests' = [requests EXCEPT ![p] = <<"REGISTER">>]
  /\ UNCHANGED <<vars, thread, replies, damage, ledger>>

(* Bytes that are not a frame as long as it says: what a damaged length makes  *)
(* of a frame, and what is left of one that was read too short.                *)
Debris == [type |-> "DEBRIS", ok |-> FALSE]
OffLength(reply) == reply.type \in {"MISCOUNTED", "DEBRIS"}

(* recvFrame can return: there is something to read, or the connection is      *)
(* closed.                                                                     *)
Answered(p) == replies[p] # <<>> \/ thread[p].pc = "closed"

(* What it leaves.  The length is used before anything is checked: reading at  *)
(* a wrong one takes any number of the frames behind, the last perhaps in part.*)
Left(rp) ==
  IF rp # <<>> /\ OffLength(Head(rp))
    THEN {part \o SubSeq(rp, n + 1, Len(rp)) : part \in {<<>>, <<Debris>>}, n \in 1 .. Len(rp)}
    ELSE {SubSeq(rp, 2, Len(rp))}

(* sendAndExpect's result.  A reply that is missing or damaged counts as       *)
(* false, one to another request as one to this: types are not compared.       *)
Outcome(p) == replies[p] # <<>> /\ Head(replies[p]).ok

(* On with the plan: the next request goes out, or the program ends.  A send   *)
(* into a closed connection is noticed, at the latest, by the recv after it.   *)
Proceed(p, results) ==
  LET plan == proc[p].plan IN
  /\ \E rest \in Left(replies[p]) : replies' = [replies EXCEPT ![p] = rest]
  /\ requests' = [requests EXCEPT ![p] =
       IF plan = <<>> THEN @ ELSE Append(@, Head(plan))]
  /\ proc' = [proc EXCEPT ![p] =
       [proc[p] EXCEPT
          !.results = results,
          !.plan = IF plan = <<>> THEN plan ELSE Tail(plan),
          !.pc = IF plan # <<>> THEN "asking"
                 ELSE IF @ = "asking" /\ proc[p].cl.mode = "live" THEN "holding"
                 ELSE "exited"]]
  /\ UNCHANGED <<vars, thread, damage, ledger>>

(* Whatever becomes of REGISTER, the worker goes on. *)
GetRegistered(p) ==
  /\ proc[p].pc = "registering" /\ Answered(p)
  /\ Proceed(p, <<>>)

GetReply(p) ==
  /\ proc[p].pc = "asking" /\ Answered(p)
  /\ Proceed(p, Append(proc[p].results, Outcome(p)))

(* "live" sleeps for holdSeconds before it leaves. *)
HoldOver(p) ==
  /\ proc[p].pc = "holding"
  /\ proc' = [proc EXCEPT ![p].pc = "exited"]
  /\ UNCHANGED <<vars, thread, wireVars, ledger>>

(* A process is killed; what it has sent may be lost with its socket, what it  *)
(* has not read is.                                                            *)
Kill(p) ==
  /\ proc[p].pc \in {"registering", "asking", "holding"}
  /\ proc' = [proc EXCEPT ![p].pc = "exited"]
  /\ \E left \in {requests[p], <<>>} : requests' = [requests EXCEPT ![p] = left]
  /\ replies' = [replies EXCEPT ![p] = <<>>]
  /\ UNCHANGED <<vars, thread, damage, ledger>>

(* A frame is damaged on its way: in its length, or elsewhere, and then it is  *)
(* read to its end and fails its checks.                                       *)
Damage(p) ==
  /\ damage < MaxDamage
  /\ damage' = damage + 1
  /\ \E kind \in {"DAMAGED", "MISCOUNTED"} :
       /\ proc' = [proc EXCEPT ![p].astray = @ \/ kind = "MISCOUNTED"]
       /\ \/ /\ requests[p] # <<>> /\ Head(requests[p]) \notin {"DAMAGED", "MISCOUNTED"}
             /\ requests' = [requests EXCEPT ![p] = <<kind>> \o Tail(@)]
             /\ UNCHANGED replies
          \/ /\ replies[p] # <<>> /\ Head(replies[p]).type \in {"ACK", "SNAPSHOT_RESPONSE"}
             /\ replies' = [replies EXCEPT ![p] = <<[type |-> kind, ok |-> FALSE]>> \o Tail(@)]
             /\ UNCHANGED requests
  /\ UNCHANGED <<vars, thread, ledger>>

-----------------------------------------------------------------------------
(* The thread of the coordinator *)

Accept(p) ==
  /\ thread[p].pc = "none" /\ proc[p].pc # "unborn"
  /\ thread' = [thread EXCEPT ![p].pc = "idle"]
  /\ UNCHANGED <<vars, proc, wireVars, ledger>>

Takes(p, type) ==
  /\ thread[p].pc = "idle"
  /\ requests[p] # <<>> /\ Head(requests[p]) = type
  /\ requests' = [requests EXCEPT ![p] = Tail(@)]

(* sendFrame; nobody looks at whether it has failed. *)
Reply(p, type, ok) ==
  replies' = [replies EXCEPT ![p] =
    IF proc[p].pc = "exited" THEN @ ELSE Append(@, [type |-> type, ok |-> ok])]

Took(p, taken) == thread' = [thread EXCEPT ![p].took = Append(@, taken)]

HandleRegister(p) ==
  /\ Takes(p, "REGISTER")
  /\ RegisterWorker(proc[p].cl.worker, proc[p].cl.boot)
  /\ thread' = [thread EXCEPT ![p].pc = "devices", ![p].haveWorker = TRUE]
  /\ UNCHANGED <<proc, replies, damage, ledger>>

(* The list of an ah-worker is one device long. *)
RegisterItsDevice(p) ==
  /\ thread[p].pc = "devices"
  /\ IF proc[p].cl.uuid \in DOMAIN uuidIndex THEN UNCHANGED vars
     ELSE RegisterDevice(proc[p].cl.uuid)
  /\ thread' = [thread EXCEPT ![p].pc = "listed"]
  /\ UNCHANGED <<proc, wireVars, ledger>>

(* Variant: the registration is not acknowledged. *)
FinishRegisterSilently(p) ==
  /\ thread[p].pc = "listed"
  /\ ReassessAll
  /\ thread' = [thread EXCEPT ![p].pc = "idle"]
  /\ UNCHANGED <<proc, wireVars, ledger>>

FinishRegister(p) ==
  /\ thread[p].pc = "listed"
  /\ ReassessAll
  /\ thread' = [thread EXCEPT ![p].pc = "idle"]
  /\ Reply(p, "ACK", TRUE)
  /\ UNCHANGED <<proc, requests, damage, ledger>>

(* Variant: whatever the store says, the worker is told "accepted". *)
HandleObservationAcknowledgingAll(p) ==
  LET cl == proc[p].cl  env == Envelope(cl) IN
  /\ Takes(p, "OBSERVATION")
  /\ IF Admits(cl.uuid, env)
       THEN /\ AcceptObservation(cl.uuid, env, now, Report)
            /\ ledger' = Append(ledger, <<env.worker, env.boot, env.observationGeneration>>)
       ELSE UNCHANGED <<vars, ledger>>
  /\ Took(p, Admits(cl.uuid, env))
  /\ Reply(p, "ACK", TRUE)
  /\ UNCHANGED <<proc, damage>>

HandleObservation(p) ==
  LET cl == proc[p].cl  env == Envelope(cl) IN
  /\ Takes(p, "OBSERVATION")
  /\ IF Admits(cl.uuid, env)
       THEN /\ AcceptObservation(cl.uuid, env, now, Report)
            /\ ledger' = Append(ledger, <<env.worker, env.boot, env.observationGeneration>>)
       ELSE UNCHANGED <<vars, ledger>>
  /\ Took(p, Admits(cl.uuid, env))
  /\ Reply(p, "ACK", Admits(cl.uuid, env))
  /\ UNCHANGED <<proc, damage>>

(* The acknowledgement says "recorded" whether or not the device is known. *)
HandleValidation(p) ==
  LET cl == proc[p].cl  known == cl.uuid \in DOMAIN devices IN
  /\ Takes(p, "VALIDATION_RESULT")
  /\ IF known THEN RecordValidation(cl.uuid, ItsValidation(cl)) ELSE UNCHANGED vars
  /\ Took(p, known)
  /\ Reply(p, "ACK", TRUE)
  /\ UNCHANGED <<proc, damage, ledger>>

(* A fault the history holds already makes recordFault throw. *)
HandleFault(p) ==
  LET cl == proc[p].cl  known == cl.uuid \in DOMAIN devices IN
  /\ Takes(p, "FAULT_REPORT")
  /\ IF known /\ \E i \in 1 .. Len(devices[cl.uuid].faults) :
                   devices[cl.uuid].faults[i].id = ItsFault(cl).id
       THEN /\ thread' = [thread EXCEPT ![p].pc = "closing"]
            /\ UNCHANGED <<vars, replies>>
       ELSE /\ IF known THEN RecordFault(cl.uuid, ItsFault(cl)) ELSE UNCHANGED vars
            /\ Took(p, known)
            /\ Reply(p, "ACK", TRUE)
  /\ UNCHANGED <<proc, damage, ledger>>

(* SNAPSHOT_REQUEST.  The reply is too large for a frame when the store holds  *)
(* too many records: encodeFrame throws.  The client cannot decode one in      *)
(* which a validation id recurs.  Saving to the file is in module Persistence. *)
Records ==
  LET size[ids \in SUBSET DOMAIN devices] ==
        IF ids = {} THEN 0
        ELSE LET id == CHOOSE x \in ids : TRUE IN
             1 + Cardinality(devices[id].validations) + Len(devices[id].faults)
               + size[ids \ {id}]
  IN  size[DOMAIN devices]

HandleSnapshot(p) ==
  /\ Takes(p, "SNAPSHOT_REQUEST")
  /\ IF Records > MaxSnapshot
       THEN /\ thread' = [thread EXCEPT ![p].pc = "closing"]
            /\ UNCHANGED replies
       ELSE /\ Took(p, TRUE)
            /\ Reply(p, "SNAPSHOT_RESPONSE",
                     \A id \in DOMAIN devices : ~devices[id].validationRepeated)
  /\ UNCHANGED <<vars, proc, damage, ledger>>

(* A body that does not decode is dropped, and nothing is answered. *)
DropUnreadable(p) ==
  /\ Takes(p, "UNREADABLE")
  /\ UNCHANGED <<vars, proc, thread, replies, damage, ledger>>

(* recvFrame fails: the frame is malformed, or the peer has gone and all it    *)
(* sent has been read.                                                         *)
RecvFails(p) ==
  /\ thread[p].pc = "idle"
  /\ IF requests[p] # <<>> THEN Head(requests[p]) \in {"DAMAGED", "MISCOUNTED"}
     ELSE proc[p].pc = "exited"
  /\ thread' = [thread EXCEPT ![p].pc = "closing"]
  /\ UNCHANGED <<vars, proc, wireVars, ledger>>

(* Variant: the thread closes the socket and leaves the store alone. *)
EndThreadSilently(p) ==
  /\ thread[p].pc = "closing"
  /\ thread' = [thread EXCEPT ![p].pc = "closed"]
  /\ UNCHANGED <<vars, proc, wireVars, ledger>>

EndThread(p) ==
  LET w == proc[p].cl.worker  b == proc[p].cl.boot IN
  /\ thread[p].pc = "closing"
  /\ IF thread[p].haveWorker /\ workerBootRegistry[w] = b
       THEN InvalidateWorker(w, b) ELSE UNCHANGED vars
  /\ thread' = [thread EXCEPT ![p].pc = "closed"]
  /\ UNCHANGED <<proc, wireVars, ledger>>

-----------------------------------------------------------------------------
SessionInit ==
  /\ Init
  /\ proc = [p \in Procs |-> Unborn]
  /\ thread = [p \in Procs |-> NoThread]
  /\ requests = [p \in Procs |-> <<>>]
  /\ replies = [p \in Procs |-> <<>>]
  /\ damage = 0
  /\ ledger = <<>>

ProgramStep(p) == GetRegistered(p) \/ GetReply(p) \/ HoldOver(p)

ThreadStep(p) ==
  \/ Accept(p)
  \/ HandleRegister(p) \/ RegisterItsDevice(p) \/ FinishRegister(p)
  \/ HandleObservation(p) \/ HandleValidation(p) \/ HandleFault(p)
  \/ HandleSnapshot(p) \/ DropUnreadable(p)
  \/ RecvFails(p) \/ EndThread(p)

SessionNext ==
  \E p \in Procs :
    \/ \E cl \in CommandLines[p] : Start(p, cl)
    \/ ProgramStep(p) \/ ThreadStep(p)
    \/ Kill(p) \/ Damage(p)

(* At a wrong length recvFrame may wait for bytes that never come, as long as  *)
(* the other end stays.                                                        *)
ProgramHangs(p) ==
  /\ proc[p].pc \in {"registering", "asking"} /\ thread[p].pc # "closed"
  /\ replies[p] # <<>> /\ OffLength(Head(replies[p]))

ThreadHangs(p) ==
  /\ thread[p].pc = "idle" /\ proc[p].pc # "exited"
  /\ requests[p] # <<>> /\ Head(requests[p]) = "MISCOUNTED"

GoesAhead(p) ==
  \/ ProgramStep(p) /\ ~ProgramHangs(p)
  \/ ThreadStep(p) /\ ~ThreadHangs(p)

CanGoAhead(p) ==
  \/ proc[p].pc \in {"registering", "asking"} /\ Answered(p) /\ ~ProgramHangs(p)
  \/ proc[p].pc = "holding"
  \/ proc[p].pc # "unborn" /\ thread[p].pc \in {"none", "devices", "listed", "closing"}
  \/ /\ thread[p].pc = "idle" /\ ~ThreadHangs(p)
     /\ requests[p] # <<>> \/ proc[p].pc = "exited"

(* Somebody who has something to do is scheduled; who, is left open.  This is  *)
(* weak fairness of the steps that go ahead; when one is enabled is written    *)
(* out, for TLC to decide it without looking for the step.                     *)
Scheduling ==
  \/ []<>(\A p \in Procs : ~CanGoAhead(p))
  \/ []<><<\E p \in Procs : GoesAhead(p)>>_sessionVars

SessionSpec == SessionInit /\ [][SessionNext]_sessionVars /\ Scheduling

-----------------------------------------------------------------------------
(* What a worker is told is what happened: a result it prints as accepted is   *)
(* that of a request the store has taken, though replies are damaged, requests *)
(* retried and REGISTER's answer is never looked at.  Once a length has been   *)
(* damaged it may be late, the answer to a request given up before; but never  *)
(* are more counted as accepted than the store has taken.                      *)
Taken(p, i) == i <= Len(thread[p].took) /\ thread[p].took[i]

AckIsTruth ==
  \A p \in Procs : \A i \in 1 .. Len(proc[p].results) :
    proc[p].results[i] =>
      \/ Taken(p, i)
      \/ /\ proc[p].astray
         /\ \E j \in 1 .. (i - 1) : ~proc[p].results[j] /\ Taken(p, j)

(* An observation is accepted at most once, over all the processes that send   *)
(* it: retries over the same or a new connection included.                     *)
AtMostOnce ==
  \A i, j \in 1 .. Len(ledger) : ledger[i] = ledger[j] => i = j

(* Every run ends, and its thread with it: killed or not, whatever is damaged, *)
(* too large or repeated.  There are two exceptions, a client whose body does  *)
(* not decode, which is never answered, and a connection on which a length was *)
(* damaged; and there, as soon as one end is gone the other follows.           *)
EveryRunEnds ==
  <>[](\A p \in Procs :
         \/ proc[p].pc = "unborn"
         \/ proc[p].pc = "exited" /\ thread[p].pc = "closed"
         \/ /\ proc[p].pc # "exited" /\ thread[p].pc # "closed"
            /\ proc[p].cl.mode = "skewed" \/ proc[p].astray)

-----------------------------------------------------------------------------
(* What module Coordinator says of connections *)

Serving(p) == thread[p].pc \notin {"none", "closed"}

AsConnection(p) ==
  [phase |-> IF ~Serving(p) THEN "free"
             ELSE IF thread[p].pc = "listed" THEN "devices" ELSE thread[p].pc,
   worker |-> IF Serving(p) THEN proc[p].cl.worker ELSE NoWorker,
   boot |-> IF Serving(p) THEN proc[p].cl.boot ELSE NoBoot,
   haveWorker |-> Serving(p) /\ thread[p].haveWorker]

Coord == INSTANCE Coordinator WITH
  Conns <- Procs, conns <- [p \in Procs |-> AsConnection(p)]

(* The sessions are behaviours of Coordinator, where a client reports what it  *)
(* likes under its own worker and boot id: what is checked and proved there    *)
(* holds of the programs here.                                                 *)
ImplementsCoordinator ==
  Coord!CoordInit /\ [][UNCHANGED Coord!coordVars \/ Coord!CoordNext]_(Coord!coordVars)
=============================================================================
