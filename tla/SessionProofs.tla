--------------------------- MODULE SessionProofs ---------------------------
(***************************************************************************)
(* Proofs about Session, for any number of processes, any command lines    *)
(* and any number of damaged frames.  Between a program and the thread     *)
(* that serves it at most one request is unanswered: from that follow what *)
(* the program's results mean and that the thread has a registered worker  *)
(* when it reports.  The sessions are then behaviours of the coordinator,  *)
(* and their store steps are steps of the store.                           *)
(***************************************************************************)
EXTENDS Session, DeviceStepProofs

-----------------------------------------------------------------------------
(* One program and its thread *)

Asked == {"SNAPSHOT_REQUEST", "OBSERVATION", "VALIDATION_RESULT", "FAULT_REPORT", "UNREADABLE"}
Alive == {"registering", "asking", "holding"}
Ended == {"closing", "closed"}

RequestType == Asked \cup {"REGISTER", "DAMAGED", "MISCOUNTED"}
ReplyType ==
  [type: {"ACK", "SNAPSHOT_RESPONSE", "DAMAGED", "MISCOUNTED", "DEBRIS"}, ok: BOOLEAN]
ThreadType ==
  [pc: {"none", "idle", "devices", "listed"} \cup Ended, haveWorker: BOOLEAN,
   took: Seq(BOOLEAN)]
ProcType(lines) ==
  [cl: lines \cup {NoWorker}, pc: {"unborn", "exited"} \cup Alive,
   plan: Seq(Asked), results: Seq(BOOLEAN), astray: BOOLEAN]

(* Of a program pr, its thread th, the requests rq and the replies rp between  *)
(* them: their types, *)
Typed(pr, th, rq, rp, lines) ==
  /\ pr \in ProcType(lines) /\ th \in ThreadType
  /\ rq \in Seq(RequestType) /\ rp \in Seq(ReplyType)
  /\ pr.pc # "unborn" => pr.cl \in lines
  /\ pr.pc = "unborn" => pr = Unborn /\ th = NoThread /\ rq = <<>> /\ rp = <<>>

(* that REGISTER is handled, once, before anything else, and makes the device  *)
(* known,                                                                      *)
RegistersFirst(pr, th, rq, rp, known) ==
  /\ th.pc = "none" => ~th.haveWorker /\ th.took = <<>>
  /\ th.pc \in {"none", "idle"} /\ ~th.haveWorker =>
       /\ rp = <<>> /\ rq \in {<<>>, <<"REGISTER">>, <<"DAMAGED">>, <<"MISCOUNTED">>}
       /\ pr.pc \in {"unborn", "registering", "exited"}
  /\ th.pc \in {"devices", "listed"} =>
       /\ th.haveWorker /\ rq = <<>> /\ rp = <<>>
       /\ pr.pc \in {"registering", "exited"}
  /\ th.haveWorker => \A i \in 1 .. Len(rq) : rq[i] # "REGISTER"
  /\ pr.pc = "registering" =>
       /\ pr.results = <<>> /\ th.took = <<>>
       /\ th.haveWorker => rq = <<>>
  /\ th.haveWorker /\ th.pc \in {"listed", "idle"} => pr.cl.uuid \in known

(* that at most one request is unanswered while both are at work, and the      *)
(* thread is that much ahead of the program, until a length is damaged,        *)
OneOutstanding(pr, th, rq, rp) ==
  /\ pr.pc \in Alive /\ th.pc \in Ended => rp = <<>>
  /\ pr.pc \in Alive /\ th.pc \notin Ended =>
       (Len(rq) = 0 /\ Len(rp) <= 1) \/ (Len(rq) = 1 /\ rp = <<>>)
  /\ pr.pc \in {"asking", "holding"} /\ th.pc \notin Ended =>
       /\ rp = <<>> => Len(th.took) = Len(pr.results)
       /\ rp # <<>> =>
            /\ Len(th.took) = Len(pr.results) + 1
            /\ rp[1].ok => th.took[Len(th.took)]

Counted(pr) == pr.astray => pr.pc = "registering"
Whole(rp) == \A i \in 1 .. Len(rp) : ~OffLength(rp[i])

(* so that what the program was told is true;                                  *)
Has(th, i) == i <= Len(th.took) /\ th.took[i]
Told(pr, th) == \A i \in 1 .. Len(pr.results) : pr.results[i] => Has(th, i)

(* that even after that the thread is never further ahead, and an acceptance   *)
(* on its way is that of a request not yet counted, of which there is one,     *)
(* since no plan asks for more than two;                                       *)
OneToCount(pr, th, rp) ==
  /\ \A j \in 1 .. Len(rp) : rp[j].ok =>
       /\ ~OffLength(rp[j])
       /\ \E i \in 1 .. Len(th.took) :
            th.took[i] /\ (i <= Len(pr.results) => ~pr.results[i])
  /\ pr.results = <<>> =>
       \A j, k \in 1 .. Len(rp) : rp[j].ok /\ rp[k].ok => j = k

Late(pr, th, rq, rp) ==
  /\ pr.pc = "registering" => Len(pr.plan) <= 2
  /\ pr.pc = "asking" =>
       /\ Len(pr.plan) + Len(pr.results) <= 1
       /\ Len(th.took) <= Len(pr.results) + 1
       /\ th.pc \notin Ended => Len(th.took) + Len(rq) <= Len(pr.results) + 1
       /\ OneToCount(pr, th, rp)

(* and that what the program was told is at worst late.                        *)
Owed(pr, th) ==
  \A i \in 1 .. Len(pr.results) : pr.results[i] =>
    Has(th, i) \/ \E j \in 1 .. (i - 1) : ~pr.results[j] /\ Has(th, j)

Meets(pr, th, rq, rp, lines, known) ==
  /\ Typed(pr, th, rq, rp, lines)
  /\ RegistersFirst(pr, th, rq, rp, known)
  /\ Counted(pr) => OneOutstanding(pr, th, rq, rp)
  /\ ~pr.astray => Told(pr, th) /\ Whole(rp)
  /\ Late(pr, th, rq, rp)
  /\ Owed(pr, th)

(* A thread that has closed, or ended, has nothing left to say. *)
LEMMA CloseMeets ==
  ASSUME NEW lines, NEW known, NEW pr, NEW th, NEW rq, NEW rp,
         Meets(pr, th, rq, rp, lines, known),
         \/ th.pc = "idle" /\ (rq # <<>> \/ pr.pc = "exited")
         \/ th.pc = "closing",
         NEW pc \in Ended, NEW th1, th1 = [th EXCEPT !.pc = pc],
         NEW rq1, rq1 = rq \/ (rq # <<>> /\ rq1 = Tail(rq))
  PROVE  Meets(pr, th1, rq1, rp, lines, known)
<1>1. Typed(pr, th, rq, rp, lines)
  BY DEF Meets
<1>2. /\ th1 \in ThreadType /\ th1.pc = pc /\ th1.haveWorker = th.haveWorker
      /\ th1.took = th.took
  BY <1>1 DEF Typed, ThreadType, Ended
<1>3. /\ rq1 \in Seq(RequestType)
      /\ (\A i \in 1 .. Len(rq) : rq[i] # "REGISTER") =>
           \A i \in 1 .. Len(rq1) : rq1[i] # "REGISTER"
      /\ rq = <<>> => rq1 = <<>>
  <2>1. CASE rq1 = rq
    BY <1>1, <2>1 DEF Typed
  <2>2. CASE rq # <<>> /\ rq1 = Tail(rq)
    <3>1. /\ rq1 \in Seq(RequestType) /\ Len(rq1) = Len(rq) - 1
          /\ Len(rq) \in Nat /\ \A i \in 1 .. Len(rq1) : rq1[i] = rq[i + 1]
      BY <1>1, <2>2 DEF Typed
    <3>2. ASSUME \A i \in 1 .. Len(rq) : rq[i] # "REGISTER", NEW i \in 1 .. Len(rq1)
          PROVE  rq1[i] # "REGISTER"
      <4>1. i + 1 \in 1 .. Len(rq)
        BY <3>1
      <4> QED
        BY <3>1, <3>2, <4>1
    <3> QED
      BY <2>2, <3>1, <3>2
  <2> QED
    BY <2>1, <2>2
<1>4. pr.pc # "unborn"
  BY <1>1 DEF Typed, NoThread
<1>5. Typed(pr, th1, rq1, rp, lines)
  BY <1>1, <1>2, <1>3, <1>4 DEF Typed
<1>6. RegistersFirst(pr, th1, rq1, rp, known)
  BY <1>2, <1>3 DEF Meets, RegistersFirst, Ended
<1>7. ASSUME Counted(pr)
      PROVE  OneOutstanding(pr, th1, rq1, rp)
  <2>1. pr.pc \in Alive => rp = <<>>
    BY <1>1, <1>7 DEF Meets, OneOutstanding, Alive, Ended, Typed
  <2> QED
    BY <1>2, <2>1 DEF OneOutstanding, Alive, Ended
<1>8. ~pr.astray => Told(pr, th1) /\ Whole(rp)
  BY <1>2 DEF Meets, Told, Has
<1>9. Late(pr, th1, rq1, rp)
  BY <1>2 DEF Meets, Late, OneToCount
<1>10. Owed(pr, th1)
  BY <1>2 DEF Meets, Owed, Has
<1> QED
  BY <1>5, <1>6, <1>7, <1>8, <1>9, <1>10 DEF Meets

(* A request is handled: the store takes it or not, and the reply does not     *)
(* claim more.                                                                 *)
LEMMA AnswerMeets ==
  ASSUME NEW lines, NEW known, NEW pr, NEW th, NEW rq, NEW rp,
         Meets(pr, th, rq, rp, lines, known),
         th.pc = "idle", rq # <<>>, Head(rq) \in Asked,
         NEW taken \in BOOLEAN, NEW reply \in ReplyType, ~OffLength(reply), reply.ok => taken,
         NEW th1, th1 = [th EXCEPT !.took = Append(th.took, taken)],
         NEW rp1, rp1 = IF pr.pc = "exited" THEN rp ELSE Append(rp, reply)
  PROVE  Meets(pr, th1, Tail(rq), rp1, lines, known)
<1>1. Typed(pr, th, rq, rp, lines)
  BY DEF Meets
<1> DEFINE more == Append(th.took, taken)
<1>3. /\ th.took \in Seq(BOOLEAN) /\ more \in Seq(BOOLEAN) /\ Len(more) = Len(th.took) + 1
      /\ more[Len(more)] = taken
      /\ \A i \in 1 .. Len(th.took) : more[i] = th.took[i]
  BY <1>1 DEF Typed, ThreadType
<1>11. th1 = [th EXCEPT !.took = more]
  OBVIOUS
<1> HIDE DEF more
<1>2. /\ th1 \in ThreadType /\ th1.pc = "idle" /\ th1.haveWorker = th.haveWorker
      /\ th1.took = more
  BY <1>1, <1>3, <1>11 DEF Typed, ThreadType
<1>4. /\ Tail(rq) \in Seq(RequestType)
      /\ rq[1] \notin {"REGISTER", "DAMAGED", "MISCOUNTED"} /\ Len(Tail(rq)) = Len(rq) - 1
      /\ Len(rq) \in Nat /\ Len(rq) >= 1
      /\ \A i \in 1 .. Len(Tail(rq)) : Tail(rq)[i] = rq[i + 1]
  BY <1>1 DEF Typed, Asked
<1>5. th.haveWorker /\ pr.pc \in {"asking", "holding", "exited"}
  <2>1. rq \notin {<<>>, <<"REGISTER">>, <<"DAMAGED">>, <<"MISCOUNTED">>}
    BY <1>4
  <2>2. th.haveWorker
    BY <1>1, <2>1 DEF Meets, RegistersFirst, Typed, ThreadType
  <2> QED
    BY <1>1, <2>2 DEF Meets, RegistersFirst, Typed, ProcType, Alive
<1>6. /\ rp1 \in Seq(ReplyType)
      /\ pr.pc # "exited" =>
           /\ Len(rp1) = Len(rp) + 1 /\ Len(rp) \in Nat /\ rp1[Len(rp) + 1] = reply
           /\ \A i \in 1 .. Len(rp) : rp1[i] = rp[i]
  <2>1. rp \in Seq(ReplyType)
    BY <1>1 DEF Typed
  <2> QED
    BY <2>1, AppendProperties
<1>7. Typed(pr, th1, Tail(rq), rp1, lines)
  BY <1>1, <1>2, <1>4, <1>5, <1>6 DEF Typed
<1>8. RegistersFirst(pr, th1, Tail(rq), rp1, known)
  <2>1. \A i \in 1 .. Len(Tail(rq)) : Tail(rq)[i] # "REGISTER"
    BY <1>4, <1>5 DEF Meets, RegistersFirst
  <2> QED
    BY <1>2, <1>5, <2>1 DEF Meets, RegistersFirst
<1>9. ASSUME Counted(pr)
      PROVE  OneOutstanding(pr, th1, Tail(rq), rp1)
  <2>1. CASE pr.pc = "exited"
    BY <2>1 DEF OneOutstanding, Alive
  <2>2. CASE pr.pc \in {"asking", "holding"}
    <3>1. Len(rq) = 1 /\ rp = <<>> /\ Len(th.took) = Len(pr.results)
      BY <1>4, <1>9, <2>2 DEF Meets, OneOutstanding, Alive, Ended
    <3>2. Len(Tail(rq)) = 0 /\ rp1 = <<reply>>
      BY <1>4, <2>2, <3>1
    <3> QED
      BY <1>2, <1>3, <2>2, <3>1, <3>2 DEF OneOutstanding, Alive, Ended
  <2> QED
    BY <1>5, <2>1, <2>2
<1>10. pr.results \in Seq(BOOLEAN)
  BY <1>1 DEF Typed, ProcType
<1>12. \A i \in 1 .. Len(pr.results) : Has(th, i) => Has(th1, i)
  BY <1>2, <1>3, <1>10 DEF Has
<1>13. ~pr.astray => Told(pr, th1) /\ Whole(rp1)
  <2>1. Whole(rp) => Whole(rp1)
    BY <1>1, <1>6 DEF Whole, Typed
  <2> QED
    BY <1>12, <2>1 DEF Meets, Told
<1>14. Owed(pr, th1)
  <2> SUFFICES ASSUME NEW i \in 1 .. Len(pr.results), pr.results[i], ~Has(th, i)
               PROVE  \E j \in 1 .. (i - 1) : ~pr.results[j] /\ Has(th1, j)
    BY <1>12 DEF Owed
  <2>1. PICK j \in 1 .. (i - 1) : ~pr.results[j] /\ Has(th, j)
    BY DEF Meets, Owed
  <2>2. j \in 1 .. Len(pr.results)
    BY <1>10
  <2> QED
    BY <1>12, <2>1, <2>2
<1>15. Late(pr, th1, Tail(rq), rp1)
  <2>1. CASE pr.pc # "asking"
    <3>1. pr.pc # "registering"
      BY <1>5, <2>1
    <3> QED
      BY <2>1, <3>1, Zenon DEF Late
  <2>2. CASE pr.pc = "asking"
    <3> DEFINE n == Len(pr.results)
               m == Len(th.took)
    <3>9. n \in Nat /\ m \in Nat /\ Len(pr.plan) \in Nat
      <4>1. pr.plan \in Seq(Asked)
        BY <1>1 DEF Typed, ProcType
      <4> QED
        BY <1>3, <1>10, <4>1
    <3>10. Len(pr.plan) + n <= 1 /\ m + Len(rq) <= n + 1
      BY <2>2, Zenon DEF Meets, Late, Ended
    <3>1. /\ Len(pr.plan) + n <= 1 /\ m + Len(rq) <= n + 1
          /\ n \in Nat /\ m \in Nat /\ Len(pr.plan) \in Nat
      BY <3>9, <3>10
    <3>2. m <= n /\ n <= 1
      <4> HIDE DEF n, m
      <4>1. Len(rq) \in Nat /\ Len(rq) >= 1
        BY <1>4
      <4> QED
        BY <3>1, <4>1
    <3>3. taken => m + 1 \in 1 .. Len(more) /\ more[m + 1]
      BY <1>3, <3>1
    <3>4. m + 1 <= n => ~pr.results[m + 1]
      <4> SUFFICES ASSUME m + 1 <= n, pr.results[m + 1] PROVE FALSE
        OBVIOUS
      <4>1. m = 0 /\ n = 1
        <5>1. m + 1 <= n
          OBVIOUS
        <5> HIDE DEF n, m
        <5> QED
          BY <3>1, <3>2, <5>1
      <4> QED
        BY <1>10, <4>1 DEF Meets, Owed, Has
    <3>5. ASSUME NEW j \in 1 .. Len(rp1), rp1[j].ok
          PROVE  /\ ~OffLength(rp1[j])
                 /\ \E i \in 1 .. Len(more) : more[i] /\ (i <= n => ~pr.results[i])
      <4>1. CASE j = Len(rp) + 1
        BY <1>6, <2>2, <3>3, <3>4, <3>5, <4>1
      <4>2. CASE j # Len(rp) + 1
        <5>1. j \in 1 .. Len(rp) /\ rp1[j] = rp[j]
          BY <1>6, <2>2, <4>2
        <5>2. /\ ~OffLength(rp[j])
              /\ \E i \in 1 .. m : th.took[i] /\ (i <= n => ~pr.results[i])
          BY <2>2, <3>5, <5>1 DEF Meets, Late, OneToCount
        <5> QED
          BY <1>3, <3>1, <5>1, <5>2
      <4> QED
        BY <4>1, <4>2
    <3>6. ASSUME pr.results = <<>>, NEW j \in 1 .. Len(rp1), NEW k \in 1 .. Len(rp1),
                 rp1[j].ok, rp1[k].ok
          PROVE  j = k
      <4>1. n = 0 /\ m = 0
        BY <3>1, <3>2, <3>6
      <4>2. \A i \in 1 .. Len(rp) : ~rp[i].ok
        BY <2>2, <4>1 DEF Meets, Late, OneToCount
      <4> QED
        BY <1>6, <2>2, <3>6, <4>2
    <3>7. Len(Tail(rq)) = Len(rq) - 1 /\ Len(rq) \in Nat
      BY <1>4
    <3>8. /\ Len(more) <= n + 1 /\ Len(more) + Len(Tail(rq)) <= n + 1
      BY <1>3, <3>1, <3>2, <3>7
    <3>11. OneToCount(pr, th1, rp1)
      BY <1>2, <3>5, <3>6 DEF OneToCount
    <3> QED
      BY <1>2, <2>2, <3>1, <3>8, <3>11 DEF Late
  <2> QED
    BY <2>1, <2>2
<1> QED
  BY <1>7, <1>8, <1>9, <1>13, <1>14, <1>15 DEF Meets

(* A body that does not decode is dropped. *)
LEMMA DropMeets ==
  ASSUME NEW lines, NEW known, NEW pr, NEW th, NEW rq, NEW rp,
         Meets(pr, th, rq, rp, lines, known),
         th.pc = "idle", rq # <<>>, Head(rq) \in Asked
  PROVE  Meets(pr, th, Tail(rq), rp, lines, known)
<1>1. Typed(pr, th, rq, rp, lines)
  BY DEF Meets
<1>2. /\ Tail(rq) \in Seq(RequestType)
      /\ rq[1] \notin {"REGISTER", "DAMAGED", "MISCOUNTED"} /\ Len(Tail(rq)) = Len(rq) - 1
      /\ Len(rq) \in Nat /\ Len(rq) >= 1
      /\ \A i \in 1 .. Len(Tail(rq)) : Tail(rq)[i] = rq[i + 1]
  BY <1>1 DEF Typed, Asked
<1>3. th.haveWorker /\ pr.pc # "unborn" /\ pr.pc # "registering"
  <2>1. rq \notin {<<>>, <<"REGISTER">>, <<"DAMAGED">>, <<"MISCOUNTED">>}
    BY <1>2
  <2>2. th.haveWorker
    BY <1>1, <2>1 DEF Meets, RegistersFirst, Typed, ThreadType
  <2> QED
    BY <1>1, <2>2 DEF Meets, RegistersFirst, Typed
<1>4. Typed(pr, th, Tail(rq), rp, lines)
  BY <1>1, <1>2, <1>3 DEF Typed
<1>5. RegistersFirst(pr, th, Tail(rq), rp, known)
  <2>1. \A i \in 1 .. Len(Tail(rq)) : Tail(rq)[i] # "REGISTER"
    BY <1>2, <1>3 DEF Meets, RegistersFirst
  <2> QED
    BY <1>3, <2>1 DEF Meets, RegistersFirst
<1>6. Counted(pr) => OneOutstanding(pr, th, Tail(rq), rp)
  BY <1>2 DEF Meets, OneOutstanding, Ended
<1>7. Late(pr, th, Tail(rq), rp)
  <2>1. /\ Len(th.took) \in Nat /\ Len(pr.results) \in Nat
        /\ Len(Tail(rq)) = Len(rq) - 1 /\ Len(rq) \in Nat
    BY <1>1, <1>2 DEF Typed, ThreadType, ProcType
  <2>2. Late(pr, th, rq, rp)
    BY DEF Meets
  <2>3. Len(th.took) + Len(rq) <= Len(pr.results) + 1
          => Len(th.took) + Len(Tail(rq)) <= Len(pr.results) + 1
    BY <2>1
  <2> QED
    BY <2>2, <2>3, Zenon DEF Late
<1> QED
  BY <1>4, <1>5, <1>6, <1>7 DEF Meets

(* A thread is started. *)
LEMMA AcceptMeets ==
  ASSUME NEW lines, NEW known, NEW pr, NEW th, NEW rq, NEW rp,
         Meets(pr, th, rq, rp, lines, known),
         th.pc = "none", pr.pc # "unborn",
         NEW th1, th1 = [th EXCEPT !.pc = "idle"]
  PROVE  Meets(pr, th1, rq, rp, lines, known)
<1>1. Typed(pr, th, rq, rp, lines)
  BY DEF Meets
<1>2. /\ th1 \in ThreadType /\ th1.pc = "idle" /\ th1.haveWorker = th.haveWorker
      /\ th1.took = th.took
  BY <1>1 DEF Typed, ThreadType
<1>3. Typed(pr, th1, rq, rp, lines)
  BY <1>1, <1>2 DEF Typed
<1>4. RegistersFirst(pr, th1, rq, rp, known)
  BY <1>2 DEF Meets, RegistersFirst
<1>5. Counted(pr) => OneOutstanding(pr, th1, rq, rp)
  BY <1>2 DEF Meets, RegistersFirst, OneOutstanding, Ended
<1> QED
  BY <1>2, <1>3, <1>4, <1>5 DEF Meets, Told, Has, Owed, Late, OneToCount, Ended

(* REGISTER: the worker, *)
LEMMA RegisterMeets ==
  ASSUME NEW lines, NEW known, NEW pr, NEW th, NEW rq, NEW rp,
         Meets(pr, th, rq, rp, lines, known),
         th.pc = "idle", rq # <<>>, Head(rq) = "REGISTER",
         NEW th1, th1 = [th EXCEPT !.pc = "devices", !.haveWorker = TRUE]
  PROVE  Meets(pr, th1, Tail(rq), rp, lines, known)
<1>1. Typed(pr, th, rq, rp, lines)
  BY DEF Meets
<1>2. rq[1] = "REGISTER" /\ 1 \in 1 .. Len(rq)
  BY <1>1 DEF Typed
<1>3. ~th.haveWorker
  BY <1>2 DEF Meets, RegistersFirst
<1>4. /\ rp = <<>> /\ rq = <<"REGISTER">> /\ pr.pc \in {"registering", "exited"}
  BY <1>1, <1>2, <1>3 DEF Meets, RegistersFirst, Typed
<1>5. Tail(rq) = <<>>
  BY <1>4
<1>6. /\ th1 \in ThreadType /\ th1.pc = "devices" /\ th1.haveWorker = TRUE
      /\ th1.took = th.took
  BY <1>1 DEF Typed, ThreadType
<1>7. Typed(pr, th1, <<>>, rp, lines)
  BY <1>1, <1>4, <1>6 DEF Typed
<1>8. RegistersFirst(pr, th1, <<>>, rp, known)
  BY <1>4, <1>6 DEF Meets, RegistersFirst
<1>9. OneOutstanding(pr, th1, <<>>, rp)
  BY <1>4, <1>6 DEF OneOutstanding, Ended
<1>10. Late(pr, th1, <<>>, rp)
  BY <1>4 DEF Meets, Late
<1> QED
  BY <1>5, <1>6, <1>7, <1>8, <1>9, <1>10 DEF Meets, Told, Has, Owed

(* its device, *)
LEMMA ListedMeets ==
  ASSUME NEW lines, NEW known, NEW pr, NEW th, NEW rq, NEW rp,
         Meets(pr, th, rq, rp, lines, known),
         th.pc = "devices", pr.cl.uuid \in known,
         NEW th1, th1 = [th EXCEPT !.pc = "listed"]
  PROVE  Meets(pr, th1, rq, rp, lines, known)
<1>1. Typed(pr, th, rq, rp, lines)
  BY DEF Meets
<1>2. /\ th1 \in ThreadType /\ th1.pc = "listed" /\ th1.haveWorker = th.haveWorker
      /\ th1.took = th.took
  BY <1>1 DEF Typed, ThreadType
<1>3. pr.pc # "unborn"
  BY <1>1 DEF Typed, NoThread
<1>4. Typed(pr, th1, rq, rp, lines)
  BY <1>1, <1>2, <1>3 DEF Typed
<1>5. RegistersFirst(pr, th1, rq, rp, known)
  BY <1>2 DEF Meets, RegistersFirst
<1>6. Counted(pr) => OneOutstanding(pr, th1, rq, rp)
  BY <1>2 DEF Meets, RegistersFirst, OneOutstanding, Ended
<1>7. Late(pr, th1, rq, rp)
  BY DEF Meets, RegistersFirst, Late
<1> QED
  BY <1>2, <1>4, <1>5, <1>6, <1>7 DEF Meets, Told, Has, Owed

(* and the acknowledgement. *)
LEMMA RegisteredMeets ==
  ASSUME NEW lines, NEW known, NEW pr, NEW th, NEW rq, NEW rp,
         Meets(pr, th, rq, rp, lines, known),
         th.pc = "listed", NEW reply \in ReplyType, ~OffLength(reply),
         NEW th1, th1 = [th EXCEPT !.pc = "idle"],
         NEW rp1, rp1 = IF pr.pc = "exited" THEN rp ELSE Append(rp, reply)
  PROVE  Meets(pr, th1, rq, rp1, lines, known)
<1>1. Typed(pr, th, rq, rp, lines)
  BY DEF Meets
<1>2. /\ th1 \in ThreadType /\ th1.pc = "idle" /\ th1.haveWorker = th.haveWorker
      /\ th1.took = th.took
  BY <1>1 DEF Typed, ThreadType
<1>3. /\ rq = <<>> /\ rp = <<>> /\ th.haveWorker = TRUE /\ pr.pc \in {"registering", "exited"}
  BY <1>1 DEF Meets, RegistersFirst, Typed, ThreadType
<1>4. rp1 = <<>> \/ rp1 = <<reply>>
  BY <1>3
<1>5. rp1 \in Seq(ReplyType) /\ Len(rp1) <= 1
  <2>1. <<>> \in Seq(ReplyType) /\ Len(<<>>) = 0
    OBVIOUS
  <2>2. <<reply>> \in Seq(ReplyType) /\ Len(<<reply>>) = 1
    OBVIOUS
  <2>3. 0 <= 1 /\ 1 <= 1
    OBVIOUS
  <2> QED
    BY <1>4, <2>1, <2>2, <2>3, Zenon
<1>6. Typed(pr, th1, rq, rp1, lines)
  BY <1>1, <1>2, <1>3, <1>5 DEF Typed
<1>7. RegistersFirst(pr, th1, rq, rp1, known)
  BY <1>2, <1>3 DEF Meets, RegistersFirst
<1>8. OneOutstanding(pr, th1, rq, rp1)
  BY <1>2, <1>3, <1>5 DEF OneOutstanding, Ended
<1>9. Whole(rp1)
  <2>1. CASE rp1 = <<>>
    BY <2>1 DEF Whole
  <2>2. CASE rp1 = <<reply>>
    BY <2>2 DEF Whole
  <2> QED
    BY <1>4, <2>1, <2>2
<1>10. Late(pr, th1, rq, rp1)
  BY <1>3 DEF Meets, Late
<1> QED
  BY <1>2, <1>6, <1>7, <1>8, <1>9, <1>10 DEF Meets, Told, Has, Owed

(* The program ends, or is killed. *)
LEMMA ExitMeets ==
  ASSUME NEW lines, NEW known, NEW pr, NEW th, NEW rq, NEW rp,
         Meets(pr, th, rq, rp, lines, known),
         pr.pc # "unborn", NEW pr1, pr1 = [pr EXCEPT !.pc = "exited"],
         NEW rq1 \in {rq, <<>>}, NEW rp1 \in {rp, <<>>}
  PROVE  Meets(pr1, th, rq1, rp1, lines, known)
<1>1. Typed(pr, th, rq, rp, lines)
  BY DEF Meets
<1>2. /\ pr1 \in ProcType(lines) /\ pr1.pc = "exited" /\ pr1.cl = pr.cl
      /\ pr1.results = pr.results /\ pr1.astray = pr.astray
  BY <1>1 DEF Typed, ProcType
<1>7. rp1 \in Seq(ReplyType) /\ (Whole(rp) => Whole(rp1))
  <2>1. CASE rp1 = rp
    BY <1>1, <2>1 DEF Typed
  <2>2. CASE rp1 = <<>>
    BY <2>2 DEF Whole
  <2> QED
    BY <2>1, <2>2
<1>6. rq1 \in Seq(RequestType)
  <2>1. CASE rq1 = rq
    BY <1>1, <2>1 DEF Typed
  <2>2. CASE rq1 = <<>>
    BY <2>2
  <2> QED
    BY <2>1, <2>2
<1>3. Typed(pr1, th, rq1, rp1, lines)
  BY <1>1, <1>2, <1>6, <1>7 DEF Typed
<1>4. RegistersFirst(pr1, th, rq1, rp1, known)
  BY <1>2 DEF Meets, RegistersFirst
<1>5. OneOutstanding(pr1, th, rq1, rp1) /\ Late(pr1, th, rq1, rp1)
  BY <1>2 DEF OneOutstanding, Late, Alive
<1> QED
  BY <1>2, <1>3, <1>4, <1>5, <1>7 DEF Meets, Told, Owed

(* A frame is damaged, in its length or elsewhere. *)
LEMMA DamageMeets ==
  ASSUME NEW lines, NEW known, NEW pr, NEW th, NEW rq, NEW rp,
         Meets(pr, th, rq, rp, lines, known),
         NEW kind \in {"DAMAGED", "MISCOUNTED"},
         NEW astray \in BOOLEAN, pr.astray \/ kind = "MISCOUNTED" => astray,
         NEW pr1, pr1 = [pr EXCEPT !.astray = astray], NEW rq1, NEW rp1,
         \/ rq # <<>> /\ rq1 = <<kind>> \o Tail(rq) /\ rp1 = rp
         \/ /\ rp # <<>> /\ rq1 = rq
            /\ rp1 = <<[type |-> kind, ok |-> FALSE]>> \o Tail(rp)
  PROVE  Meets(pr1, th, rq1, rp1, lines, known)
<1>1. Typed(pr, th, rq, rp, lines)
  BY DEF Meets
<1>4. pr.pc # "unborn"
  BY <1>1 DEF Typed
<1>5. /\ pr1 \in ProcType(lines) /\ pr1.pc = pr.pc /\ pr1.cl = pr.cl
      /\ pr1.results = pr.results /\ pr1.plan = pr.plan /\ pr1.astray = astray
  BY <1>1 DEF Typed, ProcType
<1>6. /\ Counted(pr1) => Counted(pr)
      /\ ~pr1.astray => ~pr.astray /\ kind = "DAMAGED"
      /\ Told(pr, th) => Told(pr1, th)
  <2>1. pr.astray => astray
    OBVIOUS
  <2> QED
    BY <1>5, <2>1, Zenon DEF Counted, Told
<1>7. Owed(pr1, th)
  BY <1>5 DEF Meets, Owed
<1>2. CASE rq # <<>> /\ rq1 = <<kind>> \o Tail(rq) /\ rp1 = rp
  <2>1. /\ rq1 \in Seq(RequestType) /\ Len(rq1) = Len(rq)
        /\ rq1[1] = kind /\ \A i \in 1 .. Len(rq1) : i # 1 => rq1[i] = rq[i]
        /\ Len(rq) \in Nat /\ Len(rq) >= 1 /\ kind # "REGISTER"
    <3>1. kind \in RequestType /\ rq \in Seq(RequestType)
      BY <1>1 DEF Typed, RequestType
    <3> QED
      BY <1>2, <3>1
  <2>2. Typed(pr1, th, rq1, rp1, lines)
    BY <1>1, <1>2, <1>4, <1>5, <2>1 DEF Typed
  <2>3. Len(rq) = 1 => rq1 = <<kind>>
    BY <2>1
  <2>4. RegistersFirst(pr1, th, rq1, rp1, known)
    <3>1. rq \in {<<>>, <<"REGISTER">>, <<"DAMAGED">>, <<"MISCOUNTED">>} =>
            rq1 \in {<<"DAMAGED">>, <<"MISCOUNTED">>}
      BY <1>2, <2>3
    <3>2. th.haveWorker => \A i \in 1 .. Len(rq1) : rq1[i] # "REGISTER"
      BY <2>1 DEF Meets, RegistersFirst
    <3> QED
      BY <1>2, <1>5, <3>1, <3>2 DEF Meets, RegistersFirst
  <2>5. Counted(pr1) => OneOutstanding(pr1, th, rq1, rp1)
    BY <1>2, <1>5, <1>6, <2>1 DEF Meets, OneOutstanding
  <2>6. Late(pr1, th, rq1, rp1)
    BY <1>2, <1>5, <2>1 DEF Meets, Late, OneToCount
  <2> QED
    BY <1>2, <1>6, <1>7, <2>2, <2>4, <2>5, <2>6 DEF Meets
<1>3. CASE /\ rp # <<>> /\ rq1 = rq
           /\ rp1 = <<[type |-> kind, ok |-> FALSE]>> \o Tail(rp)
  <2> DEFINE bad == [type |-> kind, ok |-> FALSE]
  <2>1. bad \in ReplyType /\ bad.ok = FALSE /\ (kind = "DAMAGED" => ~OffLength(bad))
    BY DEF ReplyType, OffLength
  <2> HIDE DEF bad
  <2>2. rp1 = <<bad>> \o Tail(rp)
    BY <1>3 DEF bad
  <2>3. /\ rp1 \in Seq(ReplyType) /\ Len(rp1) = Len(rp) /\ rp1[1] = bad /\ rp1 # <<>>
        /\ \A i \in 1 .. Len(rp) : i = 1 \/ rp1[i] = rp[i]
    <3> DEFINE rest == Tail(rp)
    <3>1. /\ rest \in Seq(ReplyType) /\ Len(rest) = Len(rp) - 1 /\ Len(rp) \in Nat
          /\ \A i \in 1 .. Len(rest) : rest[i] = rp[i + 1]
      BY <1>1, <1>3 DEF Typed
    <3> HIDE DEF rest
    <3>2. rp1 = <<bad>> \o rest
      BY <2>2 DEF rest
    <3>3. <<bad>> \in Seq(ReplyType) /\ Len(<<bad>>) = 1 /\ <<bad>>[1] = bad
      BY <2>1
    <3>4. /\ rp1 \in Seq(ReplyType) /\ Len(rp1) = 1 + Len(rest) /\ rp1[1] = bad
          /\ \A i \in 1 .. Len(rp1) : i > 1 => rp1[i] = rest[i - 1]
      BY <3>1, <3>2, <3>3, ConcatProperties
    <3>5. Len(rp1) # 0 /\ Len(rp1) = Len(rp)
      BY <3>1, <3>4
    <3>6. ASSUME NEW i \in 1 .. Len(rp), i # 1 PROVE rp1[i] = rp[i]
      <4>1. i - 1 \in 1 .. Len(rest) /\ i - 1 + 1 = i /\ i > 1 /\ i \in 1 .. Len(rp1)
        BY <3>1, <3>5, <3>6
      <4> QED
        BY <3>1, <3>4, <4>1
    <3> QED
      BY <3>4, <3>5, <3>6
  <2>4. Typed(pr1, th, rq1, rp1, lines)
    BY <1>1, <1>3, <1>4, <1>5, <2>3 DEF Typed
  <2>5. RegistersFirst(pr1, th, rq1, rp1, known)
    BY <1>3, <1>5 DEF Meets, RegistersFirst
  <2>6. Counted(pr1) => OneOutstanding(pr1, th, rq1, rp1)
    BY <1>3, <1>5, <1>6, <2>1, <2>3 DEF Meets, OneOutstanding
  <2>7. ~pr1.astray => Told(pr1, th) /\ Whole(rp1)
    BY <1>6, <2>1, <2>3 DEF Meets, Whole
  <2>8. OneToCount(pr, th, rp) => OneToCount(pr1, th, rp1)
    BY <1>5, <2>1, <2>3 DEF OneToCount
  <2>9. Late(pr1, th, rq1, rp1)
    BY <1>3, <1>5, <2>8 DEF Meets, Late
  <2> QED
    BY <1>7, <2>4, <2>5, <2>6, <2>7, <2>9 DEF Meets
<1> QED
  BY <1>2, <1>3

(* What a mode sends after REGISTER is never REGISTER again, and two requests  *)
(* at most.                                                                    *)
LEMMA PlanAsked ==
  ASSUME NEW mode PROVE Plan(mode) \in Seq(Asked) /\ Len(Plan(mode)) <= 2
<1>1. /\ <<>> \in Seq(Asked) /\ <<"SNAPSHOT_REQUEST">> \in Seq(Asked)
      /\ <<"OBSERVATION", "OBSERVATION">> \in Seq(Asked)
      /\ <<"OBSERVATION", "VALIDATION_RESULT">> \in Seq(Asked)
      /\ <<"FAULT_REPORT", "FAULT_REPORT">> \in Seq(Asked)
      /\ <<"UNREADABLE">> \in Seq(Asked) /\ <<"OBSERVATION">> \in Seq(Asked)
  BY DEF Asked
<1>2. /\ Len(<<>>) <= 2 /\ Len(<<"SNAPSHOT_REQUEST">>) <= 2
      /\ Len(<<"OBSERVATION", "OBSERVATION">>) <= 2
      /\ Len(<<"OBSERVATION", "VALIDATION_RESULT">>) <= 2
      /\ Len(<<"FAULT_REPORT", "FAULT_REPORT">>) <= 2
      /\ Len(<<"UNREADABLE">>) <= 2 /\ Len(<<"OBSERVATION">>) <= 2
  OBVIOUS
<1> QED
  BY <1>1, <1>2, Zenon DEF Plan

(* A program starts. *)
LEMMA StartMeets ==
  ASSUME NEW lines, NEW known, NEW pr, NEW th, NEW rq, NEW rp,
         Meets(pr, th, rq, rp, lines, known),
         pr.pc = "unborn", NEW cl \in lines, NEW pr1,
         pr1 = [cl |-> cl, pc |-> "registering", plan |-> Plan(cl.mode), results |-> <<>>,
                astray |-> FALSE]
  PROVE  Meets(pr1, th, <<"REGISTER">>, rp, lines, known)
<1>1. th = NoThread /\ rp = <<>> /\ rp \in Seq(ReplyType) /\ th \in ThreadType
  BY DEF Meets, Typed
<1>2. /\ pr1 \in ProcType(lines) /\ pr1.pc = "registering" /\ pr1.cl = cl /\ pr1.results = <<>>
      /\ Len(pr1.plan) <= 2
  BY PlanAsked DEF ProcType, Alive
<1>3. th.pc = "none" /\ th.haveWorker = FALSE /\ th.took = <<>>
  BY <1>1 DEF NoThread
<1>4. <<"REGISTER">> \in Seq(RequestType) /\ Len(<<"REGISTER">>) = 1
  BY DEF RequestType
<1>5. Typed(pr1, th, <<"REGISTER">>, rp, lines)
  BY <1>1, <1>2, <1>4 DEF Typed
<1>6. RegistersFirst(pr1, th, <<"REGISTER">>, rp, known)
  BY <1>1, <1>2, <1>3 DEF RegistersFirst
<1>7. OneOutstanding(pr1, th, <<"REGISTER">>, rp)
  BY <1>1, <1>2, <1>3, <1>4 DEF OneOutstanding, Ended
<1>8. Whole(rp) /\ Told(pr1, th) /\ Owed(pr1, th)
  BY <1>1, <1>2 DEF Whole, Told, Owed
<1>9. Late(pr1, th, <<"REGISTER">>, rp)
  BY <1>2 DEF Late
<1> QED
  BY <1>5, <1>6, <1>7, <1>8, <1>9 DEF Meets

(* What recvFrame leaves is debris or what was behind the frame it read, and   *)
(* exactly that when the frame was as long as it says.                         *)
LEMMA LeftBehind ==
  ASSUME NEW rp \in Seq(ReplyType), NEW rp1 \in Left(rp)
  PROVE  /\ rp1 \in Seq(ReplyType)
         /\ \A j \in 1 .. Len(rp1) :
              ~rp1[j].ok \/ \E k \in 2 .. Len(rp) : rp1[j] = rp[k]
         /\ rp = <<>> \/ ~OffLength(Head(rp)) =>
              /\ Len(rp1) = IF rp = <<>> THEN 0 ELSE Len(rp) - 1
              /\ \A j \in 1 .. Len(rp1) : j + 1 \in 2 .. Len(rp) /\ rp1[j] = rp[j + 1]
<1>1. Len(rp) \in Nat /\ (rp # <<>> => Len(rp) >= 1) /\ (rp = <<>> => Len(rp) = 0)
  OBVIOUS
<1>2. ASSUME NEW n \in 1 .. Len(rp) + 1
      PROVE  /\ SubSeq(rp, n + 1, Len(rp)) \in Seq(ReplyType)
             /\ Len(SubSeq(rp, n + 1, Len(rp))) = IF n + 1 <= Len(rp) THEN Len(rp) - n ELSE 0
             /\ \A j \in 1 .. Len(SubSeq(rp, n + 1, Len(rp))) :
                  /\ j + n \in 2 .. Len(rp)
                  /\ SubSeq(rp, n + 1, Len(rp))[j] = rp[j + n]
  <2>1. CASE n + 1 <= Len(rp)
    BY <1>1, <2>1
  <2>2. CASE n + 1 > Len(rp)
    BY <1>1, <2>2
  <2> QED
    BY <1>1, <2>1, <2>2
<1>3. CASE rp = <<>> \/ ~OffLength(Head(rp))
  <2>1. rp1 = SubSeq(rp, 1 + 1, Len(rp))
    BY <1>3 DEF Left
  <2>2. 1 \in 1 .. Len(rp) + 1
    BY <1>1
  <2>3. /\ rp1 \in Seq(ReplyType)
        /\ Len(rp1) = IF 1 + 1 <= Len(rp) THEN Len(rp) - 1 ELSE 0
        /\ \A j \in 1 .. Len(rp1) : j + 1 \in 2 .. Len(rp) /\ rp1[j] = rp[j + 1]
    BY <1>2, <2>1, <2>2
  <2>4. Len(rp1) = IF rp = <<>> THEN 0 ELSE Len(rp) - 1
    BY <1>1, <2>3
  <2> QED
    BY <2>3, <2>4
<1>4. CASE rp # <<>> /\ OffLength(Head(rp))
  <2>1. PICK part \in {<<>>, <<Debris>>}, n \in 1 .. Len(rp) :
          rp1 = part \o SubSeq(rp, n + 1, Len(rp))
    BY <1>4 DEF Left
  <2> DEFINE rest == SubSeq(rp, n + 1, Len(rp))
  <2>2. /\ rest \in Seq(ReplyType)
        /\ \A j \in 1 .. Len(rest) : j + n \in 2 .. Len(rp) /\ rest[j] = rp[j + n]
    <3>1. n \in 1 .. Len(rp) + 1
      BY <1>1
    <3> QED
      BY <1>2, <3>1
  <2>3. Debris \in ReplyType /\ Debris.ok = FALSE
    BY DEF Debris, ReplyType
  <2>4. part \in Seq(ReplyType) /\ \A i \in 1 .. Len(part) : ~part[i].ok
    <3> DEFINE debris == Debris
    <3>1. debris \in ReplyType /\ debris.ok = FALSE /\ part \in {<<>>, <<debris>>}
      BY <2>3
    <3> HIDE DEF debris
    <3>2. CASE part = <<>>
      BY <3>2
    <3>3. CASE part = <<debris>>
      BY <3>1, <3>3
    <3> QED
      BY <3>1, <3>2, <3>3
  <2> HIDE DEF rest
  <2>5. rp1 = part \o rest
    BY <2>1 DEF rest
  <2>6. /\ rp1 \in Seq(ReplyType) /\ Len(rp1) = Len(part) + Len(rest)
        /\ Len(part) \in Nat /\ Len(rest) \in Nat
        /\ \A i \in 1 .. Len(rp1) :
             rp1[i] = IF i <= Len(part) THEN part[i] ELSE rest[i - Len(part)]
    BY <2>2, <2>4, <2>5, ConcatProperties
  <2>7. ASSUME NEW j \in 1 .. Len(rp1)
        PROVE  ~rp1[j].ok \/ \E k \in 2 .. Len(rp) : rp1[j] = rp[k]
    <3>1. CASE j <= Len(part)
      BY <2>4, <2>6, <3>1
    <3>2. CASE j > Len(part)
      <4>1. j - Len(part) \in 1 .. Len(rest) /\ rp1[j] = rest[j - Len(part)]
        BY <2>6, <3>2
      <4> QED
        BY <2>2, <4>1
    <3> QED
      BY <2>6, <3>1, <3>2
  <2> QED
    BY <1>4, <2>6, <2>7
<1> QED
  BY <1>3, <1>4

(* A program that has its answer goes on to its next request or to its end. *)
GoesOn(pr, th, rq, rp, told, results, plan, pc, pr1, rq1, rp1) ==
  /\ rp # <<>> \/ th.pc = "closed"
  /\ told \in BOOLEAN /\ (told => rp # <<>> /\ Head(rp).ok)
  /\ \/ pr.pc = "registering" /\ results = <<>>
     \/ pr.pc = "asking" /\ results = Append(pr.results, told)
  /\ rq1 = IF pr.plan = <<>> THEN rq ELSE Append(rq, Head(pr.plan))
  /\ rp1 \in Left(rp)
  /\ plan = IF pr.plan = <<>> THEN pr.plan ELSE Tail(pr.plan)
  /\ pr1 = [pr EXCEPT !.results = results, !.plan = plan, !.pc = pc]
  /\ pc \in {"asking", "holding", "exited"}
  /\ pc = "holding" => pr.plan = <<>>
  /\ pc = "asking" => pr.plan # <<>>

(* It has then one request out at most, and one result more that is true. *)
LEMMA ProceedMeets ==
  ASSUME NEW lines, NEW known, NEW pr, NEW th, NEW rq, NEW rp,
         Meets(pr, th, rq, rp, lines, known),
         NEW told, NEW results, NEW plan, NEW pc, NEW pr1, NEW rq1, NEW rp1,
         GoesOn(pr, th, rq, rp, told, results, plan, pc, pr1, rq1, rp1)
  PROVE  Meets(pr1, th, rq1, rp1, lines, known)
<1> USE DEF GoesOn
<1>1. Typed(pr, th, rq, rp, lines) /\ pr.pc \in Alive
  BY DEF Meets, Alive
<1>2. results \in Seq(BOOLEAN) /\ pr.results \in Seq(BOOLEAN) /\ th.took \in Seq(BOOLEAN)
  <2>1. pr.results \in Seq(BOOLEAN) /\ th.took \in Seq(BOOLEAN)
    BY <1>1 DEF Typed, ProcType, ThreadType
  <2>3. CASE results = <<>>
    BY <2>1, <2>3
  <2>4. CASE results = Append(pr.results, told)
    BY <2>1, <2>4
  <2> QED
    BY <2>1, <2>3, <2>4
<1>3. plan \in Seq(Asked) /\ pr.plan \in Seq(Asked)
  BY <1>1 DEF Typed, ProcType
<1>4. /\ pr1 \in ProcType(lines) /\ pr1.pc = pc /\ pr1.cl = pr.cl /\ pr1.results = results
      /\ pr1.plan = plan /\ pr1.astray = pr.astray
  BY <1>1, <1>2, <1>3 DEF Typed, ProcType, Alive
<1>5. /\ rq1 \in Seq(RequestType)
      /\ (\A i \in 1 .. Len(rq) : rq[i] # "REGISTER") =>
           \A i \in 1 .. Len(rq1) : rq1[i] # "REGISTER"
      /\ Len(rq1) = IF pr.plan = <<>> THEN Len(rq) ELSE Len(rq) + 1
      /\ Len(rq) \in Nat
  <2>1. rq \in Seq(RequestType)
    BY <1>1 DEF Typed
  <2>2. CASE pr.plan = <<>>
    BY <2>1, <2>2
  <2>3. CASE pr.plan # <<>>
    <3> DEFINE next == Head(pr.plan)
    <3>1. next \in Asked /\ next # "REGISTER"
      BY <1>3, <2>3 DEF Asked
    <3>3. next \in RequestType
      BY <3>1 DEF RequestType
    <3> HIDE DEF next
    <3>2. rq1 = Append(rq, next)
      BY <2>3 DEF next
    <3> QED
      BY <2>1, <2>3, <3>1, <3>2, <3>3
  <2> QED
    BY <2>2, <2>3
<1>6. /\ rp \in Seq(ReplyType) /\ rp1 \in Seq(ReplyType) /\ Len(rp) \in Nat
      /\ \A j \in 1 .. Len(rp1) :
           ~rp1[j].ok \/ \E k \in 2 .. Len(rp) : rp1[j] = rp[k]
      /\ rp = <<>> \/ ~OffLength(Head(rp)) =>
           /\ Len(rp1) = IF rp = <<>> THEN 0 ELSE Len(rp) - 1
           /\ \A j \in 1 .. Len(rp1) : j + 1 \in 2 .. Len(rp) /\ rp1[j] = rp[j + 1]
  <2>1. rp \in Seq(ReplyType) /\ rp1 \in Left(rp)
    BY <1>1 DEF Typed
  <2> QED
    BY <2>1, LeftBehind
<1>7. ASSUME th.pc # "closed"
      PROVE  rp # <<>> /\ (th.pc \in Ended \/ (th.pc = "idle" /\ th.haveWorker))
  BY <1>1, <1>7 DEF Meets, RegistersFirst, Typed, ThreadType
<1>16. ASSUME Counted(pr)
       PROVE  /\ th.pc \in Ended => th.pc = "closed" /\ rp = <<>>
              /\ th.pc \notin Ended => rp # <<>> /\ Len(rp) = 1 /\ rq = <<>> /\ Len(rq) = 0
  <2>1. OneOutstanding(pr, th, rq, rp)
    BY <1>16 DEF Meets
  <2>2. CASE th.pc \in Ended
    BY <1>1, <1>7, <2>1, <2>2 DEF OneOutstanding
  <2>3. CASE th.pc \notin Ended
    <3>1. rp # <<>> /\ Len(rp) # 0
      BY <1>6, <1>7, <2>3 DEF Ended
    <3>2. (Len(rq) = 0 /\ Len(rp) <= 1) \/ (Len(rq) = 1 /\ rp = <<>>)
      BY <1>1, <2>1, <2>3, Zenon DEF OneOutstanding
    <3>3. Len(rq) = 0 /\ Len(rp) = 1
      <4>1. Len(rq) = 0 /\ Len(rp) <= 1
        BY <3>1, <3>2, Zenon
      <4>2. Len(rp) \in Nat
        BY <1>6
      <4>3. \A m \in Nat : m # 0 /\ m <= 1 => m = 1
        OBVIOUS
      <4> QED
        BY <3>1, <4>1, <4>2, <4>3, Zenon
    <3>4. rq = <<>>
      BY <1>1, <3>3 DEF Typed
    <3> QED
      BY <2>3, <3>1, <3>3, <3>4
  <2> QED
    BY <2>2, <2>3
<1>17. ~pr.astray => Counted(pr) /\ Whole(rp) /\ Told(pr, th)
  BY DEF Meets, Counted
<1>18. Counted(pr) => \A j \in 1 .. Len(rp1) : ~rp1[j].ok
  <2>1. ASSUME Counted(pr), NEW k \in 2 .. Len(rp) PROVE FALSE
    <3>1. rp = <<>> \/ Len(rp) = 1
      BY <1>16, <2>1, Zenon
    <3>2. Len(rp) = 0 \/ Len(rp) = 1
      BY <1>6, <3>1
    <3>3. \A m \in {0, 1} : \A i \in 2 .. m : FALSE
      OBVIOUS
    <3> QED
      BY <2>1, <3>2, <3>3, Zenon
  <2> QED
    BY <1>6, <2>1
<1>19. ~pr.astray => rp1 = <<>>
  <2> SUFFICES ASSUME ~pr.astray PROVE Len(rp1) = 0
    BY <1>6
  <2>1. rp = <<>> \/ ~OffLength(Head(rp))
    BY <1>6, <1>17 DEF Whole
  <2> QED
    BY <1>6, <1>16, <1>17, <2>1
<1>8. pr.pc # "unborn" /\ pc # "unborn"
  OBVIOUS
<1>9. Typed(pr1, th, rq1, rp1, lines)
  BY <1>1, <1>4, <1>5, <1>6, <1>8 DEF Typed
<1>10. RegistersFirst(pr1, th, rq1, rp1, known)
  BY <1>4, <1>5, <1>7 DEF Meets, RegistersFirst, Ended
<1>11. ASSUME th.pc \notin Ended, ~pr.astray
       PROVE  Len(th.took) = Len(results)
  <2>1. CASE pr.pc = "registering"
    BY <2>1 DEF Meets, RegistersFirst
  <2>2. CASE pr.pc = "asking"
    <3>1. Len(th.took) = Len(pr.results) + 1
      BY <1>11, <1>16, <1>17, <2>2 DEF Meets, OneOutstanding
    <3>2. Len(results) = Len(pr.results) + 1
      BY <1>2, <2>2
    <3> QED
      BY <3>1, <3>2
  <2> QED
    BY <2>1, <2>2
<1>12. ASSUME Counted(pr1)
       PROVE  OneOutstanding(pr1, th, rq1, rp1)
  <2>1. ~pr.astray
    BY <1>4, <1>12 DEF Counted
  <2> QED
    BY <1>4, <1>5, <1>11, <1>16, <1>17, <1>19, <2>1 DEF OneOutstanding
<1> DEFINE n == Len(pr.results)
<1>20. pr.pc = "asking" =>
         /\ results = Append(pr.results, told) /\ Len(results) = n + 1 /\ n \in Nat
         /\ results[n + 1] = told /\ \A i \in 1 .. n : results[i] = pr.results[i]
  BY <1>2
<1> HIDE DEF n
<1>13. ASSUME ~pr.astray
       PROVE  Told(pr1, th) /\ Whole(rp1)
  <2>1. CASE pr.pc = "registering"
    BY <1>4, <1>13, <1>19, <2>1 DEF Told, Whole
  <2>2. CASE pr.pc = "asking"
    <3>1. told => Has(th, n + 1)
      <4> SUFFICES ASSUME told PROVE Has(th, n + 1)
        OBVIOUS
      <4>1. rp # <<>> /\ th.pc \notin Ended
        BY <1>13, <1>16, <1>17
      <4>2. Len(th.took) = n + 1 /\ (rp[1].ok => th.took[Len(th.took)])
        BY <1>13, <1>17, <2>2, <4>1 DEF Meets, OneOutstanding, n
      <4>3. Head(rp) = rp[1]
        BY <1>6, <4>1
      <4> QED
        BY <1>20, <2>2, <4>2, <4>3 DEF Has
    <3>5. ASSUME NEW i \in 1 .. Len(results), results[i]
          PROVE  Has(th, i)
      <4>1. CASE i = n + 1
        BY <1>20, <2>2, <3>1, <3>5, <4>1
      <4>2. CASE i # n + 1
        <5>1. i \in 1 .. n /\ pr.results[i]
          BY <1>20, <2>2, <3>5, <4>2
        <5> QED
          BY <1>13, <1>17, <5>1 DEF Told, n
      <4> QED
        BY <4>1, <4>2
    <3> QED
      BY <1>4, <1>13, <1>19, <3>5 DEF Told, Whole
  <2> QED
    BY <2>1, <2>2
<1>21. ASSUME pr.pc = "asking"
       PROVE  /\ Len(pr.plan) + n <= 1 /\ Len(th.took) <= n + 1 /\ OneToCount(pr, th, rp)
              /\ th.pc \notin Ended => Len(th.took) + Len(rq) <= n + 1
              /\ Len(pr.plan) \in Nat /\ Len(th.took) \in Nat
  <2>1. Late(pr, th, rq, rp)
    BY DEF Meets
  <2>2. Len(pr.plan) \in Nat /\ Len(th.took) \in Nat
    BY <1>2, <1>3
  <2> QED
    BY <1>21, <2>1, <2>2, Zenon DEF Late, n
<1>22. ASSUME pr.pc = "asking", told
       PROVE  \E i \in 1 .. Len(th.took) : th.took[i] /\ (i <= n => ~pr.results[i])
  <2>1. 1 \in 1 .. Len(rp) /\ rp[1].ok
    BY <1>6, <1>22
  <2> QED
    BY <1>21, <1>22, <2>1 DEF OneToCount, n
<1>14. Owed(pr1, th)
  <2>1. CASE pr.pc = "registering"
    BY <1>4, <2>1 DEF Owed
  <2>2. CASE pr.pc = "asking"
    <3> SUFFICES ASSUME NEW i \in 1 .. Len(results), results[i]
                 PROVE  Has(th, i) \/ \E j \in 1 .. (i - 1) : ~results[j] /\ Has(th, j)
      BY <1>4 DEF Owed
    <3>1. CASE i = n + 1
      <4>1. PICK k \in 1 .. Len(th.took) : th.took[k] /\ (k <= n => ~pr.results[k])
        BY <1>20, <1>22, <2>2, <3>1
      <4>2. Has(th, k)
        BY <1>2, <4>1 DEF Has
      <4>3. k = n + 1 \/ k \in 1 .. n
        BY <1>20, <1>21, <2>2
      <4> QED
        BY <1>20, <2>2, <3>1, <4>1, <4>2, <4>3
    <3>2. CASE i # n + 1
      <4>1. i \in 1 .. n /\ pr.results[i]
        BY <1>20, <2>2, <3>2
      <4>2. Has(th, i) \/ \E j \in 1 .. (i - 1) : ~pr.results[j] /\ Has(th, j)
        BY <4>1 DEF Meets, Owed, n
      <4>3. \A j \in 1 .. (i - 1) : results[j] = pr.results[j]
        BY <1>20, <2>2, <4>1
      <4> QED
        BY <4>2, <4>3
    <3> QED
      BY <3>1, <3>2
  <2> QED
    BY <2>1, <2>2
<1>15. Late(pr1, th, rq1, rp1)
  <2>1. CASE pc # "asking"
    <3>1. pr1.pc # "asking" /\ pr1.pc # "registering"
      BY <1>4, <2>1
    <3> QED
      BY <3>1, Zenon DEF Late
  <2>2. CASE pc = "asking"
    <3>1. /\ pr.plan # <<>> /\ Len(plan) = Len(pr.plan) - 1 /\ Len(pr.plan) \in Nat
          /\ Len(pr.plan) >= 1 /\ Len(rq1) = Len(rq) + 1 /\ Len(rq) \in Nat
      BY <1>3, <1>5, <2>2
    <3>2. CASE pr.pc = "registering"
      <4>1. Len(pr.plan) <= 2 /\ Len(th.took) = 0 /\ Len(results) = 0 /\ results = <<>>
        BY <3>2 DEF Meets, Late, RegistersFirst
      <4>2. Counted(pr)
        BY <3>2 DEF Counted
      <4>3. OneToCount(pr1, th, rp1)
        BY <1>18, <4>2 DEF OneToCount
      <4>4. /\ Len(plan) + Len(results) <= 1 /\ Len(th.took) <= Len(results) + 1
            /\ th.pc \notin Ended => Len(th.took) + Len(rq1) <= Len(results) + 1
        BY <1>16, <3>1, <4>1, <4>2
      <4> QED
        BY <1>4, <2>2, <4>3, <4>4 DEF Late
    <3>3. CASE pr.pc = "asking"
      <4>6. /\ Len(pr.plan) + n <= 1 /\ Len(th.took) <= n + 1
            /\ th.pc \notin Ended => Len(th.took) + Len(rq) <= n + 1
            /\ Len(pr.plan) \in Nat /\ Len(th.took) \in Nat
        BY <1>21, <3>3, Zenon
      <4>7. Len(results) = n + 1 /\ n \in Nat /\ results[n + 1] = told
        BY <1>20, <3>3, Zenon
      <4>8. n = 0 /\ Len(plan) = 0
        <5>1. \A a, b \in Nat : a >= 1 /\ a + b <= 1 => b = 0 /\ a - 1 = 0
          OBVIOUS
        <5> QED
          BY <3>1, <4>6, <4>7, <5>1, Zenon
      <4>1. n = 0 /\ Len(plan) = 0 /\ Len(th.took) <= 1 /\ Len(results) = 1 /\ results[1] = told
        BY <4>6, <4>7, <4>8
      <4>2. pr.results = <<>>
        BY <1>2, <4>1 DEF n
      <4>3. ASSUME NEW j \in 1 .. Len(rp1), rp1[j].ok
            PROVE  /\ ~OffLength(rp1[j])
                   /\ \E i \in 1 .. Len(th.took) :
                        th.took[i] /\ (i <= Len(results) => ~results[i])
        <5>1. PICK k \in 2 .. Len(rp) : rp1[j] = rp[k]
          BY <1>6, <4>3, Zenon
        <5>2. k \in 1 .. Len(rp) /\ k # 1 /\ rp[k].ok /\ 1 \in 1 .. Len(rp)
          BY <1>6, <4>3, <5>1
        <5>3. ~told
          <6> SUFFICES ASSUME told PROVE FALSE
            OBVIOUS
          <6>1. rp[1].ok
            <7>1. rp # <<>> /\ Head(rp).ok
              OBVIOUS
            <7>2. Head(rp) = rp[1]
              BY <1>6, <7>1
            <7> QED
              BY <7>1, <7>2
          <6> QED
            BY <1>21, <3>3, <4>2, <5>2, <6>1 DEF OneToCount
        <5>4. ~OffLength(rp[k]) /\ \E i \in 1 .. Len(th.took) : th.took[i]
          BY <1>21, <3>3, <5>2 DEF OneToCount
        <5>5. \A i \in 1 .. Len(th.took) : i = 1
          BY <1>21, <3>3, <4>1
        <5> QED
          BY <4>1, <5>1, <5>3, <5>4, <5>5
      <4>4. OneToCount(pr1, th, rp1)
        <5>1. results # <<>>
          BY <4>1
        <5> QED
          BY <1>4, <4>3, <5>1, Zenon DEF OneToCount
      <4>5. /\ Len(plan) + Len(results) <= 1 /\ Len(th.took) <= Len(results) + 1
            /\ th.pc \notin Ended => Len(th.took) + Len(rq1) <= Len(results) + 1
        <5>1. 0 + 1 <= 1 /\ \A a \in Nat : a <= 1 => a <= 1 + 1
          OBVIOUS
        <5>2. \A a, b \in Nat : a + b <= 0 + 1 => a + (b + 1) <= 1 + 1
          OBVIOUS
        <5> QED
          BY <3>1, <4>1, <4>6, <5>1, <5>2, ZenonT(30)
      <4> QED
        BY <1>4, <2>2, <4>4, <4>5 DEF Late
    <3> QED
      BY <3>2, <3>3
  <2> QED
    BY <2>1, <2>2
<1> QED
  BY <1>4, <1>9, <1>10, <1>12, <1>13, <1>14, <1>15 DEF Meets

-----------------------------------------------------------------------------
(* The store under the sessions *)

(* Only boot ids of command lines are ever registered. *)
OwnBoots ==
  \A w \in Workers :
    \/ workerBootRegistry[w] = NoBoot
    \/ \E q \in Procs : \E cl \in CommandLines[q] : workerBootRegistry[w] = cl.boot

(* What was accepted lies behind the fence, and nothing twice. *)
LedgerFenced ==
  /\ ledger \in Seq(Workers \X Boots \X Nat)
  /\ \A i \in 1 .. Len(ledger) :
       ledger[i][3] <= lastObservedGeneration[<<ledger[i][1], ledger[i][2]>>]
  /\ AtMostOnce

StoreServes ==
  /\ Inv /\ KnownIds /\ OwnBoots
  /\ now \in Timestamps
  /\ DOMAIN uuidIndex \subseteq DOMAIN devices

(* A call of the store, as a process with the command line cl causes them. *)
Call(cl) ==
  \/ RegisterWorker(cl.worker, cl.boot)
  \/ RegisterDevice(cl.uuid)
  \/ ReassessAll
  \/ AcceptObservation(cl.uuid, Envelope(cl), now, Report)
  \/ RecordValidation(cl.uuid, ItsValidation(cl))
  \/ RecordFault(cl.uuid, ItsFault(cl))
  \/ InvalidateWorker(cl.worker, cl.boot)

(* An envelope that is admitted names the process's own incarnation, within    *)
(* the bounds.                                                                 *)
LEMMA OwnEnvelope ==
  ASSUME StoreServes, NEW p \in Procs, NEW cl \in CommandLines[p],
         Admits(cl.uuid, Envelope(cl))
  PROVE  /\ Envelope(cl) \in Envelopes
         /\ Envelope(cl).worker = cl.worker /\ Envelope(cl).boot = cl.boot
         /\ Envelope(cl).observationGeneration = cl.obsgen
<1> DEFINE env == Envelope(cl)
<1>1. /\ cl.worker \in Workers /\ cl.boot \in Boots
      /\ cl.obsgen \in 0 .. MaxObservationGeneration
      /\ cl.devicegen \in 0 .. MaxDeviceGeneration
      /\ cl.boot + 1000 # NoBoot
      /\ \A q \in Procs : \A other \in CommandLines[q] : other.boot # cl.boot + 1000
  BY SessionAssumption DEF SessionAssumption
<1>2. /\ env = [epoch |-> env.epoch, worker |-> env.worker, boot |-> env.boot,
                observationGeneration |-> env.observationGeneration,
                deviceGeneration |-> env.deviceGeneration]
      /\ env.worker = cl.worker /\ env.observationGeneration = cl.obsgen
      /\ env.deviceGeneration \in {0, cl.devicegen}
      /\ env.boot = IF cl.mode = "stale-boot" THEN cl.boot + 1000 ELSE cl.boot
  BY DEF Envelope
<1> HIDE DEF env
<1>3. Admits(cl.uuid, env)
  BY DEF env
<1>4. env.boot = cl.boot
  BY <1>1, <1>2, <1>3 DEF Admits, StoreServes, OwnBoots
<1>5. env.epoch \in Epochs
  BY <1>3 DEF Admits, StoreServes, Inv, StoreInv, TypeOK
<1>6. env.observationGeneration \in 1 .. MaxObservationGeneration
  <2>1. lastObservedGeneration[<<env.worker, env.boot>>] \in Nat
    BY <1>1, <1>2, <1>4 DEF StoreServes, Inv, StoreInv, TypeOK
  <2>2. MaxObservationGeneration \in Nat
    BY ConstantsAssumption DEF ConstantsAssumption
  <2> QED
    BY <1>1, <1>2, <1>3, <2>1, <2>2 DEF Admits
<1>7. env.deviceGeneration \in 0 .. MaxDeviceGeneration
  BY <1>1, <1>2, ConstantsAssumption DEF ConstantsAssumption
<1>8. env \in Envelopes
  BY <1>1, <1>2, <1>4, <1>5, <1>6, <1>7 DEF Envelopes
<1> QED
  BY <1>2, <1>4, <1>8 DEF env

(* Every call is an operation of the store, *)
LEMMA CallNext ==
  ASSUME StoreServes, NEW p \in Procs, NEW cl \in CommandLines[p], Call(cl)
  PROVE  Next
<1>1. /\ cl.worker \in Workers /\ cl.boot \in Boots /\ cl.uuid \in Uuids
      /\ ItsFault(cl) \in Faults /\ ItsValidation(cl) \in Validations /\ Report \in Reports
  BY SessionAssumption DEF SessionAssumption
<1>2. CASE AcceptObservation(cl.uuid, Envelope(cl), now, Report)
  <2>1. Admits(cl.uuid, Envelope(cl)) /\ now \in Timestamps
    BY <1>2 DEF AcceptObservation, StoreServes
  <2>2. Envelope(cl) \in Envelopes /\ cl.uuid \in DOMAIN devices
    BY <2>1, OwnEnvelope DEF Admits
  <2>3. DeviceNext(cl.uuid)
    BY <1>1, <1>2, <2>1, <2>2 DEF DeviceNext
  <2> QED
    BY <2>2, <2>3 DEF Next
<1>3. CASE RecordValidation(cl.uuid, ItsValidation(cl)) \/ RecordFault(cl.uuid, ItsFault(cl))
  <2>1. cl.uuid \in DOMAIN devices /\ DeviceNext(cl.uuid)
    BY <1>1, <1>3 DEF DeviceNext, RecordValidation, RecordFault
  <2> QED
    BY <2>1 DEF Next
<1> QED
  BY <1>1, <1>2, <1>3 DEF Call, Next

(* that forgets no device, and moves the fence only when it accepts. *)
LEMMA CallKept ==
  ASSUME StoreServes, NEW p \in Procs, NEW cl \in CommandLines[p], Call(cl) \/ UNCHANGED vars
  PROVE  /\ [Next]_vars /\ StoreServes' /\ DOMAIN devices \subseteq DOMAIN devices'
         /\ \A wb \in Workers \X Boots :
              lastObservedGeneration'[wb] >= lastObservedGeneration[wb]
<1>1. 0 \notin Uuids /\ cl.worker \in Workers /\ cl.boot \in Boots /\ cl.uuid \in Uuids
  BY SessionAssumption DEF SessionAssumption
<1>2. [Next]_vars /\ Inv' /\ KnownIds' /\ StoreStep
  <2>1. [Next]_vars
    BY CallNext
  <2> QED
    BY <1>1, <2>1, NextInv, NextStep, KnownIdsStep DEF StoreServes, Inv
<1>3. now' = now
  BY DEF Call, RegisterWorker, RegisterDevice, ReassessAll, AcceptObservation,
         RecordValidation, RecordFault, InvalidateWorker, vars
<1>4. /\ DOMAIN devices \subseteq DOMAIN devices'
      /\ DOMAIN uuidIndex' \subseteq DOMAIN devices'
  <2>1. CASE RegisterDevice(cl.uuid)
    <3>1. cl.uuid # 0
      BY <1>1
    <3> QED
      BY <2>1, <3>1 DEF RegisterDevice, StoreServes
  <2>2. CASE Call(cl) /\ ~RegisterDevice(cl.uuid)
    <3>1. DOMAIN devices' = DOMAIN devices /\ uuidIndex' = uuidIndex
      BY <2>2 DEF Call, RegisterWorker, ReassessAll, AllAssessed, AcceptObservation,
         RecordValidation, RecordFault, InvalidateWorker, identityVars
    <3> QED
      BY <3>1 DEF StoreServes
  <2>3. CASE UNCHANGED vars
    BY <2>3 DEF vars, StoreServes
  <2> QED
    BY <2>1, <2>2, <2>3
<1>5. OwnBoots'
  <2>1. \/ workerBootRegistry' = workerBootRegistry
        \/ workerBootRegistry' = [workerBootRegistry EXCEPT ![cl.worker] = cl.boot]
        \/ workerBootRegistry' = [workerBootRegistry EXCEPT ![cl.worker] = NoBoot]
    BY DEF Call, RegisterWorker, RegisterDevice, ReassessAll, AcceptObservation,
         RecordValidation, RecordFault, InvalidateWorker, registryVars, vars
  <2>2. workerBootRegistry \in [Workers -> Boots \cup {NoBoot}]
    BY DEF StoreServes, Inv, StoreInv, TypeOK
  <2> QED
    BY <1>1, <2>1, <2>2 DEF StoreServes, OwnBoots
<1>6. \A wb \in Workers \X Boots : lastObservedGeneration'[wb] >= lastObservedGeneration[wb]
  BY <1>2 DEF StoreStep, RestStep
<1> QED
  BY <1>2, <1>3, <1>4, <1>5, <1>6 DEF StoreServes

-----------------------------------------------------------------------------
(* The steps of a session *)

ProcsMeet ==
  /\ proc = [p \in Procs |-> proc[p]] /\ thread = [p \in Procs |-> thread[p]]
  /\ requests = [p \in Procs |-> requests[p]] /\ replies = [p \in Procs |-> replies[p]]
  /\ \A p \in Procs :
       Meets(proc[p], thread[p], requests[p], replies[p], CommandLines[p], DOMAIN devices)

(* A step of p and its thread leaves the other processes alone. *)
Apart(p) ==
  /\ proc' = [proc EXCEPT ![p] = proc'[p]] /\ thread' = [thread EXCEPT ![p] = thread'[p]]
  /\ requests' = [requests EXCEPT ![p] = requests'[p]]
  /\ replies' = [replies EXCEPT ![p] = replies'[p]]

(* Devices that become known disturb nobody. *)
LEMMA KnownGrows ==
  ASSUME NEW pr, NEW th, NEW rq, NEW rp, NEW lines, NEW known, NEW more,
         Meets(pr, th, rq, rp, lines, known), known \subseteq more
  PROVE  Meets(pr, th, rq, rp, lines, more)
BY DEF Meets, RegistersFirst

(* So what is left to show of a step is what it does to p. *)
LEMMA ApartMeets ==
  ASSUME ProcsMeet, NEW p \in Procs, Apart(p), DOMAIN devices \subseteq DOMAIN devices',
         Meets(proc'[p], thread'[p], requests'[p], replies'[p], CommandLines[p],
               DOMAIN devices')
  PROVE  ProcsMeet'
<1>2. /\ proc' = [q \in Procs |-> proc'[q]] /\ thread' = [q \in Procs |-> thread'[q]]
      /\ requests' = [q \in Procs |-> requests'[q]] /\ replies' = [q \in Procs |-> replies'[q]]
      /\ \A q \in Procs : q # p =>
           /\ proc'[q] = proc[q] /\ thread'[q] = thread[q]
           /\ requests'[q] = requests[q] /\ replies'[q] = replies[q]
  BY DEF ProcsMeet, Apart
<1>3. ASSUME NEW q \in Procs
      PROVE  Meets(proc'[q], thread'[q], requests'[q], replies'[q], CommandLines[q],
                   DOMAIN devices')
  <2>1. CASE q = p
    BY <2>1
  <2>2. CASE q # p
    <3>1. Meets(proc[q], thread[q], requests[q], replies[q], CommandLines[q], DOMAIN devices)
      BY DEF ProcsMeet
    <3> QED
      BY <1>2, <2>2, <3>1, KnownGrows
  <2> QED
    BY <2>1, <2>2
<1> QED
  BY <1>2, <1>3 DEF ProcsMeet

(* What the program does, and what befalls it and its frames. *)
LEMMA ProgramMeets ==
  ASSUME ProcsMeet, NEW p \in Procs,
         \/ \E cl \in CommandLines[p] : Start(p, cl)
         \/ ProgramStep(p) \/ Kill(p) \/ Damage(p)
  PROVE  ProcsMeet' /\ UNCHANGED <<vars, thread, ledger>> /\ Apart(p)
<1> DEFINE pr == proc[p]
           th == thread[p]
           rq == requests[p]
           rp == replies[p]
           lines == CommandLines[p]
           known == DOMAIN devices
<1>1. /\ Meets(pr, th, rq, rp, lines, known)
      /\ proc = [q \in Procs |-> proc[q]] /\ thread = [q \in Procs |-> thread[q]]
      /\ requests = [q \in Procs |-> requests[q]] /\ replies = [q \in Procs |-> replies[q]]
  BY DEF ProcsMeet
<1>2. UNCHANGED <<vars, thread, ledger>>
  BY DEF Start, ProgramStep, GetRegistered, GetReply, HoldOver, Proceed, Kill, Damage
<1>3. thread'[p] = th /\ thread' = [thread EXCEPT ![p] = thread'[p]] /\ devices' = devices
  BY <1>1, <1>2 DEF vars
<1>4. ASSUME NEW cl \in lines, Start(p, cl)
      PROVE  Apart(p) /\ Meets(proc'[p], th, requests'[p], replies'[p], lines, known)
  <2> DEFINE pr1 == [cl |-> cl, pc |-> "registering", plan |-> Plan(cl.mode), results |-> <<>>,
                     astray |-> FALSE]
  <2>1. /\ pr.pc = "unborn" /\ proc' = [proc EXCEPT ![p] = pr1]
        /\ requests' = [requests EXCEPT ![p] = <<"REGISTER">>] /\ replies' = replies
    BY <1>4 DEF Start
  <2> HIDE DEF pr1
  <2>2. /\ proc'[p] = pr1 /\ requests'[p] = <<"REGISTER">> /\ replies'[p] = rp /\ Apart(p)
    BY <1>1, <1>3, <2>1 DEF Apart
  <2>3. pr1 = [cl |-> cl, pc |-> "registering", plan |-> Plan(cl.mode), results |-> <<>>,
               astray |-> FALSE]
    BY DEF pr1
  <2> HIDE DEF pr, th, rq, rp, lines, known
  <2>4. Meets(pr1, th, <<"REGISTER">>, rp, lines, known)
    BY <1>1, <1>4, <2>1, <2>3, StartMeets
  <2> QED
    BY <2>2, <2>4
<1>5. ASSUME GetRegistered(p) \/ GetReply(p)
      PROVE  Apart(p) /\ Meets(proc'[p], th, requests'[p], replies'[p], lines, known)
  <2> DEFINE told == rp # <<>> /\ Head(rp).ok
  <2>1. PICK results :
          /\ \/ pr.pc = "registering" /\ results = <<>>
             \/ pr.pc = "asking" /\ results = Append(pr.results, told)
          /\ rp # <<>> \/ th.pc = "closed"
          /\ Proceed(p, results)
    BY <1>5 DEF GetRegistered, GetReply, Answered, Outcome
  <2> DEFINE pc == IF pr.plan # <<>> THEN "asking"
                   ELSE IF pr.pc = "asking" /\ pr.cl.mode = "live" THEN "holding"
                   ELSE "exited"
             plan == IF pr.plan = <<>> THEN pr.plan ELSE Tail(pr.plan)
             rq1 == IF pr.plan = <<>> THEN rq ELSE Append(rq, Head(pr.plan))
             pr1 == [pr EXCEPT !.results = results, !.plan = plan, !.pc = pc]
  <2>11. PICK rp1 \in Left(rp) : replies' = [replies EXCEPT ![p] = rp1]
    BY <2>1 DEF Proceed
  <2>2. /\ replies' = [replies EXCEPT ![p] = rp1]
        /\ requests' = [requests EXCEPT ![p] = rq1]
        /\ proc' = [proc EXCEPT ![p] = pr1]
    BY <1>1, <2>1, <2>11 DEF Proceed
  <2>3. /\ pc \in {"asking", "holding", "exited"}
        /\ pc = "holding" => pr.plan = <<>>
        /\ pc = "asking" => pr.plan # <<>>
    OBVIOUS
  <2>4. /\ rq1 = IF pr.plan = <<>> THEN rq ELSE Append(rq, Head(pr.plan))
        /\ pr1 = [pr EXCEPT !.results = results, !.plan = plan, !.pc = pc]
        /\ plan = IF pr.plan = <<>> THEN pr.plan ELSE Tail(pr.plan)
    OBVIOUS
  <2> HIDE DEF pc, plan, rq1, pr1
  <2>5. proc'[p] = pr1 /\ requests'[p] = rq1 /\ replies'[p] = rp1 /\ Apart(p)
    BY <1>1, <1>3, <2>2 DEF Apart
  <2>6. told \in BOOLEAN /\ (told => rp # <<>> /\ Head(rp).ok)
    <3>1. told \in BOOLEAN
      OBVIOUS
    <3>2. told => rp # <<>> /\ Head(rp).ok
      OBVIOUS
    <3> QED
      BY <3>1, <3>2
  <2> HIDE DEF told
  <2>9. \/ pr.pc = "registering" /\ results = <<>>
        \/ pr.pc = "asking" /\ results = Append(pr.results, told)
    BY <2>1
  <2>7. rp # <<>> \/ th.pc = "closed"
    BY <2>1
  <2>10. GoesOn(pr, th, rq, rp, told, results, plan, pc, pr1, rq1, rp1)
    BY <2>3, <2>4, <2>6, <2>7, <2>9, <2>11 DEF GoesOn
  <2> HIDE DEF pr, th, rq, rp, lines, known
  <2>8. Meets(pr1, th, rq1, rp1, lines, known)
    BY <1>1, <2>10, ProceedMeets
  <2> QED
    BY <2>5, <2>8
<1>6. ASSUME HoldOver(p) \/ Kill(p)
      PROVE  Apart(p) /\ Meets(proc'[p], th, requests'[p], replies'[p], lines, known)
  <2> DEFINE pr1 == [pr EXCEPT !.pc = "exited"]
  <2>1. /\ pr.pc # "unborn" /\ proc' = [proc EXCEPT ![p] = pr1]
        /\ \E unread \in {rp, <<>>} : replies' = [replies EXCEPT ![p] = unread]
        /\ \E left \in {rq, <<>>} : requests' = [requests EXCEPT ![p] = left]
    BY <1>1, <1>6 DEF HoldOver, Kill, wireVars
  <2>2. PICK left \in {rq, <<>>} : requests' = [requests EXCEPT ![p] = left]
    BY <2>1
  <2>6. PICK unread \in {rp, <<>>} : replies' = [replies EXCEPT ![p] = unread]
    BY <2>1
  <2>3. pr1 = [pr EXCEPT !.pc = "exited"]
    OBVIOUS
  <2> HIDE DEF pr1
  <2>4. proc'[p] = pr1 /\ requests'[p] = left /\ replies'[p] = unread /\ Apart(p)
    BY <1>1, <1>3, <2>1, <2>2, <2>6 DEF Apart
  <2> HIDE DEF pr, th, rq, rp, lines, known
  <2>5. Meets(pr1, th, left, unread, lines, known)
    BY <1>1, <2>1, <2>3, ExitMeets
  <2> QED
    BY <2>4, <2>5
<1>7. ASSUME Damage(p)
      PROVE  Apart(p) /\ Meets(proc'[p], th, requests'[p], replies'[p], lines, known)
  <2>1. PICK kind \in {"DAMAGED", "MISCOUNTED"} :
          /\ proc' = [proc EXCEPT ![p].astray = @ \/ kind = "MISCOUNTED"]
          /\ \/ /\ rq # <<>> /\ requests' = [requests EXCEPT ![p] = <<kind>> \o Tail(@)]
                /\ replies' = replies
             \/ /\ rp # <<>> /\ requests' = requests
                /\ replies' = [replies EXCEPT ![p] =
                     <<[type |-> kind, ok |-> FALSE]>> \o Tail(@)]
    BY <1>7 DEF Damage
  <2> DEFINE bad == <<[type |-> kind, ok |-> FALSE]>> \o Tail(rp)
             worse == <<kind>> \o Tail(rq)
             astray == pr.astray \/ kind = "MISCOUNTED"
             pr1 == [pr EXCEPT !.astray = astray]
  <2>2. /\ proc' = [proc EXCEPT ![p] = pr1]
        /\ \/ /\ rq # <<>> /\ requests' = [requests EXCEPT ![p] = worse] /\ replies' = replies
           \/ /\ rp # <<>> /\ replies' = [replies EXCEPT ![p] = bad] /\ requests' = requests
    BY <1>1, <2>1
  <2>3. /\ bad = <<[type |-> kind, ok |-> FALSE]>> \o Tail(rp) /\ worse = <<kind>> \o Tail(rq)
        /\ pr1 = [pr EXCEPT !.astray = astray]
    OBVIOUS
  <2>8. astray \in BOOLEAN /\ (pr.astray \/ kind = "MISCOUNTED" => astray)
    <3>1. pr.astray \in BOOLEAN
      BY <1>1 DEF Meets, Typed, ProcType
    <3> QED
      BY <3>1, Zenon
  <2> HIDE DEF bad, worse, astray, pr1
  <2>4. /\ Apart(p) /\ proc'[p] = pr1
        /\ \/ rq # <<>> /\ requests'[p] = worse /\ replies'[p] = rp
           \/ rp # <<>> /\ requests'[p] = rq /\ replies'[p] = bad
    BY <1>1, <1>3, <2>2 DEF Apart
  <2> DEFINE rq1 == requests'[p]
             rp1 == replies'[p]
  <2>5. \/ rq # <<>> /\ rq1 = <<kind>> \o Tail(rq) /\ rp1 = rp
        \/ /\ rp # <<>> /\ rq1 = rq
           /\ rp1 = <<[type |-> kind, ok |-> FALSE]>> \o Tail(rp)
    BY <2>3, <2>4
  <2> HIDE DEF rq1, rp1, pr, th, rq, rp, lines, known
  <2>6. Meets(pr1, th, rq1, rp1, lines, known)
    <3>1. Meets(pr, th, rq, rp, lines, known)
      BY <1>1
    <3>2. pr1 = [pr EXCEPT !.astray = astray]
      BY <2>3
    <3>3. astray \in BOOLEAN /\ (pr.astray \/ kind = "MISCOUNTED" => astray)
      BY <2>8
    <3> QED
      BY <2>5, <3>1, <3>2, <3>3, DamageMeets
  <2> QED
    BY <2>4, <2>6 DEF rq1, rp1
<1>8. Apart(p) /\ Meets(proc'[p], th, requests'[p], replies'[p], lines, known)
  BY <1>4, <1>5, <1>6, <1>7 DEF ProgramStep
<1>9. ProcsMeet'
  BY <1>3, <1>8, ApartMeets
<1> QED
  BY <1>2, <1>8, <1>9

(* A thread that has a request of the plan before it has a worker registered,  *)
(* and that worker's device is known.                                          *)
LEMMA AskedKnown ==
  ASSUME NEW lines, NEW known, NEW pr, NEW th, NEW rq, NEW rp,
         Meets(pr, th, rq, rp, lines, known),
         th.pc = "idle", rq # <<>>, Head(rq) \in Asked
  PROVE  th.haveWorker = TRUE /\ pr.cl.uuid \in known
<1>1. Typed(pr, th, rq, rp, lines)
  BY DEF Meets
<1>2. rq[1] \notin {"REGISTER", "DAMAGED", "MISCOUNTED"}
  BY <1>1 DEF Typed, Asked
<1>3. rq \notin {<<>>, <<"REGISTER">>, <<"DAMAGED">>, <<"MISCOUNTED">>}
  BY <1>2
<1> QED
  BY <1>1, <1>3 DEF Meets, RegistersFirst, Typed, ThreadType

(* The command line of a process that is served is one of its own. *)
LEMMA ServedLine ==
  ASSUME ProcsMeet, NEW p \in Procs, thread[p].pc # "none" \/ proc[p].pc # "unborn"
  PROVE  proc[p].cl \in CommandLines[p]
BY DEF ProcsMeet, Meets, Typed, NoThread

(* Of the store, a step of a thread is one call or none. *)
LEMMA ThreadCalls ==
  ASSUME ProcsMeet, NEW p \in Procs, ThreadStep(p)
  PROVE  /\ proc[p].cl \in CommandLines[p] /\ proc' = proc
         /\ Call(proc[p].cl) \/ UNCHANGED vars
<1>1. proc[p].cl \in CommandLines[p]
  <2>1. thread[p].pc # "none" \/ proc[p].pc # "unborn"
    BY DEF ThreadStep, Accept, HandleRegister, RegisterItsDevice, FinishRegister,
           HandleObservation, HandleValidation, HandleFault, HandleSnapshot,
           DropUnreadable, RecvFails, EndThread, Takes
  <2> QED
    BY <2>1, ServedLine
<1>2. proc' = proc
  BY DEF ThreadStep, Accept, HandleRegister, RegisterItsDevice, FinishRegister,
         HandleObservation, HandleValidation, HandleFault, HandleSnapshot,
         DropUnreadable, RecvFails, EndThread
<1> HIDE DEF vars
<1>3. CASE Accept(p) \/ HandleSnapshot(p) \/ DropUnreadable(p) \/ RecvFails(p)
  BY <1>1, <1>2, <1>3 DEF Accept, HandleSnapshot, DropUnreadable, RecvFails
<1>4. CASE HandleRegister(p)
  BY <1>1, <1>2, <1>4 DEF HandleRegister, Call
<1>5. CASE RegisterItsDevice(p)
  BY <1>1, <1>2, <1>5 DEF RegisterItsDevice, Call
<1>6. CASE FinishRegister(p)
  BY <1>1, <1>2, <1>6 DEF FinishRegister, Call
<1>7. CASE HandleObservation(p)
  BY <1>1, <1>2, <1>7 DEF HandleObservation, Call
<1>8. CASE HandleValidation(p)
  BY <1>1, <1>2, <1>8 DEF HandleValidation, Call
<1>9. CASE HandleFault(p)
  BY <1>1, <1>2, <1>9 DEF HandleFault, Call
<1>10. CASE EndThread(p)
  BY <1>1, <1>2, <1>10 DEF EndThread, Call
<1> QED
  BY <1>3, <1>4, <1>5, <1>6, <1>7, <1>8, <1>9, <1>10 DEF ThreadStep

(* The handlers that answer a request of the plan, *)
LEMMA AnswerKept ==
  ASSUME ProcsMeet, NEW p \in Procs, proc' = proc, DOMAIN devices \subseteq DOMAIN devices',
         NEW type \in Asked, Takes(p, type),
         NEW taken \in BOOLEAN, NEW reply \in ReplyType, ~OffLength(reply), reply.ok => taken,
         thread' = [thread EXCEPT ![p].took = Append(@, taken)],
         replies' = [replies EXCEPT ![p] =
           IF proc[p].pc = "exited" THEN @ ELSE Append(@, reply)]
  PROVE  ProcsMeet'
<1> DEFINE pr == proc[p]
           th == thread[p]
           rq == requests[p]
           rp == replies[p]
           lines == CommandLines[p]
           known == DOMAIN devices'
           th1 == [th EXCEPT !.took = Append(th.took, taken)]
           rp1 == IF pr.pc = "exited" THEN rp ELSE Append(rp, reply)
<1>1. /\ Meets(pr, th, rq, rp, lines, known)
      /\ proc = [q \in Procs |-> proc[q]] /\ thread = [q \in Procs |-> thread[q]]
      /\ requests = [q \in Procs |-> requests[q]] /\ replies = [q \in Procs |-> replies[q]]
  BY KnownGrows DEF ProcsMeet
<1>2. th.pc = "idle" /\ rq # <<>> /\ Head(rq) \in Asked
      /\ requests' = [requests EXCEPT ![p] = Tail(rq)]
  BY <1>1 DEF Takes
<1>3. thread'[p] = th1 /\ thread' = [thread EXCEPT ![p] = th1]
      /\ replies'[p] = rp1 /\ replies' = [replies EXCEPT ![p] = rp1]
  BY <1>1
<1>4. /\ th1 = [th EXCEPT !.took = Append(th.took, taken)]
      /\ rp1 = IF pr.pc = "exited" THEN rp ELSE Append(rp, reply)
  OBVIOUS
<1> HIDE DEF th1, rp1
<1>5. Apart(p) /\ proc'[p] = pr /\ requests'[p] = Tail(rq)
  BY <1>1, <1>2, <1>3 DEF Apart
<1> HIDE DEF pr, th, rq, rp, lines, known
<1>6. Meets(pr, th1, Tail(rq), rp1, lines, known)
  BY <1>1, <1>2, <1>4, AnswerMeets
<1>7. Meets(proc'[p], thread'[p], requests'[p], replies'[p], CommandLines[p], DOMAIN devices')
  BY <1>3, <1>5, <1>6 DEF lines, known
<1> QED
  BY <1>5, <1>7, ApartMeets

(* those that leave the loop, *)
LEMMA CloseKept ==
  ASSUME ProcsMeet, NEW p \in Procs, proc' = proc, DOMAIN devices \subseteq DOMAIN devices',
         replies' = replies, NEW pc \in Ended, thread' = [thread EXCEPT ![p].pc = pc],
         \/ thread[p].pc = "idle" /\ (requests[p] # <<>> \/ proc[p].pc = "exited")
         \/ thread[p].pc = "closing",
         \/ requests' = requests
         \/ requests[p] # <<>> /\ requests' = [requests EXCEPT ![p] = Tail(@)]
  PROVE  ProcsMeet'
<1> DEFINE pr == proc[p]
           th == thread[p]
           rq == requests[p]
           rp == replies[p]
           lines == CommandLines[p]
           known == DOMAIN devices'
           th1 == [th EXCEPT !.pc = pc]
           rq1 == requests'[p]
<1>1. /\ Meets(pr, th, rq, rp, lines, known)
      /\ proc = [q \in Procs |-> proc[q]] /\ thread = [q \in Procs |-> thread[q]]
      /\ requests = [q \in Procs |-> requests[q]] /\ replies = [q \in Procs |-> replies[q]]
  BY KnownGrows DEF ProcsMeet
<1>2. /\ th1 = [th EXCEPT !.pc = pc] /\ thread'[p] = th1
      /\ thread' = [thread EXCEPT ![p] = th1]
  BY <1>1
<1>3. rq1 = rq \/ (rq # <<>> /\ rq1 = Tail(rq))
  BY <1>1
<1>4. Apart(p) /\ proc'[p] = pr /\ replies'[p] = rp
  BY <1>1, <1>2 DEF Apart
<1>5. \/ th.pc = "idle" /\ (rq # <<>> \/ pr.pc = "exited")
      \/ th.pc = "closing"
  OBVIOUS
<1> HIDE DEF pr, th, rq, rp, lines, known, th1, rq1
<1>6. Meets(pr, th1, rq1, rp, lines, known)
  <2>1. Meets(pr, th, rq, rp, lines, known) /\ th1 = [th EXCEPT !.pc = pc]
    BY <1>1, <1>2
  <2> QED
    BY <1>3, <1>5, <2>1, CloseMeets
<1>7. Meets(proc'[p], thread'[p], requests'[p], replies'[p], CommandLines[p], DOMAIN devices')
  BY <1>2, <1>4, <1>6 DEF lines, known, rq1
<1> QED
  BY <1>4, <1>7, ApartMeets

(* and those of REGISTER. *)
LEMMA RegisterKept ==
  ASSUME ProcsMeet, StoreServes', NEW p \in Procs, DOMAIN devices \subseteq DOMAIN devices',
         Accept(p) \/ HandleRegister(p) \/ RegisterItsDevice(p) \/ FinishRegister(p)
           \/ DropUnreadable(p)
  PROVE  ProcsMeet'
<1> DEFINE pr == proc[p]
           th == thread[p]
           rq == requests[p]
           rp == replies[p]
           lines == CommandLines[p]
           known == DOMAIN devices'
           Done == Apart(p) /\ Meets(pr, thread'[p], requests'[p], replies'[p], lines, known)
<1>1. /\ Meets(pr, th, rq, rp, lines, known)
      /\ proc = [q \in Procs |-> proc[q]] /\ thread = [q \in Procs |-> thread[q]]
      /\ requests = [q \in Procs |-> requests[q]] /\ replies = [q \in Procs |-> replies[q]]
  BY KnownGrows DEF ProcsMeet
<1>2. proc' = proc /\ proc'[p] = pr
  BY DEF Accept, HandleRegister, RegisterItsDevice, FinishRegister, DropUnreadable
<1>3. ASSUME Accept(p) PROVE Done
  <2> DEFINE th1 == [th EXCEPT !.pc = "idle"]
  <2>1. /\ th.pc = "none" /\ pr.pc # "unborn" /\ thread' = [thread EXCEPT ![p] = th1]
        /\ requests' = requests /\ replies' = replies
    BY <1>1, <1>3 DEF Accept, wireVars
  <2>2. th1 = [th EXCEPT !.pc = "idle"]
    OBVIOUS
  <2> HIDE DEF th1
  <2>3. Apart(p) /\ thread'[p] = th1 /\ requests'[p] = rq /\ replies'[p] = rp
    BY <1>1, <1>2, <2>1 DEF Apart
  <2> HIDE DEF pr, th, rq, rp, lines, known
  <2>4. Meets(pr, th1, rq, rp, lines, known)
    BY <1>1, <2>1, <2>2, AcceptMeets
  <2> QED
    BY <2>3, <2>4
<1>4. ASSUME HandleRegister(p) PROVE Done
  <2> DEFINE th1 == [th EXCEPT !.pc = "devices", !.haveWorker = TRUE]
  <2>1. /\ th.pc = "idle" /\ rq # <<>> /\ Head(rq) = "REGISTER"
        /\ thread' = [thread EXCEPT ![p] = th1]
        /\ requests' = [requests EXCEPT ![p] = Tail(rq)] /\ replies' = replies
    BY <1>1, <1>4 DEF HandleRegister, Takes
  <2>2. th1 = [th EXCEPT !.pc = "devices", !.haveWorker = TRUE]
    OBVIOUS
  <2> HIDE DEF th1
  <2>3. Apart(p) /\ thread'[p] = th1 /\ requests'[p] = Tail(rq) /\ replies'[p] = rp
    BY <1>1, <1>2, <2>1 DEF Apart
  <2> HIDE DEF pr, th, rq, rp, lines, known
  <2>4. Meets(pr, th1, Tail(rq), rp, lines, known)
    BY <1>1, <2>1, <2>2, RegisterMeets
  <2> QED
    BY <2>3, <2>4
<1>5. ASSUME RegisterItsDevice(p) PROVE Done
  <2> DEFINE th1 == [th EXCEPT !.pc = "listed"]
  <2>1. /\ th.pc = "devices" /\ thread' = [thread EXCEPT ![p] = th1]
        /\ requests' = requests /\ replies' = replies
    BY <1>1, <1>5 DEF RegisterItsDevice, wireVars
  <2>2. th1 = [th EXCEPT !.pc = "listed"]
    OBVIOUS
  <2>3. pr.cl.uuid \in DOMAIN uuidIndex'
    <3>1. CASE pr.cl.uuid \in DOMAIN uuidIndex
      BY <1>5, <3>1 DEF RegisterItsDevice, vars
    <3>2. CASE pr.cl.uuid \notin DOMAIN uuidIndex
      <4>1. RegisterDevice(pr.cl.uuid)
        BY <1>5, <3>2 DEF RegisterItsDevice
      <4> QED
        BY <4>1 DEF RegisterDevice
    <3> QED
      BY <3>1, <3>2
  <2>4. pr.cl.uuid \in known
    BY <2>3 DEF StoreServes
  <2> HIDE DEF th1
  <2>5. Apart(p) /\ thread'[p] = th1 /\ requests'[p] = rq /\ replies'[p] = rp
    BY <1>1, <1>2, <2>1 DEF Apart
  <2> HIDE DEF pr, th, rq, rp, lines, known
  <2>6. Meets(pr, th1, rq, rp, lines, known)
    BY <1>1, <2>1, <2>2, <2>4, ListedMeets
  <2> QED
    BY <2>5, <2>6
<1>6. ASSUME FinishRegister(p) PROVE Done
  <2> DEFINE th1 == [th EXCEPT !.pc = "idle"]
             reply == [type |-> "ACK", ok |-> TRUE]
             rp1 == IF pr.pc = "exited" THEN rp ELSE Append(rp, reply)
  <2>5. ~OffLength(reply)
    BY DEF OffLength
  <2>1. /\ th.pc = "listed" /\ thread' = [thread EXCEPT ![p] = th1]
        /\ requests' = requests /\ replies' = [replies EXCEPT ![p] = rp1]
    BY <1>1, <1>6 DEF FinishRegister, Reply
  <2>2. /\ th1 = [th EXCEPT !.pc = "idle"] /\ reply \in ReplyType
        /\ rp1 = IF pr.pc = "exited" THEN rp ELSE Append(rp, reply)
    BY DEF ReplyType
  <2> HIDE DEF th1, reply, rp1
  <2>3. Apart(p) /\ thread'[p] = th1 /\ requests'[p] = rq /\ replies'[p] = rp1
    BY <1>1, <1>2, <2>1 DEF Apart
  <2> HIDE DEF pr, th, rq, rp, lines, known
  <2>4. Meets(pr, th1, rq, rp1, lines, known)
    BY <1>1, <2>1, <2>2, <2>5, RegisteredMeets
  <2> QED
    BY <2>3, <2>4
<1>7. ASSUME DropUnreadable(p) PROVE Done
  <2>1. /\ th.pc = "idle" /\ rq # <<>> /\ Head(rq) \in Asked /\ thread' = thread
        /\ requests' = [requests EXCEPT ![p] = Tail(rq)] /\ replies' = replies
    BY <1>1, <1>7 DEF DropUnreadable, Takes, Asked
  <2>2. Apart(p) /\ thread'[p] = th /\ requests'[p] = Tail(rq) /\ replies'[p] = rp
    BY <1>1, <1>2, <2>1 DEF Apart
  <2> HIDE DEF pr, th, rq, rp, lines, known
  <2>3. Meets(pr, th, Tail(rq), rp, lines, known)
    BY <1>1, <2>1, DropMeets
  <2> QED
    BY <2>2, <2>3
<1>8. Done
  BY <1>3, <1>4, <1>5, <1>6, <1>7
<1> QED
  BY <1>2, <1>8, ApartMeets

(* Whatever a thread does, its process and it go on meeting. *)
LEMMA ThreadMeets ==
  ASSUME ProcsMeet, StoreServes', NEW p \in Procs, ThreadStep(p),
         DOMAIN devices \subseteq DOMAIN devices'
  PROVE  ProcsMeet'
<1> DEFINE cl == proc[p].cl
<1>1. proc' = proc
  BY ThreadCalls
<1>2. ASSUME NEW type \in Asked, Takes(p, type) PROVE cl.uuid \in DOMAIN devices
  <2>1. thread[p].pc = "idle" /\ requests[p] # <<>> /\ Head(requests[p]) \in Asked
    BY <1>2 DEF Takes
  <2> QED
    BY <2>1, AskedKnown DEF ProcsMeet
<1>3. CASE Accept(p) \/ HandleRegister(p) \/ RegisterItsDevice(p) \/ FinishRegister(p)
             \/ DropUnreadable(p)
  BY <1>3, RegisterKept
<1>4. CASE HandleObservation(p)
  <2> DEFINE taken == Admits(cl.uuid, Envelope(cl))
             reply == [type |-> "ACK", ok |-> taken]
  <2>1. /\ Takes(p, "OBSERVATION") /\ "OBSERVATION" \in Asked
        /\ thread' = [thread EXCEPT ![p].took = Append(@, taken)]
        /\ replies' = [replies EXCEPT ![p] =
             IF proc[p].pc = "exited" THEN @ ELSE Append(@, reply)]
    BY <1>4 DEF HandleObservation, Took, Reply, Asked
  <2>2. taken \in BOOLEAN
    BY DEF Admits
  <2> HIDE DEF taken
  <2>3. reply \in ReplyType /\ ~OffLength(reply) /\ reply.ok = taken
    BY <2>2 DEF ReplyType, OffLength
  <2> HIDE DEF reply
  <2>4. reply.ok => taken
    BY <2>3
  <2> QED
    BY <1>1, <2>1, <2>2, <2>3, <2>4, AnswerKept
<1>5. ASSUME HandleValidation(p) \/ HandleFault(p),
             Took(p, cl.uuid \in DOMAIN devices), Reply(p, "ACK", TRUE),
             NEW type \in Asked, Takes(p, type)
      PROVE  ProcsMeet'
  <2> DEFINE taken == cl.uuid \in DOMAIN devices
             reply == [type |-> "ACK", ok |-> TRUE]
  <2>1. /\ thread' = [thread EXCEPT ![p].took = Append(@, taken)]
        /\ replies' = [replies EXCEPT ![p] =
             IF proc[p].pc = "exited" THEN @ ELSE Append(@, reply)]
    BY <1>5 DEF Took, Reply
  <2>2. reply \in ReplyType /\ ~OffLength(reply)
    BY DEF ReplyType, OffLength
  <2>3. taken
    BY <1>2, <1>5
  <2>4. taken \in BOOLEAN
    OBVIOUS
  <2> HIDE DEF taken, reply
  <2> QED
    BY <1>1, <1>5, <2>1, <2>2, <2>3, <2>4, AnswerKept
<1>6. CASE HandleValidation(p)
  <2>1. /\ Takes(p, "VALIDATION_RESULT") /\ "VALIDATION_RESULT" \in Asked
        /\ Took(p, cl.uuid \in DOMAIN devices) /\ Reply(p, "ACK", TRUE)
    BY <1>6 DEF HandleValidation, Asked
  <2> QED
    BY <1>5, <1>6, <2>1
<1>7. CASE HandleFault(p)
  <2>1. /\ Takes(p, "FAULT_REPORT") /\ "FAULT_REPORT" \in Asked
        /\ \/ thread' = [thread EXCEPT ![p].pc = "closing"] /\ replies' = replies
           \/ Took(p, cl.uuid \in DOMAIN devices) /\ Reply(p, "ACK", TRUE)
    BY <1>7 DEF HandleFault, Asked
  <2>2. CASE thread' = [thread EXCEPT ![p].pc = "closing"] /\ replies' = replies
    <3>1. /\ thread[p].pc = "idle" /\ requests[p] # <<>> /\ "closing" \in Ended
          /\ requests' = [requests EXCEPT ![p] = Tail(@)]
      BY <2>1 DEF Takes, Ended
    <3> QED
      BY <1>1, <2>2, <3>1, CloseKept
  <2>3. CASE Took(p, cl.uuid \in DOMAIN devices) /\ Reply(p, "ACK", TRUE)
    BY <1>5, <1>7, <2>1, <2>3
  <2> QED
    BY <2>1, <2>2, <2>3
<1>8. CASE HandleSnapshot(p)
  <2> DEFINE sound == \A id \in DOMAIN devices : ~devices[id].validationRepeated
             reply == [type |-> "SNAPSHOT_RESPONSE", ok |-> sound]
  <2>1. /\ Takes(p, "SNAPSHOT_REQUEST") /\ "SNAPSHOT_REQUEST" \in Asked
        /\ \/ thread' = [thread EXCEPT ![p].pc = "closing"] /\ replies' = replies
           \/ Took(p, TRUE) /\ Reply(p, "SNAPSHOT_RESPONSE", sound)
    BY <1>8 DEF HandleSnapshot, Asked
  <2>2. CASE thread' = [thread EXCEPT ![p].pc = "closing"] /\ replies' = replies
    <3>1. /\ thread[p].pc = "idle" /\ requests[p] # <<>> /\ "closing" \in Ended
          /\ requests' = [requests EXCEPT ![p] = Tail(@)]
      BY <2>1 DEF Takes, Ended
    <3> QED
      BY <1>1, <2>2, <3>1, CloseKept
  <2>3. CASE Took(p, TRUE) /\ Reply(p, "SNAPSHOT_RESPONSE", sound)
    <3>1. /\ thread' = [thread EXCEPT ![p].took = Append(@, TRUE)]
          /\ replies' = [replies EXCEPT ![p] =
               IF proc[p].pc = "exited" THEN @ ELSE Append(@, reply)]
      BY <2>3 DEF Took, Reply
    <3>2. sound \in BOOLEAN
      OBVIOUS
    <3> HIDE DEF sound
    <3>3. reply \in ReplyType /\ ~OffLength(reply)
      BY <3>2 DEF ReplyType, OffLength
    <3> HIDE DEF reply
    <3> QED
      BY <1>1, <2>1, <3>1, <3>3, AnswerKept
  <2> QED
    BY <2>1, <2>2, <2>3
<1>9. CASE RecvFails(p) \/ EndThread(p)
  <2>1. PICK pc \in Ended :
          /\ thread' = [thread EXCEPT ![p].pc = pc]
          /\ requests' = requests /\ replies' = replies
          /\ \/ thread[p].pc = "idle" /\ (requests[p] # <<>> \/ proc[p].pc = "exited")
             \/ thread[p].pc = "closing"
    BY <1>9 DEF RecvFails, EndThread, wireVars, Ended
  <2> QED
    BY <1>1, <2>1, CloseKept
<1> QED
  BY <1>3, <1>4, <1>6, <1>7, <1>8, <1>9 DEF ThreadStep

(* The ledger: what is accepted lay before the fence, and moves it. *)
LEMMA LedgerKept ==
  ASSUME StoreServes, StoreServes', LedgerFenced, NEW p \in Procs, NEW cl \in CommandLines[p],
         \A wb \in Workers \X Boots : lastObservedGeneration'[wb] >= lastObservedGeneration[wb],
         \/ ledger' = ledger
         \/ /\ AcceptObservation(cl.uuid, Envelope(cl), now, Report)
            /\ ledger' = Append(ledger, <<Envelope(cl).worker, Envelope(cl).boot,
                                          Envelope(cl).observationGeneration>>)
  PROVE  LedgerFenced'
<1>1. /\ lastObservedGeneration \in [Workers \X Boots -> Nat]
      /\ lastObservedGeneration' \in [Workers \X Boots -> Nat]
  BY DEF StoreServes, Inv, StoreInv, TypeOK
<1>2. ASSUME NEW i \in 1 .. Len(ledger)
      PROVE  /\ ledger[i] \in Workers \X Boots \X Nat
             /\ ledger[i] = <<ledger[i][1], ledger[i][2], ledger[i][3]>>
             /\ <<ledger[i][1], ledger[i][2]>> \in Workers \X Boots
             /\ ledger[i][3] <= lastObservedGeneration[<<ledger[i][1], ledger[i][2]>>]
             /\ ledger[i][3] <= lastObservedGeneration'[<<ledger[i][1], ledger[i][2]>>]
  <2>1. /\ ledger[i] \in Workers \X Boots \X Nat
        /\ ledger[i][3] <= lastObservedGeneration[<<ledger[i][1], ledger[i][2]>>]
    BY <1>2 DEF LedgerFenced
  <2>2. /\ ledger[i] = <<ledger[i][1], ledger[i][2], ledger[i][3]>>
        /\ ledger[i][1] \in Workers /\ ledger[i][2] \in Boots /\ ledger[i][3] \in Nat
    BY <2>1
  <2>3. <<ledger[i][1], ledger[i][2]>> \in Workers \X Boots
    BY <2>2
  <2>4. /\ lastObservedGeneration[<<ledger[i][1], ledger[i][2]>>] \in Nat
        /\ lastObservedGeneration'[<<ledger[i][1], ledger[i][2]>>] \in Nat
        /\ lastObservedGeneration'[<<ledger[i][1], ledger[i][2]>>]
             >= lastObservedGeneration[<<ledger[i][1], ledger[i][2]>>]
    BY <1>1, <2>3
  <2> QED
    BY <2>1, <2>2, <2>3, <2>4
<1>3. CASE ledger' = ledger
  BY <1>2, <1>3 DEF LedgerFenced, AtMostOnce
<1>4. CASE /\ AcceptObservation(cl.uuid, Envelope(cl), now, Report)
           /\ ledger' = Append(ledger, <<Envelope(cl).worker, Envelope(cl).boot,
                                         Envelope(cl).observationGeneration>>)
  <2> DEFINE w == cl.worker
             b == cl.boot
             g == cl.obsgen
             new == <<w, b, g>>
             n == Len(ledger)
  <2>1. Admits(cl.uuid, Envelope(cl))
    BY <1>4 DEF AcceptObservation
  <2>2. /\ Envelope(cl).worker = w /\ Envelope(cl).boot = b
        /\ Envelope(cl).observationGeneration = g /\ Envelope(cl) \in Envelopes
    BY <2>1, OwnEnvelope
  <2>3. w \in Workers /\ b \in Boots /\ g \in Nat
    BY <2>2, ConstantsAssumption DEF Envelopes, ConstantsAssumption
  <2>4. /\ g > lastObservedGeneration[<<w, b>>]
        /\ lastObservedGeneration' = [lastObservedGeneration EXCEPT ![<<w, b>>] = g]
        /\ ledger' = Append(ledger, new)
    BY <1>4, <2>1, <2>2 DEF Admits, AcceptObservation
  <2> HIDE DEF w, b, g
  <2>5. new \in Workers \X Boots \X Nat /\ new[1] = w /\ new[2] = b /\ new[3] = g
    BY <2>3
  <2>6. lastObservedGeneration'[<<w, b>>] = g
    BY <1>1, <2>3, <2>4
  <2>7. ASSUME NEW i \in 1 .. n PROVE ledger[i] # new
    <3> SUFFICES ASSUME ledger[i] = new PROVE FALSE
      OBVIOUS
    <3>1. ledger[i][1] = w /\ ledger[i][2] = b /\ ledger[i][3] = g
      BY <2>5
    <3>2. g <= lastObservedGeneration[<<w, b>>]
      BY <1>2, <3>1
    <3>3. lastObservedGeneration[<<w, b>>] \in Nat
      BY <1>1, <2>3
    <3> QED
      BY <2>3, <2>4, <3>2, <3>3
  <2> HIDE DEF new
  <2>8. ledger \in Seq(Workers \X Boots \X Nat) /\ n \in Nat
    BY DEF LedgerFenced
  <2>9. /\ ledger' \in Seq(Workers \X Boots \X Nat) /\ Len(ledger') = n + 1
        /\ ledger'[n + 1] = new /\ \A i \in 1 .. n : ledger'[i] = ledger[i]
    <3> DEFINE T == Workers \X Boots \X Nat
    <3>1. ledger \in Seq(T) /\ new \in T
      BY <2>5, <2>8
    <3> HIDE DEF T
    <3>2. /\ Append(ledger, new) \in Seq(T) /\ Len(Append(ledger, new)) = n + 1
          /\ Append(ledger, new)[n + 1] = new
          /\ \A i \in 1 .. n : Append(ledger, new)[i] = ledger[i]
      BY <3>1, AppendProperties
    <3> QED
      BY <2>4, <3>2 DEF T
  <2>10. ASSUME NEW i \in 1 .. n + 1
         PROVE  ledger'[i][3] <= lastObservedGeneration'[<<ledger'[i][1], ledger'[i][2]>>]
    <3>1. CASE i = n + 1
      <4>1. ledger'[i] = new
        BY <2>9, <3>1
      <4>2. new[1] = w /\ new[2] = b /\ new[3] = g /\ g <= g
        BY <2>3, <2>5
      <4> QED
        BY <2>6, <4>1, <4>2, Zenon
    <3>2. CASE i # n + 1
      <4>1. i \in 1 .. n
        BY <2>8, <2>10, <3>2
      <4>2. ledger'[i] = ledger[i]
        BY <2>9, <4>1
      <4>3. ledger[i][3] <= lastObservedGeneration'[<<ledger[i][1], ledger[i][2]>>]
        BY <1>2, <4>1 DEF n
      <4> QED
        BY <4>2, <4>3, Zenon
    <3> QED
      BY <3>1, <3>2
  <2>11. ASSUME NEW i \in 1 .. n + 1, NEW j \in 1 .. n + 1, ledger'[i] = ledger'[j]
         PROVE  i = j
    <3>1. i \in 1 .. n \/ i = n + 1
      BY <2>8
    <3>2. j \in 1 .. n \/ j = n + 1
      BY <2>8
    <3>3. CASE i \in 1 .. n /\ j \in 1 .. n
      BY <2>9, <2>11, <3>3 DEF LedgerFenced, AtMostOnce
    <3> QED
      BY <2>7, <2>9, <2>11, <3>1, <3>2, <3>3
  <2> QED
    BY <2>9, <2>10, <2>11 DEF LedgerFenced, AtMostOnce
<1> QED
  BY <1>3, <1>4


-----------------------------------------------------------------------------
(* The sessions *)

SessionInv == StoreServes /\ ProcsMeet /\ LedgerFenced

(* At the start nothing is known, sent or accepted. *)
LEMMA SessionInitial ==
  ASSUME SessionInit PROVE SessionInv
<1>1. StoreServes
  <2>1. Inv
    BY InitInv DEF SessionInit
  <2>2. 1 \in Timestamps
    BY SessionAssumption DEF SessionAssumption
  <2> QED
    BY <2>1, <2>2 DEF SessionInit, Init, StoreServes, KnownIds, OwnBoots
<1>2. ProcsMeet
  <2>1. /\ <<>> \in Seq(Asked) /\ <<>> \in Seq(BOOLEAN) /\ <<>> \in Seq(ReplyType)
        /\ <<>> \in Seq(RequestType) /\ Len(<<>>) = 0
    OBVIOUS
  <2>2. ASSUME NEW lines, NEW known PROVE Meets(Unborn, NoThread, <<>>, <<>>, lines, known)
    <3>1. Unborn \in ProcType(lines) /\ Unborn.pc = "unborn" /\ Unborn.results = <<>>
      BY <2>1 DEF Unborn, ProcType
    <3>2. /\ NoThread \in ThreadType /\ NoThread.pc = "none" /\ ~NoThread.haveWorker
          /\ NoThread.took = <<>>
      BY <2>1 DEF NoThread, ThreadType
    <3> QED
      BY <2>1, <3>1, <3>2
      DEF Meets, Typed, RegistersFirst, OneOutstanding, Told, Whole, Late, Owed, Alive, Ended
  <2> QED
    BY <2>2 DEF SessionInit, ProcsMeet
<1>3. LedgerFenced
  <2>1. <<>> \in Seq(Workers \X Boots \X Nat) /\ 1 .. Len(<<>>) = {}
    OBVIOUS
  <2> QED
    BY <2>1 DEF SessionInit, LedgerFenced, AtMostOnce
<1> QED
  BY <1>1, <1>2, <1>3 DEF SessionInv

(* What a step of a thread adds to the ledger it has from the store. *)
LEMMA ThreadLedger ==
  ASSUME NEW p \in Procs, ThreadStep(p)
  PROVE  LET cl == proc[p].cl IN
         \/ ledger' = ledger
         \/ /\ AcceptObservation(cl.uuid, Envelope(cl), now, Report)
            /\ ledger' = Append(ledger, <<Envelope(cl).worker, Envelope(cl).boot,
                                          Envelope(cl).observationGeneration>>)
BY DEF ThreadStep, Accept, HandleRegister, RegisterItsDevice, FinishRegister,
       HandleObservation, HandleValidation, HandleFault, HandleSnapshot,
       DropUnreadable, RecvFails, EndThread

(* Every step keeps the invariant, and is a step of the store or none.         *)
LEMMA SessionStep ==
  ASSUME SessionInv, [SessionNext]_sessionVars
  PROVE  SessionInv' /\ [Next]_vars
<1>1. CASE UNCHANGED sessionVars
  <2>1. /\ UNCHANGED vars /\ UNCHANGED <<proc, thread, requests, replies, ledger>>
    BY <1>1 DEF sessionVars, wireVars
  <2>2. UNCHANGED <<devices, uuidIndex, workerBootRegistry, lastObservedGeneration, now>>
    BY <2>1 DEF vars, identityVars
  <2>3. Inv'
    BY <2>1, NextInv DEF SessionInv, StoreServes
  <2> QED
    BY <2>1, <2>2, <2>3
    DEF SessionInv, StoreServes, ProcsMeet, LedgerFenced, AtMostOnce, KnownIds, OwnBoots
<1>2. ASSUME NEW p \in Procs,
             \/ \E cl \in CommandLines[p] : Start(p, cl)
             \/ ProgramStep(p) \/ Kill(p) \/ Damage(p)
      PROVE  SessionInv' /\ [Next]_vars
  <2>1. ProcsMeet' /\ UNCHANGED vars /\ ledger' = ledger
    BY <1>2, ProgramMeets DEF SessionInv
  <2>2. UNCHANGED <<devices, uuidIndex, workerBootRegistry, lastObservedGeneration, now>>
    BY <2>1 DEF vars, identityVars
  <2>3. Inv'
    BY <2>1, NextInv DEF SessionInv, StoreServes
  <2> QED
    BY <2>1, <2>2, <2>3
    DEF SessionInv, StoreServes, LedgerFenced, AtMostOnce, KnownIds, OwnBoots
<1>3. ASSUME NEW p \in Procs, ThreadStep(p)
      PROVE  SessionInv' /\ [Next]_vars
  <2> DEFINE cl == proc[p].cl
  <2>1. cl \in CommandLines[p] /\ (Call(cl) \/ UNCHANGED vars)
    BY <1>3, ThreadCalls DEF SessionInv
  <2>2. /\ [Next]_vars /\ StoreServes' /\ DOMAIN devices \subseteq DOMAIN devices'
        /\ \A wb \in Workers \X Boots :
             lastObservedGeneration'[wb] >= lastObservedGeneration[wb]
    BY <2>1, CallKept DEF SessionInv
  <2>3. ProcsMeet'
    BY <1>3, <2>2, ThreadMeets DEF SessionInv
  <2>4. \/ ledger' = ledger
        \/ /\ AcceptObservation(cl.uuid, Envelope(cl), now, Report)
           /\ ledger' = Append(ledger, <<Envelope(cl).worker, Envelope(cl).boot,
                                         Envelope(cl).observationGeneration>>)
    BY <1>3, ThreadLedger
  <2>5. LedgerFenced'
    BY <2>1, <2>2, <2>4, LedgerKept DEF SessionInv
  <2> QED
    BY <2>2, <2>3, <2>5 DEF SessionInv
<1> QED
  BY <1>1, <1>2, <1>3 DEF SessionNext

(* So it holds in every reachable state. *)
LEMMA SessionAlways == SessionSpec => []SessionInv
<1>1. SessionInv /\ [SessionNext]_sessionVars => SessionInv'
  BY SessionStep
<1> QED
  BY <1>1, SessionInitial, PTL DEF SessionSpec

(* A worker's results are the store's: what it prints as accepted is a request *)
(* the store has taken, though the link damages frames and the worker never    *)
(* matches a reply with its request; or, once a length was damaged, the late   *)
(* answer to one it had given up.                                              *)
THEOREM AckSafe == SessionSpec => []AckIsTruth
<1>1. SessionInv => AckIsTruth
  <2> SUFFICES ASSUME SessionInv, NEW p \in Procs, NEW i \in 1 .. Len(proc[p].results),
                      proc[p].results[i], ~Taken(p, i)
               PROVE  /\ proc[p].astray
                      /\ \E j \in 1 .. (i - 1) : ~proc[p].results[j] /\ Taken(p, j)
    BY DEF AckIsTruth
  <2>1. /\ ~proc[p].astray => Told(proc[p], thread[p])
        /\ Owed(proc[p], thread[p])
    BY DEF SessionInv, ProcsMeet, Meets
  <2>2. proc[p].astray
    BY <2>1 DEF Told, Has, Taken
  <2> QED
    BY <2>1, <2>2 DEF Owed, Has, Taken
<1> QED
  BY <1>1, SessionAlways, PTL

(* No observation is accepted twice, over whatever connections it is retried.  *)
THEOREM OnceSafe == SessionSpec => []AtMostOnce
<1>1. SessionInv => AtMostOnce
  BY DEF SessionInv, LedgerFenced
<1> QED
  BY <1>1, SessionAlways, PTL

(* The store's fences hold under the sessions. *)
THEOREM SessionFencesSafe == SessionSpec => FencesHold
<1>1. SessionInv /\ [SessionNext]_sessionVars => Fenced
  <2>1. 0 \notin Uuids
    BY SessionAssumption DEF SessionAssumption
  <2> QED
    BY <2>1, SessionStep, FencesStep DEF SessionInv, StoreServes
<1> QED
  BY <1>1, SessionAlways, PTL DEF SessionSpec, FencesHold, Fenced

-----------------------------------------------------------------------------
(* The coordinator's store is the sessions' store *)

(* Module Coordinator extends the same store, so its operators are the ones     *)
(* here: the reassessment,                                                     *)
LEMMA SameAssessed ==
  ASSUME NEW d PROVE Coord!Assessed(d) = Assessed(d)
<1>1. \A from, to : Coord!CanTransition(from, to) = CanTransition(from, to)
  BY DEF CanTransition, Coord!CanTransition, LegalFrom, Coord!LegalFrom
<1>2. /\ \A pol, o, t : Coord!Freshness(pol, o, t) = Freshness(pol, o, t)
      /\ \A f : Coord!OutOfDate(f) = OutOfDate(f)
      /\ \A r : Coord!Quarantined(r) = Quarantined(r)
  BY DEF Freshness, Coord!Freshness, OutOfDate, Coord!OutOfDate, Quarantined, Coord!Quarantined
<1>3. /\ \A fs : Coord!HasOpenFatal(fs) = HasOpenFatal(fs)
      /\ \A fs : Coord!HasOpenCritical(fs) = HasOpenCritical(fs)
      /\ \A ds : Coord!HasFailed(ds) = HasFailed(ds)
      /\ \A ds : Coord!HasFatal(ds) = HasFatal(ds)
  BY DEF HasOpenFatal, Coord!HasOpenFatal, HasOpenCritical, Coord!HasOpenCritical,
         HasFailed, Coord!HasFailed, HasFatal, Coord!HasFatal,
         FATAL, Coord!FATAL, CRITICAL, Coord!CRITICAL
<1>4. \A fs : Coord!ConsecutiveLatest(fs) = ConsecutiveLatest(fs)
  BY Zenon DEF ConsecutiveLatest, Coord!ConsecutiveLatest, Cardinality, Coord!Cardinality
<1>5. \A r, pol, t : Coord!Target(r, pol, t) = Target(r, pol, t)
  BY <1>2, <1>3, <1>4 DEF Target, Coord!Target
<1>6. ASSUME NEW r, NEW pol, NEW t
      PROVE  Coord!Readiness(r, pol, t) = Readiness(r, pol, t)
  BY Zenon
  DEF Readiness, Coord!Readiness, NeedsRevalidation, Coord!NeedsRevalidation, Quarantined,
      Coord!Quarantined, OutOfDate, Coord!OutOfDate, Freshness, Coord!Freshness
<1>7. \A r, to : Coord!ApplyTransition(r, to) = ApplyTransition(r, to)
  BY DEF ApplyTransition, Coord!ApplyTransition
<1>8. ASSUME NEW r, NEW pol, NEW gen, NEW t
      PROVE  Coord!ReassessLocked(r, pol, gen, t) = ReassessLocked(r, pol, gen, t)
  <2> DEFINE target == Target(r, pol, t)
             blocked == target # r.state /\ ~CanTransition(r.state, target)
             moved == IF blocked THEN r ELSE ApplyTransition(r, target)
             ready == IF blocked THEN "REVALIDATION_REQUIRED" ELSE Readiness(moved, pol, t)
             stale == OutOfDate(Freshness(pol, r.lastObservation, t))
             target2 == Coord!Target(r, pol, t)
             blocked2 == target2 # r.state /\ ~Coord!CanTransition(r.state, target2)
             moved2 == IF blocked2 THEN r ELSE Coord!ApplyTransition(r, target2)
             ready2 == IF blocked2 THEN "REVALIDATION_REQUIRED"
                       ELSE Coord!Readiness(moved2, pol, t)
             stale2 == Coord!OutOfDate(Coord!Freshness(pol, r.lastObservation, t))
  <2>1. target2 = target
    BY <1>5
  <2>2. blocked2 <=> blocked
    BY <1>1, <2>1
  <2>3. moved2 = moved
    BY <1>7, <2>1, <2>2
  <2>4. ready2 = ready
    BY <1>6, <2>2, <2>3
  <2>5. stale2 = stale
    BY <1>2
  <2>6. ReassessLocked(r, pol, gen, t) =
          [moved EXCEPT !.readiness = ready, !.assessedPolicyGeneration = gen,
                        !.staleIndexed = stale, !.stateIndexed = moved.state]
    BY Zenon DEF ReassessLocked
  <2>7. Coord!ReassessLocked(r, pol, gen, t) =
          [moved2 EXCEPT !.readiness = ready2, !.assessedPolicyGeneration = gen,
                         !.staleIndexed = stale2, !.stateIndexed = moved2.state]
    BY Zenon DEF Coord!ReassessLocked
  <2> HIDE DEF moved, moved2, ready, ready2, stale, stale2
  <2> QED
    BY <2>3, <2>4, <2>5, <2>6, <2>7, Zenon
<1> QED
  BY <1>8, Zenon DEF Assessed, Coord!Assessed

(* and the initial state and the calls the sessions make. *)
LEMMA SameCalls ==
  /\ Coord!Init <=> Init
  /\ (UNCHANGED Coord!vars) <=> UNCHANGED vars
  /\ \A w, b : Coord!RegisterWorker(w, b) <=> RegisterWorker(w, b)
  /\ \A u : Coord!RegisterDevice(u) <=> RegisterDevice(u)
  /\ Coord!ReassessAll <=> ReassessAll
  /\ \A id, env, t, r : Coord!AcceptObservation(id, env, t, r) <=> AcceptObservation(id, env, t, r)
  /\ \A id, v : Coord!RecordValidation(id, v) <=> RecordValidation(id, v)
  /\ \A id, f : Coord!RecordFault(id, f) <=> RecordFault(id, f)
  /\ \A w, b : Coord!InvalidateWorker(w, b) <=> InvalidateWorker(w, b)
  /\ Coord!Envelopes = Envelopes
<1>1. /\ Coord!Init <=> Init
      /\ (UNCHANGED Coord!vars) <=> UNCHANGED vars
      /\ Coord!Envelopes = Envelopes
  BY DEF Init, Coord!Init, vars, Coord!vars, identityVars, Coord!identityVars,
         registryVars, Coord!registryVars, policyVars, Coord!policyVars,
         Envelopes, Coord!Envelopes
<1>2. /\ \A w, b : Coord!RegisterWorker(w, b) <=> RegisterWorker(w, b)
      /\ \A u : Coord!RegisterDevice(u) <=> RegisterDevice(u)
  BY DEF RegisterWorker, Coord!RegisterWorker, RegisterDevice, Coord!RegisterDevice,
         NewDevice, Coord!NewDevice, identityVars, Coord!identityVars,
         registryVars, Coord!registryVars, policyVars, Coord!policyVars
<1>3. Coord!ReassessAll <=> ReassessAll
  BY SameAssessed
  DEF ReassessAll, Coord!ReassessAll, AllAssessed, Coord!AllAssessed,
      identityVars, Coord!identityVars, registryVars, Coord!registryVars,
      policyVars, Coord!policyVars
<1>4. \A id, env, t, r : Coord!AcceptObservation(id, env, t, r) <=> AcceptObservation(id, env, t, r)
  BY SameAssessed
  DEF AcceptObservation, Coord!AcceptObservation, Admits, Coord!Admits, Opened, Coord!Opened,
      identityVars, Coord!identityVars, policyVars, Coord!policyVars
<1>5. /\ \A id, v : Coord!RecordValidation(id, v) <=> RecordValidation(id, v)
      /\ \A id, f : Coord!RecordFault(id, f) <=> RecordFault(id, f)
  BY SameAssessed
  DEF RecordValidation, Coord!RecordValidation, RecordFault, Coord!RecordFault,
      WithValidation, Coord!WithValidation, Opened, Coord!Opened,
      identityVars, Coord!identityVars, registryVars, Coord!registryVars,
      policyVars, Coord!policyVars
<1>6. \A w, b : Coord!InvalidateWorker(w, b) <=> InvalidateWorker(w, b)
  BY SameAssessed
  DEF InvalidateWorker, Coord!InvalidateWorker, Opened, Coord!Opened,
      identityVars, Coord!identityVars, policyVars, Coord!policyVars
<1> QED
  BY <1>1, <1>2, <1>3, <1>4, <1>5, <1>6

(* The connections of the coordinator, as a step of p's thread moves them. *)
Conn(pr, th) ==
  LET on == th.pc \notin {"none", "closed"} IN
  [phase |-> IF ~on THEN "free" ELSE IF th.pc = "listed" THEN "devices" ELSE th.pc,
   worker |-> IF on THEN pr.cl.worker ELSE NoWorker,
   boot |-> IF on THEN pr.cl.boot ELSE NoBoot,
   haveWorker |-> on /\ th.haveWorker]

(* A step of p moves the connection of p alone. *)
LEMMA ConnStep ==
  ASSUME ProcsMeet, NEW p \in Procs, Apart(p)
  PROVE  /\ AsConnection(p) = Conn(proc[p], thread[p])
         /\ AsConnection(p)' = Conn(proc'[p], thread'[p])
         /\ \A q \in Procs : q # p => AsConnection(q)' = AsConnection(q)
<1>1. \A q \in Procs : /\ AsConnection(q) = Conn(proc[q], thread[q])
                       /\ AsConnection(q)' = Conn(proc'[q], thread'[q])
  BY DEF AsConnection, Serving, Conn
<1>2. \A q \in Procs : q # p => proc'[q] = proc[q] /\ thread'[q] = thread[q]
  BY DEF ProcsMeet, Apart
<1> QED
  BY <1>1, <1>2

(* A step that leaves the connection of p as it is, and the store, is none of  *)
(* the coordinator's.                                                          *)
LEMMA CoordStutter ==
  ASSUME NEW p \in Procs, AsConnection(p)' = AsConnection(p), UNCHANGED vars,
         \A q \in Procs : q # p => AsConnection(q)' = AsConnection(q)
  PROVE  UNCHANGED Coord!coordVars
<1>1. [q \in Procs |-> AsConnection(q)'] = [q \in Procs |-> AsConnection(q)]
  OBVIOUS
<1> QED
  BY <1>1, SameCalls DEF Coord!coordVars

(* One that enters a phase. *)
LEMMA CoordEnter ==
  ASSUME NEW p \in Procs, NEW c, NEW phase,
         AsConnection(p) = c, AsConnection(p)' = [c EXCEPT !.phase = phase],
         \A q \in Procs : q # p => AsConnection(q)' = AsConnection(q)
  PROVE  Coord!Enter(p, phase)
BY DEF Coord!Enter

(* The steps of the programs are none of the coordinator's. *)
LEMMA ProgramRefined ==
  ASSUME SessionInv, NEW p \in Procs,
         \/ \E cl \in CommandLines[p] : Start(p, cl)
         \/ ProgramStep(p) \/ Kill(p) \/ Damage(p)
  PROVE  UNCHANGED Coord!coordVars
<1>1. UNCHANGED vars /\ thread' = thread /\ Apart(p) /\ ProcsMeet
  BY ProgramMeets DEF SessionInv
<1>2. Typed(proc[p], thread[p], requests[p], replies[p], CommandLines[p])
  BY <1>1 DEF ProcsMeet, Meets
<1>3. proc = [q \in Procs |-> proc[q]]
  BY <1>1 DEF ProcsMeet
<1>4. CASE \E cl \in CommandLines[p] : Start(p, cl)
  <2>1. thread[p].pc = "none"
    BY <1>2, <1>4 DEF Typed, NoThread, Start
  <2>2. AsConnection(p)' = AsConnection(p)
    BY <1>1, <2>1, ConnStep DEF Conn
  <2> QED
    BY <1>1, <2>2, ConnStep, CoordStutter
<1>5. CASE ProgramStep(p) \/ Kill(p) \/ Damage(p)
  <2>1. proc'[p].cl = proc[p].cl
    <3>1. CASE HoldOver(p) \/ Kill(p)
      BY <1>2, <1>3, <3>1 DEF HoldOver, Kill, Typed, ProcType
    <3>2. CASE Damage(p)
      BY <3>2 DEF Damage
    <3>3. CASE GetRegistered(p) \/ GetReply(p)
      <4>1. PICK results : Proceed(p, results)
        BY <3>3 DEF GetRegistered, GetReply
      <4> DEFINE plan == IF proc[p].plan = <<>> THEN proc[p].plan ELSE Tail(proc[p].plan)
                 pc == IF proc[p].plan # <<>> THEN "asking"
                       ELSE IF proc[p].pc = "asking" /\ proc[p].cl.mode = "live" THEN "holding"
                       ELSE "exited"
                 pr1 == [proc[p] EXCEPT !.results = results, !.plan = plan, !.pc = pc]
      <4>2. proc' = [proc EXCEPT ![p] = pr1]
        BY <4>1, Zenon DEF Proceed
      <4>3. proc'[p] = pr1
        BY <1>3, <4>2
      <4> HIDE DEF plan, pc
      <4>4. pr1.cl = proc[p].cl
        BY <1>2 DEF Typed, ProcType
      <4> QED
        BY <4>3, <4>4
    <3> QED
      BY <1>5, <3>1, <3>2, <3>3 DEF ProgramStep
  <2>2. AsConnection(p)' = AsConnection(p)
    BY <1>1, <2>1, ConnStep DEF Conn
  <2> QED
    BY <1>1, <2>2, ConnStep, CoordStutter
<1> QED
  BY <1>4, <1>5

(* A thread deals with its own connection. *)
LEMMA ThreadApart ==
  ASSUME ProcsMeet, NEW p \in Procs, ThreadStep(p)
  PROVE  Apart(p)
<1>1. /\ proc = [q \in Procs |-> proc[q]] /\ thread = [q \in Procs |-> thread[q]]
      /\ requests = [q \in Procs |-> requests[q]] /\ replies = [q \in Procs |-> replies[q]]
  BY DEF ProcsMeet
<1>2. proc' = proc
  BY ThreadCalls
<1>3. \/ thread' = thread \/ \E th1 : thread' = [thread EXCEPT ![p] = th1]
  BY DEF ThreadStep, Accept, HandleRegister, RegisterItsDevice, FinishRegister,
         HandleObservation, HandleValidation, HandleFault, HandleSnapshot,
         DropUnreadable, RecvFails, EndThread, Took
<1>4. \/ requests' = requests \/ \E rq1 : requests' = [requests EXCEPT ![p] = rq1]
  BY DEF ThreadStep, Accept, HandleRegister, RegisterItsDevice, FinishRegister,
         HandleObservation, HandleValidation, HandleFault, HandleSnapshot,
         DropUnreadable, RecvFails, EndThread, Takes, wireVars
<1>5. \/ replies' = replies \/ \E rp1 : replies' = [replies EXCEPT ![p] = rp1]
  BY DEF ThreadStep, Accept, HandleRegister, RegisterItsDevice, FinishRegister,
         HandleObservation, HandleValidation, HandleFault, HandleSnapshot,
         DropUnreadable, RecvFails, EndThread, Reply, wireVars
<1> QED
  BY <1>1, <1>2, <1>3, <1>4, <1>5 DEF Apart

(* REGISTER, as the coordinator sees it. *)
LEMMA CoordRegister ==
  ASSUME NEW p \in Procs, NEW w, NEW b, NEW h, NEW r, AsConnection(p) = r,
         r = [phase |-> "idle", worker |-> w, boot |-> b, haveWorker |-> h],
         AsConnection(p)' =
           [phase |-> "devices", worker |-> w, boot |-> b, haveWorker |-> TRUE],
         \A q \in Procs : q # p => AsConnection(q)' = AsConnection(q),
         RegisterWorker(w, b)
  PROVE  Coord!HandleRegister(p)
<1> DEFINE s == [r EXCEPT !.phase = "devices", !.haveWorker = TRUE]
<1>1. r.phase = "idle" /\ r.worker = w /\ r.boot = b
  OBVIOUS
<1>2. AsConnection(p)' = s
  <2> DEFINE s1 == [r EXCEPT !.phase = "devices"]
             yes == TRUE
  <2> HIDE DEF yes
  <2>1. s1 = [phase |-> "devices", worker |-> w, boot |-> b, haveWorker |-> h]
    OBVIOUS
  <2>2. s = [s1 EXCEPT !.haveWorker = yes]
    BY DEF yes
  <2> HIDE DEF s1
  <2>3. [s1 EXCEPT !.haveWorker = yes] =
          [phase |-> "devices", worker |-> w, boot |-> b, haveWorker |-> yes]
    BY <2>1
  <2> QED
    BY <2>2, <2>3 DEF yes
<1>3. Coord!RegisterWorker(w, b)
  BY SameCalls
<1>4. [q \in Procs |-> AsConnection(q)][p] = r
  OBVIOUS
<1>5. [q \in Procs |-> AsConnection(q)'] = [[q \in Procs |-> AsConnection(q)] EXCEPT ![p] = s]
  <2> HIDE DEF s
  <2> QED
    BY <1>2
<1>6. [[q \in Procs |-> AsConnection(q)] EXCEPT ![p] = s] =
        [[q \in Procs |-> AsConnection(q)] EXCEPT ![p].phase = "devices", ![p].haveWorker = TRUE]
  BY <1>4
<1> QED
  BY <1>1, <1>3, <1>4, <1>5, <1>6 DEF Coord!HandleRegister

(* A step of a thread is one of the coordinator's, or none. *)
LEMMA ThreadRefined ==
  ASSUME SessionInv, NEW p \in Procs, ThreadStep(p)
  PROVE  UNCHANGED Coord!coordVars \/ Coord!CoordNext
<1> DEFINE pr == proc[p]
           th == thread[p]
           cl == proc[p].cl
           c == Conn(pr, th)
<1>1. /\ ProcsMeet /\ StoreServes /\ cl \in CommandLines[p] /\ proc' = proc
      /\ thread = [q \in Procs |-> thread[q]] /\ th \in ThreadType
      /\ Meets(pr, th, requests[p], replies[p], CommandLines[p], DOMAIN devices)
  BY ThreadCalls DEF SessionInv, ProcsMeet, Meets, Typed
<1>2. /\ AsConnection(p) = c /\ AsConnection(p)' = Conn(pr, thread'[p])
      /\ \A q \in Procs : q # p => AsConnection(q)' = AsConnection(q)
  BY <1>1, ThreadApart, ConnStep
<1>3. /\ cl.worker \in Workers /\ cl.boot \in Boots /\ cl.uuid \in Uuids
      /\ ItsFault(cl) \in Faults /\ ItsValidation(cl) \in Validations /\ Report \in Reports
  BY <1>1, SessionAssumption DEF SessionAssumption
(* The thread leaves its connection as it is for the coordinator. *)
<1>4. ASSUME thread'[p].pc = th.pc, thread'[p].haveWorker = th.haveWorker
      PROVE  Conn(pr, thread'[p]) = c
  BY <1>4 DEF Conn
(* What an idle thread with a request from its worker is to the coordinator. *)
<1>5. ASSUME NEW type \in Asked, Takes(p, type)
      PROVE  /\ Coord!Reporting(p) /\ c.worker = cl.worker /\ c.boot = cl.boot
             /\ th.pc = "idle" /\ th.haveWorker = TRUE /\ cl.uuid \in DOMAIN devices
  <2>1. th.pc = "idle" /\ th.haveWorker = TRUE /\ cl.uuid \in DOMAIN devices
    BY <1>1, <1>5, AskedKnown DEF Takes
  <2>2. c.phase = "idle" /\ c.haveWorker /\ c.worker = cl.worker /\ c.boot = cl.boot
    BY <2>1 DEF Conn
  <2> QED
    BY <1>2, <2>1, <2>2 DEF Coord!Reporting
(* Requests that add to what was taken. *)
<1>6. ASSUME NEW taken, thread' = [thread EXCEPT ![p].took = taken]
      PROVE  AsConnection(p)' = AsConnection(p)
  <2>1. thread'[p].pc = th.pc /\ thread'[p].haveWorker = th.haveWorker
    BY <1>1, <1>6 DEF ThreadType
  <2> QED
    BY <1>2, <1>4, <2>1
(* Leaving the loop. *)
<1>7. ASSUME th.pc = "idle", thread' = [thread EXCEPT ![p].pc = "closing"]
      PROVE  c.phase = "idle" /\ Coord!Enter(p, "closing")
  <2>1. thread'[p].pc = "closing" /\ thread'[p].haveWorker = th.haveWorker
    BY <1>1, <1>7 DEF ThreadType
  <2>2. c.phase = "idle" /\ Conn(pr, thread'[p]) = [c EXCEPT !.phase = "closing"]
    BY <1>7, <2>1 DEF Conn
  <2> QED
    BY <1>2, <2>2, CoordEnter
<1>8. CASE Accept(p)
  <2>1. th.pc = "none" /\ th.haveWorker = FALSE
    BY <1>1, <1>8 DEF Accept, Meets, RegistersFirst, ThreadType
  <2>2. thread'[p].pc = "idle" /\ thread'[p].haveWorker = FALSE
    BY <1>1, <1>8, <2>1 DEF Accept, ThreadType
  <2>3. /\ c.phase = "free"
        /\ Conn(pr, thread'[p]) = [phase |-> "idle", worker |-> cl.worker, boot |-> cl.boot,
                                   haveWorker |-> FALSE]
    BY <2>1, <2>2 DEF Conn
  <2>4. Coord!AcceptClient(p, cl.worker, cl.boot)
    BY <1>2, <1>8, <2>3, SameCalls DEF Coord!AcceptClient, Accept
  <2> QED
    BY <1>3, <2>4 DEF Coord!CoordNext
<1>9. CASE HandleRegister(p)
  <2>1. th.pc = "idle" /\ thread'[p].pc = "devices" /\ thread'[p].haveWorker = TRUE
    BY <1>1, <1>9 DEF HandleRegister, Takes, ThreadType
  <2>2. PICK have : c = [phase |-> "idle", worker |-> cl.worker, boot |-> cl.boot,
                         haveWorker |-> have]
    BY <2>1 DEF Conn
  <2>3. Conn(pr, thread'[p]) = [phase |-> "devices", worker |-> cl.worker, boot |-> cl.boot,
                                haveWorker |-> TRUE]
    BY <2>1 DEF Conn
  <2>4. RegisterWorker(cl.worker, cl.boot)
    BY <1>9 DEF HandleRegister
  <2> HIDE DEF c
  <2>5. Coord!HandleRegister(p)
    BY <1>2, <2>2, <2>3, <2>4, CoordRegister
  <2> QED
    BY <2>5 DEF Coord!CoordNext
<1>10. CASE RegisterItsDevice(p)
  <2>1. th.pc = "devices" /\ thread'[p].pc = "listed" /\ thread'[p].haveWorker = th.haveWorker
    BY <1>1, <1>10 DEF RegisterItsDevice, ThreadType
  <2>2. c.phase = "devices" /\ Conn(pr, thread'[p]) = c
    BY <2>1 DEF Conn
  <2>3. CASE UNCHANGED vars
    BY <1>2, <2>2, <2>3, CoordStutter
  <2>4. CASE RegisterDevice(cl.uuid)
    <3>1. Coord!RegisterItsDevice(p)
      BY <1>2, <1>3, <2>2, <2>4, SameCalls DEF Coord!RegisterItsDevice
    <3> QED
      BY <3>1 DEF Coord!CoordNext, Coord!ThreadStep
  <2> QED
    BY <1>10, <2>3, <2>4 DEF RegisterItsDevice
<1>11. CASE FinishRegister(p)
  <2>1. th.pc = "listed" /\ thread'[p].pc = "idle" /\ thread'[p].haveWorker = th.haveWorker
    BY <1>1, <1>11 DEF FinishRegister, ThreadType
  <2>2. c.phase = "devices" /\ Conn(pr, thread'[p]) = [c EXCEPT !.phase = "idle"]
    BY <2>1 DEF Conn
  <2>3. Coord!Enter(p, "idle")
    BY <1>2, <2>2, CoordEnter
  <2>4. Coord!RegisterReassess(p)
    BY <1>2, <1>11, <2>2, <2>3, SameCalls DEF Coord!RegisterReassess, FinishRegister
  <2> QED
    BY <2>4 DEF Coord!CoordNext, Coord!ThreadStep
<1>12. CASE HandleObservation(p)
  <2>1. Takes(p, "OBSERVATION") /\ "OBSERVATION" \in Asked
    BY <1>12 DEF HandleObservation, Asked
  <2>2. PICK taken : thread' = [thread EXCEPT ![p].took = taken]
    BY <1>12 DEF HandleObservation, Took
  <2>3. AsConnection(p)' = AsConnection(p)
    BY <1>6, <2>2
  <2>4. CASE UNCHANGED vars
    BY <1>2, <2>3, <2>4, CoordStutter
  <2>5. CASE Admits(cl.uuid, Envelope(cl)) /\ AcceptObservation(cl.uuid, Envelope(cl), now, Report)
    <3>1. /\ Envelope(cl) \in Envelopes
          /\ Envelope(cl).worker = c.worker /\ Envelope(cl).boot = c.boot
      BY <1>1, <1>5, <2>1, <2>5, OwnEnvelope
    <3>2. now \in Timestamps
      BY <1>1 DEF StoreServes
    <3>3. [q \in Procs |-> AsConnection(q)'] = [q \in Procs |-> AsConnection(q)]
      BY <1>2, <2>3
    <3>4. Coord!HandleObservation(p, cl.uuid)
      <4> HIDE DEF c
      <4>1. Coord!AcceptObservation(cl.uuid, Envelope(cl), now, Report)
        BY <2>5, SameCalls
      <4>2. Envelope(cl) \in Coord!Envelopes /\ Coord!Reporting(p)
        BY <1>5, <2>1, <3>1, SameCalls
      <4>3. [q \in Procs |-> AsConnection(q)][p] = c
        BY <1>2
      <4> QED
        BY <1>3, <3>1, <3>2, <3>3, <4>1, <4>2, <4>3 DEF Coord!HandleObservation
    <3> QED
      BY <1>5, <2>1, <3>4 DEF Coord!CoordNext
  <2> QED
    BY <1>12, <2>4, <2>5 DEF HandleObservation
<1>13. CASE HandleValidation(p)
  <2>1. Takes(p, "VALIDATION_RESULT") /\ "VALIDATION_RESULT" \in Asked
    BY <1>13 DEF HandleValidation, Asked
  <2>2. PICK taken : thread' = [thread EXCEPT ![p].took = taken]
    BY <1>13 DEF HandleValidation, Took
  <2>3. AsConnection(p)' = AsConnection(p)
    BY <1>6, <2>2
  <2>4. cl.uuid \in DOMAIN devices /\ RecordValidation(cl.uuid, ItsValidation(cl))
    BY <1>5, <1>13, <2>1 DEF HandleValidation
  <2>5. Coord!HandleValidation(p, cl.uuid)
    <3>1. [q \in Procs |-> AsConnection(q)'] = [q \in Procs |-> AsConnection(q)]
      BY <1>2, <2>3
    <3>2. Coord!RecordValidation(cl.uuid, ItsValidation(cl)) /\ Coord!Reporting(p)
      BY <1>5, <2>1, <2>4, SameCalls
    <3> QED
      BY <1>3, <3>1, <3>2 DEF Coord!HandleValidation
  <2> QED
    BY <2>4, <2>5 DEF Coord!CoordNext
<1>14. CASE HandleFault(p)
  <2>1. Takes(p, "FAULT_REPORT") /\ "FAULT_REPORT" \in Asked
    BY <1>14 DEF HandleFault, Asked
  <2>2. cl.uuid \in DOMAIN devices /\ Coord!Reporting(p) /\ th.pc = "idle"
    BY <1>5, <2>1
  <2>3. CASE \E i \in 1 .. Len(devices[cl.uuid].faults) :
               devices[cl.uuid].faults[i].id = ItsFault(cl).id
    <3>1. thread' = [thread EXCEPT ![p].pc = "closing"] /\ UNCHANGED vars
      BY <1>14, <2>2, <2>3 DEF HandleFault
    <3>2. Coord!Enter(p, "closing") /\ UNCHANGED Coord!vars
      BY <1>7, <2>2, <3>1, SameCalls
    <3>3. Coord!HandleRepeatedFault(p, cl.uuid)
      BY <1>3, <2>2, <2>3, <3>2 DEF Coord!HandleRepeatedFault
    <3> QED
      BY <2>2, <3>3 DEF Coord!CoordNext
  <2>4. CASE ~\E i \in 1 .. Len(devices[cl.uuid].faults) :
                devices[cl.uuid].faults[i].id = ItsFault(cl).id
    <3>1. RecordFault(cl.uuid, ItsFault(cl)) /\ Took(p, cl.uuid \in DOMAIN devices)
      BY <1>14, <2>2, <2>4 DEF HandleFault
    <3>2. PICK taken : thread' = [thread EXCEPT ![p].took = taken]
      BY <3>1 DEF Took
    <3>3. AsConnection(p)' = AsConnection(p)
      BY <1>6, <3>2
    <3>4. [q \in Procs |-> AsConnection(q)'] = [q \in Procs |-> AsConnection(q)]
      BY <1>2, <3>3
    <3>5. Coord!RecordFault(cl.uuid, ItsFault(cl))
      BY <3>1, SameCalls
    <3>6. Coord!HandleFault(p, cl.uuid)
      BY <1>3, <2>2, <3>4, <3>5 DEF Coord!HandleFault
    <3> QED
      BY <2>2, <3>6 DEF Coord!CoordNext
  <2> QED
    BY <2>3, <2>4
<1>15. CASE HandleSnapshot(p)
  <2>1. UNCHANGED vars /\ th.pc = "idle"
    BY <1>15 DEF HandleSnapshot, Takes
  <2>2. CASE \E taken : thread' = [thread EXCEPT ![p].took = taken]
    BY <1>2, <1>6, <2>1, <2>2, CoordStutter
  <2>3. CASE thread' = [thread EXCEPT ![p].pc = "closing"]
    <3>1. Coord!LeaveLoop(p)
      BY <1>2, <1>7, <2>1, <2>3, SameCalls DEF Coord!LeaveLoop
    <3> QED
      BY <3>1 DEF Coord!CoordNext
  <2> QED
    BY <1>15, <2>2, <2>3 DEF HandleSnapshot, Took
<1>16. CASE DropUnreadable(p)
  <2>1. UNCHANGED vars /\ thread' = thread
    BY <1>16 DEF DropUnreadable
  <2> QED
    BY <1>2, <2>1, CoordStutter
<1>17. CASE RecvFails(p)
  <2>1. UNCHANGED vars /\ th.pc = "idle" /\ thread' = [thread EXCEPT ![p].pc = "closing"]
    BY <1>17 DEF RecvFails
  <2>2. Coord!LeaveLoop(p)
    BY <1>2, <1>7, <2>1, SameCalls DEF Coord!LeaveLoop
  <2> QED
    BY <2>2 DEF Coord!CoordNext
<1>18. CASE EndThread(p)
  <2>1. th.pc = "closing" /\ thread'[p].pc = "closed"
    BY <1>1, <1>18 DEF EndThread, ThreadType
  <2>2. /\ c.phase = "closing" /\ c.worker = cl.worker /\ c.boot = cl.boot
        /\ c.haveWorker <=> th.haveWorker
    BY <1>1, <2>1 DEF Conn, ThreadType
  <2>3. Conn(pr, thread'[p]) = Coord!Free
    BY <2>1 DEF Conn, Coord!Free
  <2>4. \/ /\ th.haveWorker /\ workerBootRegistry[cl.worker] = cl.boot
           /\ InvalidateWorker(cl.worker, cl.boot)
        \/ /\ ~(th.haveWorker /\ workerBootRegistry[cl.worker] = cl.boot)
           /\ UNCHANGED vars
    BY <1>18 DEF EndThread
  <2> HIDE DEF c
  <2>5. Coord!Disconnect(p)
    <3>1. [q \in Procs |-> AsConnection(q)][p] = c
      BY <1>2
    <3>2. [q \in Procs |-> AsConnection(q)'] = [[q \in Procs |-> AsConnection(q)] EXCEPT ![p] = Coord!Free]
      BY <1>2, <2>3
    <3>3. IF c.haveWorker /\ workerBootRegistry[c.worker] = c.boot
            THEN Coord!InvalidateWorker(c.worker, c.boot) ELSE UNCHANGED Coord!vars
      BY <2>2, <2>4, SameCalls
    <3> QED
      BY <2>2, <3>1, <3>2, <3>3 DEF Coord!Disconnect
  <2> QED
    BY <2>5 DEF Coord!CoordNext, Coord!ThreadStep
<1> QED
  BY <1>8, <1>9, <1>10, <1>11, <1>12, <1>13, <1>14, <1>15, <1>16, <1>17, <1>18 DEF ThreadStep

(* The sessions are behaviours of the coordinator: what is proved of every     *)
(* order in which its clients come, report and go holds of the programs.       *)
THEOREM CoordinatorRefined == SessionSpec => ImplementsCoordinator
<1>1. SessionInit => Coord!CoordInit
  <2> SUFFICES ASSUME SessionInit PROVE Coord!CoordInit
    OBVIOUS
  <2>1. \A q \in Procs : AsConnection(q) = Coord!Free
    BY DEF SessionInit, AsConnection, Serving, NoThread, Coord!Free
  <2>2. Init
    BY DEF SessionInit
  <2> QED
    BY <2>1, <2>2, SameCalls DEF Coord!CoordInit
<1>2. SessionInv /\ [SessionNext]_sessionVars
        => [UNCHANGED Coord!coordVars \/ Coord!CoordNext]_(Coord!coordVars)
  <2> SUFFICES ASSUME SessionInv, [SessionNext]_sessionVars
               PROVE  UNCHANGED Coord!coordVars \/ Coord!CoordNext
    OBVIOUS
  <2>1. CASE UNCHANGED sessionVars
    <3>1. UNCHANGED vars /\ proc' = proc /\ thread' = thread
      BY <2>1 DEF sessionVars
    <3>2. [q \in Procs |-> AsConnection(q)'] = [q \in Procs |-> AsConnection(q)]
      BY <3>1 DEF AsConnection, Serving
    <3> QED
      BY <3>1, <3>2, SameCalls DEF Coord!coordVars
  <2>2. CASE SessionNext
    BY <2>2, ProgramRefined, ThreadRefined DEF SessionNext
  <2> QED
    BY <2>1, <2>2
<1> QED
  BY <1>1, <1>2, SessionAlways, PTL DEF SessionSpec, ImplementsCoordinator
=============================================================================
