-------------------------- MODULE ValidationProofs --------------------------
(***************************************************************************)
(* What Validation checks for two GPUs, proved for any number of them, any *)
(* sizes of memory, buffer and tolerance, any number of runs and any       *)
(* tenants beside them.                                                    *)
(***************************************************************************)
EXTENDS Validation, TLAPS

Early  == {"enumerate", "baseline", "hostAlloc", "setDevice"}
Buffered == {"toDevice", "launch", "sync", "toHost", "compare"}
OnGpu  == {"malloc"} \cup Buffered
Ending == {"cleanup", "measure"}
Places == {"idle", "done"} \cup Early \cup OnGpu \cup Ending

(* Calls whose failure the run does not notice. *)
Soft == {"baseline", "free", "measure"}
Clean == failures \subseteq Soft

Contents == {"right", "wrong", "nan"}

Upto(k) == [n \in 1 .. k |-> n]

(* How many steps a run that nothing has stopped has recorded. *)
Recorded(pc) ==
  CASE pc = "enumerate" -> 1
    [] pc \in {"baseline", "hostAlloc", "setDevice"} -> 2
    [] pc = "malloc" -> 3
    [] pc = "toDevice" -> 4
    [] pc = "launch" -> 5
    [] pc = "sync" -> 6
    [] pc = "toHost" -> 7
    [] pc = "compare" -> 8
    [] pc = "cleanup" -> 9
    [] OTHER -> 10

-----------------------------------------------------------------------------
(* The inductive invariant, in parts *)

RunType ==
  [pc: Places, id: Nat, profile: Profiles, ok: BOOLEAN, buffer: BOOLEAN,
   before: Nat, baselineOf: Nat, had: [Gpus -> Nat],
   result: [passed: BOOLEAN, depth: Nat, steps: Seq(Nat)]]

Typed ==
  /\ forced \in {"none", "failure", "mismatch", "slight"}
  /\ run \in RunType
  /\ current \in Gpus
  /\ held \in [Gpus -> Nat]
  /\ others \in [Gpus -> Nat]
  /\ content \in Contents \cup {"none"}

(* What is allocated on the GPUs beyond what earlier runs left there. *)
Memory ==
  /\ run.pc \in Buffered => run.buffer
  /\ run.pc \in {"idle", "malloc"} \cup Early => ~run.buffer
  /\ ~run.buffer => held = run.had
  /\ run.buffer /\ run.pc \in Buffered \cup {"cleanup"} =>
       held = [run.had EXCEPT ![current] = @ + BufferSize]
  /\ run.pc \in {"measure", "done"} /\ "free" \notin failures => held = run.had
  /\ run.pc = "measure" => \A g \in Gpus : g # current => held[g] = run.had[g]

(* Which GPU the calls go to, and what the baseline says of it. *)
Placed ==
  /\ run.pc \in (Early \ {"enumerate"}) \cup OnGpu \cup Ending => run.id \in Gpus
  /\ run.pc \in OnGpu => current = run.id
  /\ run.pc \in Ending /\ Clean => current = run.id
  /\ run.pc \in {"enumerate", "baseline"} => run.baselineOf = 0
  /\ run.pc \in {"hostAlloc", "setDevice"} \cup OnGpu \cup Ending /\ run.baselineOf = run.id =>
       /\ "shrank" \notin tenants => run.before <= run.had[run.id] + others[run.id]
       /\ tenants = {} => run.before = run.had[run.id] + others[run.id]

(* How far the run has come and what it knows. *)
Progress ==
  /\ run.pc # "done" => ~run.result.passed /\ run.result.depth = 0
  /\ run.pc \notin {"idle", "done"} => forced # "failure"
  /\ run.pc \in Early \cup OnGpu => run.ok /\ Clean
  /\ run.pc \in Ending /\ ~Clean => ~run.ok
  /\ run.pc \in Early \cup OnGpu \cup Ending /\ Clean =>
       run.result.steps = Upto(Recorded(run.pc))
  /\ run.pc \in {"sync", "toHost", "compare"} => content \in Contents
  /\ run.pc \in Ending /\ Clean =>
       content \in Contents /\ run.ok = WithinLimit

Finished ==
  PassedIsEarned /\ BufferReturned /\ LeakNoticed /\ UndisturbedMatchesFake

ValInv == Typed /\ Memory /\ Placed /\ Progress /\ Finished
-----------------------------------------------------------------------------
(* The steps recorded so far and the next one are the steps recorded then. *)
LEMMA UptoGrows ==
  ASSUME NEW k \in Nat, NEW m \in Nat, m = k + 1
  PROVE  Upto(k) \in Seq(Nat) /\ Append(Upto(k), m) = Upto(m)
<1>1. Upto(k) \in Seq(Nat) /\ Len(Upto(k)) = k
  BY DEF Upto
<1>2. Append(Upto(k), m) \in Seq(Nat) /\ Len(Append(Upto(k), m)) = m
  BY <1>1
<1>3. \A n \in 1 .. m : Append(Upto(k), m)[n] = n
  BY <1>1 DEF Upto
<1>4. QED
  BY <1>1, <1>2, <1>3 DEF Upto

(* ... spelt out for the eleven steps of runValidation. *)
LEMMA StepsGrow ==
  /\ \A k \in 0 .. 11 : Upto(k) \in Seq(Nat)
  /\ <<1>> = Upto(1)
  /\ Append(Upto(1), 2) = Upto(2)
  /\ Append(Upto(2), 3) = Upto(3)
  /\ Append(Upto(3), 4) = Upto(4)
  /\ Append(Upto(4), 5) = Upto(5)
  /\ Append(Upto(5), 6) = Upto(6)
  /\ Append(Upto(6), 7) = Upto(7)
  /\ Append(Upto(7), 8) = Upto(8)
  /\ Append(Upto(8), 9) = Upto(9)
  /\ Append(Upto(9), 10) = Upto(10)
  /\ Append(Upto(10), 11) = AllSteps
<1>1. <<1>> = Upto(1)
  BY DEF Upto
<1>2. AllSteps = Upto(11)
  BY DEF Upto, AllSteps
<1>3. ASSUME NEW k \in 0 .. 11 PROVE Upto(k) \in Seq(Nat)
  BY UptoGrows
<1>4. \A k, m \in Nat : m = k + 1 => Append(Upto(k), m) = Upto(m)
  BY UptoGrows
<1>5. /\ 2 = 1 + 1 /\ 3 = 2 + 1 /\ 4 = 3 + 1 /\ 5 = 4 + 1 /\ 6 = 5 + 1
      /\ 7 = 6 + 1 /\ 8 = 7 + 1 /\ 9 = 8 + 1 /\ 10 = 9 + 1 /\ 11 = 10 + 1
      /\ {1, 2, 3, 4, 5, 6, 7, 8, 9, 10, 11} \subseteq Nat
  OBVIOUS
<1>6. Append(Upto(1), 2) = Upto(2)
  BY <1>4, <1>5, Zenon
<1>7. Append(Upto(2), 3) = Upto(3)
  BY <1>4, <1>5, Zenon
<1>8. Append(Upto(3), 4) = Upto(4)
  BY <1>4, <1>5, Zenon
<1>9. Append(Upto(4), 5) = Upto(5)
  BY <1>4, <1>5, Zenon
<1>10. Append(Upto(5), 6) = Upto(6)
  BY <1>4, <1>5, Zenon
<1>11. Append(Upto(6), 7) = Upto(7)
  BY <1>4, <1>5, Zenon
<1>12. Append(Upto(7), 8) = Upto(8)
  BY <1>4, <1>5, Zenon
<1>13. Append(Upto(8), 9) = Upto(9)
  BY <1>4, <1>5, Zenon
<1>14. Append(Upto(9), 10) = Upto(10)
  BY <1>4, <1>5, Zenon
<1>15. Append(Upto(10), 11) = Upto(11)
  BY <1>4, <1>5, Zenon
<1>16. QED
  BY <1>1, <1>2, <1>3, <1>6, <1>7, <1>8, <1>9, <1>10, <1>11, <1>12, <1>13, <1>14, <1>15, Zenon

(* The depths of the profiles are numbers. *)
LEMMA DepthType == \A profile \in Profiles : Depth(profile) \in Nat
  BY DEF Depth, Profiles

-----------------------------------------------------------------------------
(* A backend that has not run anything satisfies the invariant. *)
LEMMA ValInitial == ValInit => ValInv
<1> SUFFICES ASSUME ValInit PROVE ValInv
  OBVIOUS
<1> USE ValidationAssumption
<1>1. Typed
  BY DEF ValInit, Idle, Result, Typed, RunType, Places, Profiles
<1>2. Memory /\ Placed /\ Progress /\ Finished
  BY DEF ValInit, Idle, Result, Memory, Placed, Progress, Finished, Done, PassedIsEarned,
         BufferReturned, LeakNoticed, UndisturbedMatchesFake, Early, OnGpu, Buffered, Ending
<1>3. QED
  BY <1>1, <1>2 DEF ValInv

-----------------------------------------------------------------------------
(* A step of the run, component by component: where it goes, whether it is     *)
(* still ok, and the steps it has recorded.                                    *)
Goes(next, ok, steps) ==
  /\ run' \in RunType
  /\ run'.pc = next /\ run'.ok = ok /\ run'.result.steps = steps
  /\ run'.result.passed = run.result.passed /\ run'.result.depth = run.result.depth
  /\ run'.id = run.id /\ run'.profile = run.profile /\ run'.had = run.had
  /\ forced' = forced

Keeps == run'.buffer = run.buffer /\ run'.before = run.before /\ run'.baselineOf = run.baselineOf

(* A call of the runtime that succeeds, so described. *)
LEMMA DoesGoes ==
  ASSUME Typed, NEW call \in Places, NEW step \in Nat, NEW next \in Places,
         Does(call, step, next)
  PROVE  /\ Goes(next, run.ok, Append(run.result.steps, step)) /\ Keeps
         /\ run.pc = call /\ failures' = failures /\ tenants' = tenants
<1>1. Append(run.result.steps, step) \in Seq(Nat)
  BY DEF Typed, RunType
<1>2. run' = [run EXCEPT !.pc = next,
                !.result = [run.result EXCEPT !.steps = Append(run.result.steps, step)]]
  BY DEF Does, Typed, RunType
<1>3. QED
  BY <1>1, <1>2, ZenonT(60) DEF Typed, RunType, Does, Goes, Keeps, history

(* A step that also decides whether the run is still ok. *)
LEMMA StopsGoes ==
  ASSUME Typed, NEW next \in Places, NEW ok \in BOOLEAN, NEW steps \in Seq(Nat),
         run' = [run EXCEPT !.pc = next, !.ok = ok,
                            !.result = [run.result EXCEPT !.steps = steps]],
         forced' = forced
  PROVE  Goes(next, ok, steps) /\ Keeps
<1>1. run' \in RunType
  BY DEF Typed, RunType
<1>2. run'.result = [run.result EXCEPT !.steps = steps]
  BY DEF Typed, RunType
<1>3. run'.pc = next /\ run'.ok = ok /\ run'.buffer = run.buffer
  BY DEF Typed, RunType
<1>4. /\ run'.id = run.id /\ run'.profile = run.profile /\ run'.had = run.had
      /\ run'.before = run.before /\ run'.baselineOf = run.baselineOf
  BY DEF Typed, RunType
<1>5. /\ run'.result.steps = steps /\ run'.result.passed = run.result.passed
      /\ run'.result.depth = run.result.depth
  BY <1>2 DEF Typed, RunType
<1>6. QED
  BY <1>1, <1>3, <1>4, <1>5 DEF Goes, Keeps

(* A call that fails. *)
LEMMA FailsGoes ==
  ASSUME Typed, NEW call \in Places, Fails(call)
  PROVE  /\ Goes("cleanup", FALSE, run.result.steps) /\ Keeps
         /\ run.pc = call /\ failures' = failures \cup {call} /\ tenants' = tenants
         /\ UNCHANGED deviceVars
  BY DEF Typed, RunType, Fails, Goes, Keeps, Places, Ending

(* An early return. *)
LEMMA GivesUpGoes ==
  ASSUME Typed, NEW call \in Places, GivesUp(call)
  PROVE  /\ Goes("done", FALSE, run.result.steps) /\ Keeps
         /\ run.pc = call /\ failures' = failures \cup {call} /\ tenants' = tenants
         /\ UNCHANGED deviceVars
  BY DEF Typed, RunType, GivesUp, Goes, Keeps, Places

(* Most of the calls: any of them may fail, and the run goes on to its cleanup. *)
LEMMA FailsSafe ==
  ASSUME ValInv, NEW call \in {"setDevice"} \cup OnGpu, call # "compare", Fails(call)
  PROVE  ValInv'
<1> DEFINE step == /\ Goes("cleanup", FALSE, run.result.steps) /\ Keeps
                   /\ run.pc = call /\ failures' = failures \cup {call} /\ tenants' = tenants
                   /\ UNCHANGED deviceVars
<1>1. step
  BY FailsGoes DEF ValInv, Places, Early
<1>2. Typed'
  BY <1>1 DEF ValInv, Typed, Goes, deviceVars
<1>3. Memory'
  BY <1>1 DEF ValInv, Memory, Goes, Keeps, deviceVars, Early, OnGpu, Buffered
<1>4. ~Clean'
  BY <1>1 DEF Clean, Soft, OnGpu, Buffered
<1>5. Placed'
  BY <1>1, <1>4 DEF ValInv, Placed, Goes, Keeps, deviceVars, Early, OnGpu, Buffered, Ending
<1>6. Progress'
  BY <1>1, <1>4 DEF ValInv, Progress, Goes, Early, OnGpu, Buffered, Ending
<1>7. Finished'
  BY <1>1 DEF Goes, Finished, Done, PassedIsEarned, BufferReturned, LeakNoticed,
              UndisturbedMatchesFake
<1>8. QED
  BY <1>2, <1>3, <1>5, <1>6, <1>7 DEF ValInv

(* A run that has not ended has promised nothing yet. *)
LEMMA StillRunning == run'.pc # "done" => Finished'
  BY DEF Finished, Done, PassedIsEarned, BufferReturned, LeakNoticed, UndisturbedMatchesFake

(* Early returns: nothing has been allocated, and the run does not pass. *)
LEMMA GivesUpSafe ==
  ASSUME ValInv, NEW call \in {"enumerate", "hostAlloc"}, GivesUp(call)
  PROVE  ValInv'
<1> DEFINE step == /\ Goes("done", FALSE, run.result.steps) /\ Keeps
                   /\ run.pc = call /\ failures' = failures \cup {call} /\ tenants' = tenants
                   /\ UNCHANGED deviceVars
<1>1. step
  BY GivesUpGoes DEF ValInv, Places, Early
<1>2. Typed'
  BY <1>1 DEF ValInv, Typed, Goes, deviceVars
<1>3. Memory'
  BY <1>1 DEF ValInv, Memory, Goes, Keeps, deviceVars, Early, Buffered
<1>4. Placed' /\ Progress'
  BY <1>1 DEF Placed, Progress, Goes, Early, OnGpu, Buffered, Ending
<1>5. ~run'.result.passed /\ run'.result.depth = 0 /\ held' = run'.had /\ failures' # {}
  BY <1>1 DEF ValInv, Progress, Memory, Goes, deviceVars, Early
<1>6. Finished'
  BY <1>5 DEF Finished, Done, PassedIsEarned, BufferReturned, LeakNoticed,
              UndisturbedMatchesFake
<1>7. QED
  BY <1>2, <1>3, <1>4, <1>6 DEF ValInv

(* A run begins: with what earlier ones have left on the GPUs, and nothing else. *)
LEMMA BeginSafe ==
  ASSUME ValInv, NEW id \in AskedFor, NEW profile \in Profiles, Begin(id, profile)
  PROVE  ValInv'
<1> DEFINE next == IF forced = "failure" THEN "done" ELSE "enumerate"
           steps == IF forced = "failure" THEN <<ForcedStep>> ELSE Upto(1)
<1>1. /\ run' \in RunType
      /\ run'.pc = next /\ run'.id = id /\ run'.profile = profile /\ run'.ok
      /\ ~run'.buffer /\ run'.baselineOf = 0 /\ run'.had = held
      /\ run'.result = Result(FALSE, 0, steps)
  <2>1. steps \in Seq(Nat)
    BY StepsGrow DEF ForcedStep
  <2>2. run' = [pc |-> next, id |-> id, profile |-> profile, ok |-> TRUE, buffer |-> FALSE,
                before |-> 0, baselineOf |-> 0, had |-> held,
                result |-> Result(FALSE, 0, steps)]
    BY StepsGrow DEF Begin, Idle, Result
  <2>3. QED
    BY <2>1, <2>2, ValidationAssumption
    DEF ValInv, Typed, RunType, Result, Places, Early
<1>2. UNCHANGED <<forced, current, held, others>> /\ content' = "none" /\ failures' = {}
  BY DEF Begin
<1>3. Typed'
  BY <1>1, <1>2 DEF ValInv, Typed
<1>4. Memory'
  BY <1>1, <1>2 DEF Memory, Early, Buffered
<1>5. Placed'
  BY <1>1, <1>2 DEF Placed, Early, OnGpu, Buffered, Ending
<1>6. Progress'
  BY <1>1, <1>2 DEF ValInv, Typed, Progress, Clean, Soft, Recorded, Result, Early, OnGpu,
                    Buffered, Ending
<1>7. ASSUME forced = "failure" PROVE Finished'
  <2>1. run'.result = FakeResult(run.profile)' /\ ~run'.result.passed /\ run'.result.depth = 0
    BY <1>1, <1>2, <1>7 DEF FakeResult, Result
  <2>2. UndisturbedMatchesFake'
    BY <1>1, <1>2, <1>7, <2>1 DEF UndisturbedMatchesFake, FakeResult
  <2>3. QED
    BY <1>1, <1>2, <2>1, <2>2 DEF Finished, PassedIsEarned, BufferReturned, LeakNoticed
<1>8. ASSUME forced # "failure" PROVE Finished'
  BY <1>1, <1>8, StillRunning
<1>9. QED
  BY <1>3, <1>4, <1>5, <1>6, <1>7, <1>8 DEF ValInv

(* The device is found, or the run ends. *)
LEMMA EnumerateSafe == ASSUME ValInv, Enumerate PROVE ValInv'
<1>1. CASE Does("enumerate", 2, "baseline") /\ UNCHANGED deviceVars /\ run.id \in Gpus
  <2>1. /\ Goes("baseline", run.ok, Append(run.result.steps, 2)) /\ Keeps
        /\ run.pc = "enumerate" /\ failures' = failures /\ tenants' = tenants
    BY <1>1, DoesGoes DEF ValInv, Places, Early, OnGpu, Buffered, Ending
  <2>2. run'.result.steps = Upto(2)
    BY <2>1, StepsGrow DEF ValInv, Progress, Goes, Recorded, Early, OnGpu, Buffered
  <2>3. Typed'
    BY <1>1, <2>1 DEF ValInv, Typed, Goes, deviceVars
  <2>4. Memory'
    BY <1>1, <2>1 DEF ValInv, Memory, Goes, Keeps, deviceVars, Early, Buffered
  <2>5. Placed'
    BY <1>1, <2>1, ValidationAssumption DEF ValInv, Placed, Clean, Goes, Keeps, deviceVars, Early, OnGpu,
                      Buffered, Ending
  <2>6. Progress'
    BY <1>1, <2>1, <2>2 DEF ValInv, Progress, Clean, Goes, deviceVars, Recorded, Early,
                            OnGpu, Buffered, Ending
  <2>7. Finished'
    BY <2>1, StillRunning DEF Goes
  <2>8. QED
    BY <2>3, <2>4, <2>5, <2>6, <2>7 DEF ValInv
<1>2. CASE GivesUp("enumerate")
  BY <1>2, GivesUpSafe
<1>3. QED
  BY <1>1, <1>2 DEF Enumerate

(* From here on the calls go to the GPU asked for. *)
LEMMA SetDeviceSafe == ASSUME ValInv, SetDevice PROVE ValInv'
<1>1. CASE Does("setDevice", 3, "malloc") /\ current' = run.id /\ UNCHANGED <<held, others, content>>
  <2>1. /\ Goes("malloc", run.ok, Append(run.result.steps, 3)) /\ Keeps
        /\ run.pc = "setDevice" /\ failures' = failures /\ tenants' = tenants
    BY <1>1, DoesGoes DEF ValInv, Places, Early, OnGpu, Buffered, Ending
  <2>2. run'.result.steps = Upto(3)
    BY <2>1, StepsGrow DEF ValInv, Progress, Goes, Recorded, Early, OnGpu, Buffered
  <2>3. Typed'
    BY <1>1, <2>1, ValidationAssumption DEF ValInv, Typed, Goes, deviceVars, Placed, Early
  <2>4. Memory'
    BY <1>1, <2>1 DEF ValInv, Memory, Goes, Keeps, deviceVars, Early, Buffered
  <2>5. Placed'
    BY <1>1, <2>1 DEF ValInv, Placed, Clean, Goes, Keeps, deviceVars, Early, OnGpu,
                      Buffered, Ending
  <2>6. Progress'
    BY <1>1, <2>1, <2>2 DEF ValInv, Progress, Clean, Goes, deviceVars, Recorded, Early,
                            OnGpu, Buffered, Ending
  <2>7. Finished'
    BY <2>1, StillRunning DEF Goes
  <2>8. QED
    BY <2>3, <2>4, <2>5, <2>6, <2>7 DEF ValInv
<1>2. CASE Fails("setDevice")
  BY <1>2, FailsSafe DEF OnGpu, Buffered
<1>3. QED
  BY <1>1, <1>2 DEF SetDevice

(* The buffer is filled. *)
LEMMA ToDeviceSafe == ASSUME ValInv, ToDevice PROVE ValInv'
<1>1. CASE Does("toDevice", 5, "launch") /\ UNCHANGED deviceVars
  <2>1. /\ Goes("launch", run.ok, Append(run.result.steps, 5)) /\ Keeps
        /\ run.pc = "toDevice" /\ failures' = failures /\ tenants' = tenants
    BY <1>1, DoesGoes DEF ValInv, Places, Early, OnGpu, Buffered, Ending
  <2>2. run'.result.steps = Upto(5)
    BY <2>1, StepsGrow DEF ValInv, Progress, Goes, Recorded, Early, OnGpu, Buffered
  <2>3. Typed'
    BY <1>1, <2>1 DEF ValInv, Typed, Goes, deviceVars
  <2>4. Memory'
    BY <1>1, <2>1 DEF ValInv, Memory, Goes, Keeps, deviceVars, Early, Buffered
  <2>5. Placed'
    BY <1>1, <2>1 DEF ValInv, Placed, Clean, Goes, Keeps, deviceVars, Early, OnGpu,
                      Buffered, Ending
  <2>6. Progress'
    BY <1>1, <2>1, <2>2 DEF ValInv, Progress, Clean, Goes, deviceVars, Recorded, Early,
                            OnGpu, Buffered, Ending
  <2>7. Finished'
    BY <2>1, StillRunning DEF Goes
  <2>8. QED
    BY <2>3, <2>4, <2>5, <2>6, <2>7 DEF ValInv
<1>2. CASE Fails("toDevice")
  BY <1>2, FailsSafe DEF OnGpu, Buffered
<1>3. QED
  BY <1>1, <1>2 DEF ToDevice

(* The kernel is waited for. *)
LEMMA SynchronizeSafe == ASSUME ValInv, Synchronize PROVE ValInv'
<1>1. CASE Does("sync", 7, "toHost") /\ UNCHANGED deviceVars
  <2>1. /\ Goes("toHost", run.ok, Append(run.result.steps, 7)) /\ Keeps
        /\ run.pc = "sync" /\ failures' = failures /\ tenants' = tenants
    BY <1>1, DoesGoes DEF ValInv, Places, Early, OnGpu, Buffered, Ending
  <2>2. run'.result.steps = Upto(7)
    BY <2>1, StepsGrow DEF ValInv, Progress, Goes, Recorded, Early, OnGpu, Buffered
  <2>3. Typed'
    BY <1>1, <2>1 DEF ValInv, Typed, Goes, deviceVars
  <2>4. Memory'
    BY <1>1, <2>1 DEF ValInv, Memory, Goes, Keeps, deviceVars, Early, Buffered
  <2>5. Placed'
    BY <1>1, <2>1 DEF ValInv, Placed, Clean, Goes, Keeps, deviceVars, Early, OnGpu,
                      Buffered, Ending
  <2>6. Progress'
    BY <1>1, <2>1, <2>2 DEF ValInv, Progress, Clean, Goes, deviceVars, Recorded, Early,
                            OnGpu, Buffered, Ending
  <2>7. Finished'
    BY <2>1, StillRunning DEF Goes
  <2>8. QED
    BY <2>3, <2>4, <2>5, <2>6, <2>7 DEF ValInv
<1>2. CASE Fails("sync")
  BY <1>2, FailsSafe DEF OnGpu, Buffered
<1>3. QED
  BY <1>1, <1>2 DEF Synchronize

(* The buffer is read back. *)
LEMMA ToHostSafe == ASSUME ValInv, ToHost PROVE ValInv'
<1>1. CASE Does("toHost", 8, "compare") /\ UNCHANGED deviceVars
  <2>1. /\ Goes("compare", run.ok, Append(run.result.steps, 8)) /\ Keeps
        /\ run.pc = "toHost" /\ failures' = failures /\ tenants' = tenants
    BY <1>1, DoesGoes DEF ValInv, Places, Early, OnGpu, Buffered, Ending
  <2>2. run'.result.steps = Upto(8)
    BY <2>1, StepsGrow DEF ValInv, Progress, Goes, Recorded, Early, OnGpu, Buffered
  <2>3. Typed'
    BY <1>1, <2>1 DEF ValInv, Typed, Goes, deviceVars
  <2>4. Memory'
    BY <1>1, <2>1 DEF ValInv, Memory, Goes, Keeps, deviceVars, Early, Buffered
  <2>5. Placed'
    BY <1>1, <2>1 DEF ValInv, Placed, Clean, Goes, Keeps, deviceVars, Early, OnGpu,
                      Buffered, Ending
  <2>6. Progress'
    BY <1>1, <2>1, <2>2 DEF ValInv, Progress, Clean, Goes, deviceVars, Recorded, Early,
                            OnGpu, Buffered, Ending
  <2>7. Finished'
    BY <2>1, StillRunning DEF Goes
  <2>8. QED
    BY <2>3, <2>4, <2>5, <2>6, <2>7 DEF ValInv
<1>2. CASE Fails("toHost")
  BY <1>2, FailsSafe DEF OnGpu, Buffered
<1>3. QED
  BY <1>1, <1>2 DEF ToHost

(* The baseline is measured, of whatever GPU is current, or stays zero. *)
LEMMA BaselineSafe == ASSUME ValInv, Baseline PROVE ValInv'
<1>1. /\ Goes("hostAlloc", run.ok, run.result.steps) /\ run'.buffer = run.buffer
      /\ run.pc = "baseline" /\ tenants' = tenants /\ UNCHANGED deviceVars
      /\ failures' = failures \/ failures' = failures \cup {"baseline"}
      /\ \/ run'.before = Used(current) /\ run'.baselineOf = current
         \/ run'.before = run.before /\ run'.baselineOf = run.baselineOf
  <2>1. Used(current) \in Nat
    BY DEF ValInv, Typed, Used
  <2>2. current \in Nat
    BY ValidationAssumption DEF ValInv, Typed
  <2>3. QED
    BY <2>1, <2>2, ZenonT(60) DEF ValInv, Typed, RunType, Baseline, Goes, Places, Early
<1>2. Typed'
  BY <1>1 DEF ValInv, Typed, Goes, deviceVars
<1>3. Memory'
  BY <1>1 DEF ValInv, Memory, Goes, deviceVars, Early, Buffered
<1>4. run.id \in Gpus /\ run.id # 0 /\ run.baselineOf = 0 /\ held = run.had
  BY <1>1, ValidationAssumption DEF ValInv, Placed, Memory, Early
<1>5. Used(current) = run.had[current] + others[current]
  BY <1>4 DEF Used
<1>6. Used(current) \in Nat
  BY DEF ValInv, Typed, Used
<1>7. Placed'
  BY <1>1, <1>4, <1>5, <1>6 DEF Placed, Goes, deviceVars, Early, OnGpu, Buffered, Ending
<1>8. Progress'
  BY <1>1 DEF ValInv, Progress, Clean, Soft, Goes, deviceVars, Recorded, Early, OnGpu,
              Buffered, Ending
<1>9. Finished'
  BY <1>1, StillRunning DEF Goes
<1>10. QED
  BY <1>2, <1>3, <1>7, <1>8, <1>9 DEF ValInv

(* Memory of the host; what was allocated of it is not modelled. *)
LEMMA HostAllocSafe == ASSUME ValInv, HostAlloc PROVE ValInv'
<1>1. CASE /\ run.pc = "hostAlloc"
           /\ run' = [run EXCEPT !.pc = "setDevice"]
           /\ UNCHANGED <<forced, history, deviceVars>>
  <2>1. /\ Goes("setDevice", run.ok, run.result.steps) /\ Keeps
        /\ failures' = failures /\ tenants' = tenants
    BY <1>1 DEF ValInv, Typed, RunType, Goes, Keeps, Places, Early, history
  <2>2. Typed'
    BY <1>1, <2>1 DEF ValInv, Typed, Goes, deviceVars
  <2>3. Memory'
    BY <1>1, <2>1 DEF ValInv, Memory, Goes, Keeps, deviceVars, Early, Buffered
  <2>4. Placed'
    BY <1>1, <2>1 DEF ValInv, Placed, Clean, Goes, Keeps, deviceVars, Early, OnGpu, Buffered,
                      Ending
  <2>5. Progress'
    BY <1>1, <2>1 DEF ValInv, Progress, Clean, Goes, deviceVars, Recorded, Early, OnGpu,
                      Buffered, Ending
  <2>6. Finished'
    BY <2>1, StillRunning DEF Goes
  <2>7. QED
    BY <2>2, <2>3, <2>4, <2>5, <2>6 DEF ValInv
<1>2. CASE GivesUp("hostAlloc")
  BY <1>2, GivesUpSafe
<1>3. QED
  BY <1>1, <1>2 DEF HostAlloc

(* The buffer is allocated on the GPU asked for. *)
LEMMA MallocSafe == ASSUME ValInv, Malloc PROVE ValInv'
<1>1. CASE /\ run.pc = "malloc"
           /\ run' = [run EXCEPT !.pc = "toDevice", !.buffer = TRUE,
                                 !.result.steps = Append(@, 4)]
           /\ held' = [held EXCEPT ![current] = @ + BufferSize]
           /\ UNCHANGED <<forced, history, current, others, content>>
  <2>1. run.result.steps = Upto(3) /\ Upto(4) \in Seq(Nat)
    BY <1>1, StepsGrow DEF ValInv, Progress, Recorded, OnGpu
  <2>2. run' = [run EXCEPT !.pc = "toDevice", !.buffer = TRUE,
                           !.result = [run.result EXCEPT !.steps = Upto(4)]]
    BY <1>1, <2>1, StepsGrow DEF ValInv, Typed, RunType
  <2>3. /\ Goes("toDevice", run.ok, Upto(4)) /\ run'.buffer
        /\ run'.before = run.before /\ run'.baselineOf = run.baselineOf
        /\ failures' = failures /\ tenants' = tenants
    <3>1. run' \in RunType
      BY <2>1, <2>2 DEF ValInv, Typed, RunType, Places, OnGpu, Buffered
    <3>2. run'.buffer = TRUE
      BY <2>2 DEF ValInv, Typed, RunType
    <3>3. run'.result = [run.result EXCEPT !.steps = Upto(4)]
      BY <2>2 DEF ValInv, Typed, RunType
    <3>4. run'.pc = "toDevice" /\ run'.ok = run.ok
      BY <2>2 DEF ValInv, Typed, RunType
    <3>5. /\ run'.id = run.id /\ run'.profile = run.profile /\ run'.had = run.had
          /\ run'.before = run.before /\ run'.baselineOf = run.baselineOf
      BY <2>2 DEF ValInv, Typed, RunType
    <3>6. /\ run'.result.steps = Upto(4) /\ run'.result.passed = run.result.passed
          /\ run'.result.depth = run.result.depth
      BY <3>3 DEF ValInv, Typed, RunType
    <3>7. QED
      BY <1>1, <3>1, <3>2, <3>4, <3>5, <3>6 DEF Goes, history
  <2>4. Typed'
    BY <1>1, <2>3, ValidationAssumption DEF ValInv, Typed, Goes
  <2>5. Memory'
    BY <1>1, <2>3 DEF ValInv, Memory, Goes, Early, Buffered
  <2>6. Placed'
    BY <1>1, <2>3 DEF ValInv, Placed, Clean, Goes, Early, OnGpu, Buffered, Ending
  <2>7. Progress'
    BY <1>1, <2>3 DEF ValInv, Progress, Clean, Goes, Recorded, Early, OnGpu, Buffered, Ending
  <2>8. Finished'
    BY <2>3, StillRunning DEF Goes
  <2>9. QED
    BY <2>4, <2>5, <2>6, <2>7, <2>8 DEF ValInv
<1>2. CASE Fails("malloc")
  BY <1>2, FailsSafe DEF OnGpu
<1>3. QED
  BY <1>1, <1>2 DEF Malloc

(* The kernel runs, and computes something; or its launch fails. *)
LEMMA LaunchSafe == ASSUME ValInv, Launch PROVE ValInv'
<1>1. CASE /\ Does("launch", 6, "sync") /\ content' \in Contents
           /\ UNCHANGED <<current, held, others>>
  <2>1. /\ Goes("sync", run.ok, Append(run.result.steps, 6)) /\ Keeps
        /\ run.pc = "launch" /\ failures' = failures /\ tenants' = tenants
    BY <1>1, DoesGoes DEF ValInv, Places, OnGpu, Buffered
  <2>2. run'.result.steps = Upto(6)
    BY <2>1, StepsGrow DEF ValInv, Progress, Goes, Recorded, OnGpu, Buffered
  <2>3. Typed'
    BY <1>1, <2>1 DEF ValInv, Typed, Goes
  <2>4. Memory'
    BY <1>1, <2>1 DEF ValInv, Memory, Goes, Keeps, Early, Buffered
  <2>5. Placed'
    BY <1>1, <2>1 DEF ValInv, Placed, Clean, Goes, Keeps, Early, OnGpu, Buffered, Ending
  <2>6. Progress'
    BY <1>1, <2>1, <2>2 DEF ValInv, Progress, Clean, Goes, Recorded, Early, OnGpu, Buffered,
                            Ending
  <2>7. Finished'
    BY <2>1, StillRunning DEF Goes
  <2>8. QED
    BY <2>3, <2>4, <2>5, <2>6, <2>7 DEF ValInv
<1>2. CASE /\ run.pc = "launch"
           /\ run' = [run EXCEPT !.pc = "cleanup", !.ok = FALSE, !.result.steps = Append(@, 6)]
           /\ failures' = failures \cup {"launch"}
           /\ UNCHANGED <<forced, tenants, deviceVars>>
  <2>1. Append(run.result.steps, 6) \in Seq(Nat)
    BY DEF ValInv, Typed, RunType
  <2>2. run' = [run EXCEPT !.pc = "cleanup", !.ok = FALSE,
                  !.result = [run.result EXCEPT !.steps = Append(run.result.steps, 6)]]
    BY <1>2 DEF ValInv, Typed, RunType
  <2>3. "cleanup" \in Places
    BY DEF Places, Ending
  <2>4. Goes("cleanup", FALSE, Append(run.result.steps, 6)) /\ Keeps
    BY <1>2, <2>1, <2>2, <2>3, StopsGoes DEF ValInv
  <2>5. Typed'
    BY <1>2, <2>4 DEF ValInv, Typed, Goes, deviceVars
  <2>6. Memory'
    BY <1>2, <2>4 DEF ValInv, Memory, Goes, Keeps, deviceVars, Early, Buffered
  <2>7. ~Clean'
    BY <1>2 DEF Clean, Soft
  <2>8. Placed'
    BY <1>2, <2>4, <2>7 DEF ValInv, Placed, Goes, Keeps, deviceVars, Early, OnGpu, Buffered,
                            Ending
  <2>9. Progress'
    BY <1>2, <2>4, <2>7 DEF ValInv, Progress, Goes, Early, OnGpu, Buffered, Ending
  <2>10. Finished'
    BY <2>4, StillRunning DEF Goes
  <2>11. QED
    BY <2>5, <2>6, <2>8, <2>9, <2>10 DEF ValInv
<1>3. QED
  BY <1>1, <1>2 DEF Launch, Contents

(* The comparison decides whether a run nothing has stopped is still ok. *)
LEMMA CompareSafe == ASSUME ValInv, Compare PROVE ValInv'
<1> DEFINE ok == WithinLimit
<1>1. run.pc = "compare" /\ run.result.steps = Upto(8) /\ Upto(9) \in Seq(Nat)
  BY StepsGrow DEF ValInv, Compare, Progress, Recorded, OnGpu, Buffered
<1>2. run' = [run EXCEPT !.pc = "cleanup", !.ok = ok,
                         !.result = [run.result EXCEPT !.steps = Upto(9)]]
  BY <1>1, StepsGrow DEF ValInv, Typed, RunType, Compare
<1>3. "cleanup" \in Places /\ ok \in BOOLEAN
  BY DEF Places, Ending, WithinLimit
<1>4. /\ Goes("cleanup", ok, Upto(9)) /\ Keeps
      /\ failures' = failures /\ tenants' = tenants /\ UNCHANGED deviceVars
  <2> HIDE DEF ok
  <2>1. Typed /\ forced' = forced
    BY DEF ValInv, Compare
  <2>2. Goes("cleanup", ok, Upto(9)) /\ Keeps
    BY <1>1, <1>2, <1>3, <2>1, StopsGoes, Zenon
  <2>3. QED
    BY <2>2 DEF Compare, history
<1>5. Typed'
  BY <1>4 DEF ValInv, Typed, Goes, deviceVars
<1>6. Memory'
  BY <1>1, <1>4 DEF ValInv, Memory, Goes, Keeps, deviceVars, Early, Buffered
<1>7. Placed'
  BY <1>1, <1>4 DEF ValInv, Placed, Clean, Goes, Keeps, deviceVars, Early, OnGpu, Buffered,
                    Ending
<1>8. Progress'
  BY <1>1, <1>4 DEF ValInv, Progress, WithinLimit, Clean, Goes, deviceVars, Recorded, Early, OnGpu,
                    Buffered, Ending
<1>9. Finished'
  BY <1>4, StillRunning DEF Goes
<1>10. QED
  BY <1>5, <1>6, <1>7, <1>8, <1>9 DEF ValInv

(* The buffer goes back, unless cudaFree fails. *)
LEMMA CleanupSafe == ASSUME ValInv, Cleanup PROVE ValInv'
<1> DEFINE steps == Append(run.result.steps, 10)
<1>1. run.pc = "cleanup" /\ steps \in Seq(Nat)
  BY DEF ValInv, Typed, RunType, Cleanup
<1>2. run' = [run EXCEPT !.pc = "measure", !.result = [run.result EXCEPT !.steps = steps]]
  BY DEF ValInv, Typed, RunType, Cleanup
<1>3. run' \in RunType
  BY <1>1, <1>2 DEF ValInv, Typed, RunType, Places, Ending
<1>4. /\ Goes("measure", run.ok, steps) /\ Keeps
      /\ tenants' = tenants /\ UNCHANGED <<current, others, content>>
  BY <1>2, <1>3, SMTT(30) DEF ValInv, Typed, RunType, Cleanup, Goes, Keeps
<1>5. \/ held' = run.had /\ failures' = failures
      \/ /\ held' = held /\ failures' = failures \cup {"free"} /\ run.buffer
         /\ \A g \in Gpus : g # current => held[g] = run.had[g]
  <2>1. /\ held \in [Gpus -> Nat] /\ run.had \in [Gpus -> Nat] /\ current \in Gpus
        /\ run.buffer \in BOOLEAN /\ BufferSize \in Nat
    BY ValidationAssumption DEF ValInv, Typed, RunType
  <2>2. CASE run.buffer
    <3>1. held = [run.had EXCEPT ![current] = @ + BufferSize]
      BY <1>1, <2>2 DEF ValInv, Memory
    <3>2. [held EXCEPT ![current] = @ - BufferSize] = run.had
      BY <2>1, <3>1
    <3>3. \A g \in Gpus : g # current => held[g] = run.had[g]
      BY <2>1, <3>1
    <3>4. QED
      BY <2>2, <3>2, <3>3 DEF Cleanup
  <2>3. CASE ~run.buffer
    <3>1. held = run.had
      BY <2>3 DEF ValInv, Memory
    <3>2. [held EXCEPT ![current] = @] = held
      BY <2>1
    <3>3. QED
      BY <2>3, <3>1, <3>2 DEF Cleanup
  <2>4. QED
    BY <2>2, <2>3
<1>6. run.had \in [Gpus -> Nat]
  BY DEF ValInv, Typed, RunType
<1>7. Clean' <=> Clean
  BY <1>5 DEF Clean, Soft
<1>8. Typed'
  BY <1>4, <1>5, <1>6 DEF ValInv, Typed, Goes
<1>9. Memory'
  BY <1>4, <1>5 DEF Memory, Goes, Keeps, Early, Buffered
<1>10. Placed'
  BY <1>1, <1>4, <1>7 DEF ValInv, Placed, Goes, Keeps, Early, OnGpu, Buffered, Ending
<1>11. Progress'
  BY <1>1, <1>4, <1>7, StepsGrow DEF ValInv, Progress, WithinLimit, Goes, Recorded, Early, OnGpu,
                                     Buffered, Ending
<1>12. Finished'
  BY <1>4, StillRunning DEF Goes
<1>13. QED
  BY <1>8, <1>9, <1>10, <1>11, <1>12 DEF ValInv

(* Other tenants change what the baseline is compared with, and say so. *)
LEMMA TenantSafe ==
  ASSUME ValInv, NEW g \in Gpus, Grow(g) \/ Shrink(g)
  PROVE  ValInv'
<1>1. /\ UNCHANGED <<forced, run, current, held, content, failures>>
      /\ \/ /\ others' = [others EXCEPT ![g] = @ + 1] /\ tenants' = tenants \cup {"grew"}
         \/ others' = [others EXCEPT ![g] = @ - 1] /\ tenants' = tenants \cup {"shrank"}
      /\ others' \in [Gpus -> Nat]
  <2>1. CASE Grow(g)
    BY <2>1 DEF ValInv, Typed, Grow
  <2>2. CASE Shrink(g)
    BY <2>2 DEF ValInv, Typed, Shrink
  <2>3. QED
    BY <2>1, <2>2
<1>2. Typed' /\ Memory'
  BY <1>1 DEF ValInv, Typed, Memory
<1>3. Progress'
  BY <1>1 DEF ValInv, Progress, WithinLimit, Clean
<1>4. /\ tenants' # {}
      /\ "shrank" \notin tenants' =>
           /\ "shrank" \notin tenants
           /\ \A x \in Gpus : others[x] <= others'[x]
  <2>1. others \in [Gpus -> Nat]
    BY DEF ValInv, Typed
  <2>2. CASE others' = [others EXCEPT ![g] = @ + 1] /\ tenants' = tenants \cup {"grew"}
    BY <2>1, <2>2
  <2>3. CASE tenants' = tenants \cup {"shrank"}
    BY <2>3
  <2>4. QED
    BY <1>1, <2>2, <2>3
<1>5. Placed'
  <2>1. run.had \in [Gpus -> Nat] /\ others \in [Gpus -> Nat] /\ run.before \in Nat
    BY DEF ValInv, Typed, RunType
  <2>2. QED
    BY <1>1, <1>4, <2>1 DEF ValInv, Placed, Clean, Early, OnGpu, Buffered, Ending
<1>6. PassedIsEarned' /\ BufferReturned'
  BY <1>1 DEF ValInv, Finished, PassedIsEarned, BufferReturned, Done
<1>7. LeakNoticed' /\ UndisturbedMatchesFake'
  BY <1>1, <1>4 DEF ValInv, Finished, LeakNoticed, UndisturbedMatchesFake, Done
<1>8. QED
  BY <1>2, <1>3, <1>5, <1>6, <1>7 DEF ValInv, Finished

(* The end of a run that measured after, given what is true of it. *)
LEMMA ConcludesGoes ==
  ASSUME Typed, NEW after \in Nat, Concludes(after), forced' = forced
  PROVE  LET passed == run.ok /\ after - run.before <= Tolerance IN
         /\ run' \in RunType
         /\ run'.pc = "done"
         /\ run'.result.passed = passed
         /\ run'.result.depth = (IF passed THEN Depth(run.profile) ELSE 0)
         /\ run'.result.steps = Append(run.result.steps, 11)
         /\ run'.ok = run.ok /\ Keeps
         /\ run'.id = run.id /\ run'.profile = run.profile /\ run'.had = run.had
<1> DEFINE leak   == IF after > run.before THEN after - run.before ELSE 0
           passed == run.ok /\ leak <= Tolerance
           depth  == IF passed THEN Depth(run.profile) ELSE 0
           steps  == Append(run.result.steps, 11)
<1>1. passed = (run.ok /\ after - run.before <= Tolerance)
  BY ValidationAssumption DEF Typed, RunType
<1>2. passed \in BOOLEAN /\ depth \in Nat /\ steps \in Seq(Nat)
  BY DepthType DEF Typed, RunType
<1>3. run' = [run EXCEPT !.pc = "done", !.result = Result(passed, depth, steps)]
  BY DEF Concludes, Typed, RunType
<1>4. "done" \in Places
  BY DEF Places
<1> HIDE DEF passed, depth, steps
<1>5. run' \in RunType
  BY <1>2, <1>3, <1>4 DEF Typed, RunType, Result
<1>6. run'.result = Result(passed, depth, steps)
  BY <1>3 DEF Typed, RunType
<1>7. run'.result.passed = passed /\ run'.result.depth = depth /\ run'.result.steps = steps
  BY <1>6 DEF Result
<1>8. run'.pc = "done" /\ run'.ok = run.ok /\ run'.buffer = run.buffer
  BY <1>3 DEF Typed, RunType
<1>9. /\ run'.before = run.before /\ run'.baselineOf = run.baselineOf
      /\ run'.id = run.id /\ run'.profile = run.profile /\ run'.had = run.had
  BY <1>3 DEF Typed, RunType
<1>10. depth = (IF run.ok /\ after - run.before <= Tolerance THEN Depth(run.profile) ELSE 0)
  BY <1>1 DEF depth
<1>11. QED
  BY <1>1, <1>5, <1>7, <1>8, <1>9, <1>10 DEF steps, Keeps

(* The last step: the use after is compared with the use before. *)
LEMMA MeasureSafe == ASSUME ValInv, Measure PROVE ValInv'
<1>1. /\ run.pc = "measure" /\ UNCHANGED <<forced, tenants, current, held, others, content>>
      /\ \/ Concludes(Used(current)) /\ failures' = failures
         \/ Concludes(0) /\ failures' = failures \cup {"measure"}
  BY DEF Measure, deviceVars
<1>2. PICK after \in Nat :
        /\ Concludes(after)
        /\ \/ after = Used(current) /\ failures' = failures
           \/ failures' = failures \cup {"measure"}
  <2>1. Used(current) \in Nat
    BY DEF ValInv, Typed, Used
  <2>2. QED
    BY <1>1, <2>1
<1> DEFINE passed == run.ok /\ after - run.before <= Tolerance
<1>3. /\ run' \in RunType
      /\ run'.pc = "done"
      /\ run'.result.passed = passed
      /\ run'.result.depth = (IF passed THEN Depth(run.profile) ELSE 0)
      /\ run'.result.steps = Append(run.result.steps, 11)
      /\ run'.ok = run.ok /\ Keeps
      /\ run'.id = run.id /\ run'.profile = run.profile /\ run'.had = run.had
  BY <1>1, <1>2, ConcludesGoes DEF ValInv
<1>4. (Clean' <=> Clean) /\ ("free" \in failures' <=> "free" \in failures)
  BY <1>2 DEF Clean, Soft
<1>5. Typed'
  BY <1>1, <1>3 DEF ValInv, Typed
<1>6. Memory'
  BY <1>1, <1>3, <1>4 DEF ValInv, Memory, Keeps, Early, Buffered
<1>7. Placed' /\ Progress'
  BY <1>3 DEF Placed, Progress, Early, OnGpu, Buffered, Ending
<1>8. Clean => run'.result.steps = AllSteps
  BY <1>1, <1>3, StepsGrow DEF ValInv, Progress, Recorded, Ending
<1>9. /\ Clean => /\ content \in Contents
                  /\ run.ok = WithinLimit
      /\ ~Clean => ~run.ok
      /\ forced \in {"none", "mismatch", "slight"}
  BY <1>1 DEF ValInv, Typed, Progress, Ending
<1>10. PassedIsEarned'
  BY <1>1, <1>3, <1>4, <1>8, <1>9 DEF PassedIsEarned, Done, Clean, Soft, Contents, WithinLimit
<1>11. BufferReturned'
  BY <1>1, <1>3, <1>4 DEF ValInv, Memory, BufferReturned, Done
<1>12. /\ held \in [Gpus -> Nat] /\ others \in [Gpus -> Nat] /\ run.had \in [Gpus -> Nat]
       /\ run.before \in Nat /\ Tolerance \in Nat /\ run.id \in Gpus
       /\ \A g \in Gpus : g # current => held[g] = run.had[g]
       /\ Clean => current = run.id
  BY <1>1, ValidationAssumption DEF ValInv, Typed, RunType, Memory, Placed, Ending
<1>13. LeakNoticed'
  <2> SUFFICES ASSUME passed, "measure" \notin failures', run.baselineOf = run.id,
                      "shrank" \notin tenants, NEW g \in Gpus
               PROVE  held[g] - run.had[g] <= Tolerance
    BY <1>1, <1>3 DEF LeakNoticed, Done, Keeps
  <2>1. current = run.id /\ after = held[current] + others[current]
    BY <1>2, <1>9, <1>12 DEF Used
  <2>2. run.before <= run.had[run.id] + others[run.id]
    BY <1>1 DEF ValInv, Placed, Ending
  <2>3. QED
    BY <1>12, <2>1, <2>2
<1>14. UndisturbedMatchesFake'
  <2> DEFINE passes == forced = "none"
             fake   == Result(passes, IF passes THEN Depth(run.profile) ELSE 0, AllSteps)
  <2>1. FakeResult(run.profile)' = fake
    BY <1>1, <1>3, <1>9 DEF FakeResult
  <2>2. fake.passed = passes /\ fake.steps = AllSteps
    BY DEF Result
  <2> HIDE DEF fake
  <2> SUFFICES ASSUME failures' = {}, tenants = {}, content # "wrong",
                      run.baselineOf = run.id
               PROVE  IF forced = "slight"
                        THEN run'.result.passed /\ ~fake.passed /\ run'.result.steps = fake.steps
                        ELSE run'.result = fake
    BY <1>1, <1>3, <1>9, <2>1 DEF UndisturbedMatchesFake, Done, Keeps
  <2>3. Clean /\ after = Used(current) /\ "free" \notin failures
    BY <1>2 DEF Clean
  <2>4. after = run.before
    BY <1>1, <1>12, <2>3 DEF ValInv, Memory, Placed, Ending, Used
  <2>5. passed = (forced # "mismatch")
    <3>1. after - run.before <= Tolerance
      BY <1>12, <2>4
    <3>2. run.ok = (forced # "mismatch")
      BY <1>9, <2>3 DEF WithinLimit
    <3>3. QED
      BY <3>1, <3>2
  <2>6. run'.result = Result(passed, IF passed THEN Depth(run.profile) ELSE 0, AllSteps)
    BY <1>3, <1>8, <2>3 DEF RunType, Result
  <2>7. CASE forced = "slight"
    BY <1>3, <1>8, <2>2, <2>3, <2>5, <2>7
  <2>8. CASE forced # "slight"
    <3>1. passed = passes
      BY <1>9, <2>5, <2>8
    <3>2. QED
      BY <2>6, <2>8, <3>1 DEF fake
  <2>9. QED
    BY <2>7, <2>8
<1>15. QED
  BY <1>5, <1>6, <1>7, <1>10, <1>11, <1>13, <1>14 DEF ValInv, Finished

-----------------------------------------------------------------------------
(* Every step of a run and of the tenants keeps it. *)
LEMMA ValInductive == ValInv /\ [ValNext]_valVars => ValInv'
<1> SUFFICES ASSUME ValInv, [ValNext]_valVars PROVE ValInv'
  OBVIOUS
<1>1. CASE \E id \in AskedFor, profile \in Profiles : Begin(id, profile)
  BY <1>1, BeginSafe
<1>2. CASE Enumerate \/ Baseline \/ HostAlloc \/ SetDevice \/ Malloc \/ ToDevice
  BY <1>2, EnumerateSafe, BaselineSafe, HostAllocSafe, SetDeviceSafe, MallocSafe, ToDeviceSafe
<1>3. CASE Launch \/ Synchronize \/ ToHost \/ Compare \/ Cleanup \/ Measure
  BY <1>3, LaunchSafe, SynchronizeSafe, ToHostSafe, CompareSafe, CleanupSafe, MeasureSafe
<1>4. CASE \E g \in Gpus : Grow(g) \/ Shrink(g)
  BY <1>4, TenantSafe
<1>5. CASE UNCHANGED valVars
  <2>1. UNCHANGED <<forced, run, current, held, others, content, failures, tenants>>
    BY <1>5 DEF valVars, deviceVars, history
  <2>2. Typed' /\ Memory'
    BY <2>1 DEF ValInv, Typed, Memory
  <2>3. Placed' /\ Progress'
    BY <2>1 DEF ValInv, Placed, Progress, WithinLimit, Clean
  <2>4. PassedIsEarned' /\ BufferReturned' /\ LeakNoticed'
    BY <2>1 DEF ValInv, Finished, PassedIsEarned, BufferReturned, LeakNoticed, Done
  <2>5. UndisturbedMatchesFake'
    BY <2>1 DEF ValInv, Finished, UndisturbedMatchesFake, FakeResult, Done
  <2>6. QED
    BY <2>2, <2>3, <2>4, <2>5 DEF ValInv, Finished
<1>6. QED
  BY <1>1, <1>2, <1>3, <1>4, <1>5 DEF ValNext

(* It holds throughout. *)
LEMMA ValInvariant == ValSpec => []ValInv
  BY ValInitial, ValInductive, PTL DEF ValSpec

(* A validation of CudaBackend that passes has earned it, for any GPUs and     *)
(* sizes of memory, whichever calls fail and whatever other tenants do.        *)
THEOREM PassedSafe == ValSpec => []PassedIsEarned
<1>1. ValInv => PassedIsEarned
  BY DEF ValInv, Finished
<1>2. QED
  BY <1>1, ValInvariant, PTL

(* Every path through runValidation gives the buffer back, or tried to. *)
THEOREM BufferSafe == ValSpec => []BufferReturned
<1>1. ValInv => BufferReturned
  BY DEF ValInv, Finished
<1>2. QED
  BY <1>1, ValInvariant, PTL

(* A loss of more memory than is tolerated fails the run, for every tolerance, *)
(* except where the measurement cannot show it.                                *)
THEOREM LeakSafe == ValSpec => []LeakNoticed
<1>1. ValInv => LeakNoticed
  BY DEF ValInv, Finished
<1>2. QED
  BY <1>1, ValInvariant, PTL

(* FakeBackend returns what an undisturbed CudaBackend returns, except where a *)
(* mismatch of at most 1e-6 is forced, which the one fails and the other not.  *)
THEOREM FakeFaithful == ValSpec => []UndisturbedMatchesFake
<1>1. ValInv => UndisturbedMatchesFake
  BY DEF ValInv, Finished
<1>2. QED
  BY <1>1, ValInvariant, PTL

=============================================================================
