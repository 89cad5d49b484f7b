----------------------------- MODULE Validation -----------------------------
(***************************************************************************)
(* One validation of a GPU: the eleven steps of CudaBackend::runValidation *)
(* with every call of the CUDA runtime (external) that can fail, other     *)
(* tenants of the GPUs allocating and releasing memory meanwhile, and the  *)
(* scripted FakeBackend that stands in for it in tests.                    *)
(*                                                                         *)
(* Memory is counted in units; a step is its number.  The knobs of both    *)
(* backends are forced: "none", "failure", or a forced numerical mismatch  *)
(* with an error above the limit of 1e-6 ("mismatch") or not above it, NaN *)
(* included ("slight").                                                    *)
(***************************************************************************)
EXTENDS Integers, Sequences

CONSTANTS
  Gpus,             \* the GPUs, 1 .. the device count
  AskedFor,         \* the ids a caller may pass
  BufferSize,       \* the validation buffer: 4 MiB
  Tolerance,        \* memoryTolerance_: 4 MiB unless set
  Capacity,         \* units of memory of a GPU
  MaxOthers         \* bound on what other tenants use of a GPU

ASSUME ValidationAssumption ==
  /\ Gpus \subseteq Nat \ {0} /\ 1 \in Gpus /\ AskedFor \subseteq Nat
  /\ BufferSize \in Nat \ {0} /\ Tolerance \in Nat
  /\ Capacity \in Nat /\ MaxOthers \in Nat

VARIABLES
  forced,           \* the knob that is set
  run,              \* the locals of runValidation, and its result
  current,          \* the GPU the thread's CUDA calls go to
  held,             \* GPU -> units the validation has allocated there
  others,           \* GPU -> units other tenants have
  content,          \* what the buffer holds once the kernel has run
  failures,         \* not in the code: the calls of this run that have failed
  tenants           \* not in the code: what other tenants have done, "grew", "shrank"

history == <<failures, tenants>>
deviceVars == <<current, held, others, content>>
valVars == <<forced, run, deviceVars, history>>

Profiles == {"BASIC", "MEMORY", "TRANSFER", "EXECUTION", "NUMERICAL", "FULL"}

Depth(profile) ==
  CASE profile = "FULL" -> 7 [] profile = "NUMERICAL" -> 6 [] profile = "EXECUTION" -> 5
    [] profile = "TRANSFER" -> 4 [] profile = "MEMORY" -> 3 [] OTHER -> 2

Result(passed, depth, steps) == [passed |-> passed, depth |-> depth, steps |-> steps]

AllSteps == [n \in 1 .. 11 |-> n]
ForcedStep == 0     \* "synthetic failure forced"

(* FakeBackend::runValidation: it looks at the knobs only, and a forced        *)
(* mismatch fails however slight it is (the knob that cuts the list of steps   *)
(* short is left out).                                                         *)
FakeResult(profile) ==
  CASE forced = "failure" -> Result(FALSE, 0, <<ForcedStep>>)
    [] forced = "none"    -> Result(TRUE, Depth(profile), AllSteps)
    [] OTHER              -> Result(FALSE, 0, AllSteps)

-----------------------------------------------------------------------------
(* before is the use of the GPU baselineOf, and had is not in the code: what   *)
(* earlier runs have left allocated.                                           *)
Idle ==
  [pc |-> "idle", id |-> 0, profile |-> "FULL", ok |-> TRUE, buffer |-> FALSE,
   before |-> 0, baselineOf |-> 0, had |-> held, result |-> Result(FALSE, 0, <<>>)]

(* A failure forced on the backend is all there is to the run. *)
Begin(id, profile) ==
  /\ run.pc \in {"idle", "done"}
  /\ run' = [Idle EXCEPT !.id = id, !.profile = profile,
       !.pc = IF forced = "failure" THEN "done" ELSE "enumerate",
       !.result.steps = IF forced = "failure" THEN <<ForcedStep>> ELSE <<1>>]
  /\ content' = "none" /\ failures' = {} /\ tenants' = {}
  /\ UNCHANGED <<forced, current, held, others>>

(* The call at this point succeeds and its step is recorded. *)
Does(call, step, next) ==
  /\ run.pc = call
  /\ run' = [run EXCEPT !.pc = next, !.result.steps = Append(@, step)]
  /\ UNCHANGED <<forced, history>>

(* Early returns: there is nothing to clean up on the GPU yet. *)
GivesUp(call) ==
  /\ run.pc = call
  /\ run' = [run EXCEPT !.pc = "done", !.ok = FALSE]
  /\ failures' = failures \cup {call}
  /\ UNCHANGED <<forced, tenants, deviceVars>>

(* After a failure the remaining calls are passed over; the cleanup is not. *)
Fails(call) ==
  /\ run.pc = call
  /\ run' = [run EXCEPT !.pc = "cleanup", !.ok = FALSE]
  /\ failures' = failures \cup {call}
  /\ UNCHANGED <<forced, tenants, deviceVars>>

Enumerate ==
  \/ run.id \in Gpus /\ Does("enumerate", 2, "baseline") /\ UNCHANGED deviceVars
  \/ GivesUp("enumerate")

(* cudaMemGetInfo tells of the thread's current GPU; when it fails, zeros stay. *)
Used(g) == held[g] + others[g]

Baseline ==
  /\ run.pc = "baseline"
  /\ \/ /\ run' = [run EXCEPT !.pc = "hostAlloc", !.before = Used(current),
                             !.baselineOf = current]
        /\ UNCHANGED failures
     \/ /\ run' = [run EXCEPT !.pc = "hostAlloc"]
        /\ failures' = failures \cup {"baseline"}
  /\ UNCHANGED <<forced, tenants, deviceVars>>

(* Two host buffers; when only one of the two is refused the other is lost,    *)
(* which is not modelled: held counts the memory of the GPUs.                  *)
HostAlloc ==
  \/ /\ run.pc = "hostAlloc"
     /\ run' = [run EXCEPT !.pc = "setDevice"]
     /\ UNCHANGED <<forced, history, deviceVars>>
  \/ GivesUp("hostAlloc")

SetDevice ==
  \/ Does("setDevice", 3, "malloc") /\ current' = run.id /\ UNCHANGED <<held, others, content>>
  \/ Fails("setDevice")

Malloc ==
  \/ /\ run.pc = "malloc" /\ Used(current) + BufferSize <= Capacity
     /\ run' = [run EXCEPT !.pc = "toDevice", !.buffer = TRUE,
                           !.result.steps = Append(@, 4)]
     /\ held' = [held EXCEPT ![current] = @ + BufferSize]
     /\ UNCHANGED <<forced, history, current, others, content>>
  \/ Fails("malloc")

ToDevice ==
  \/ Does("toDevice", 5, "launch") /\ UNCHANGED deviceVars
  \/ Fails("toDevice")

(* Variant: the launcher's result is not looked at. *)
LaunchUnchecked ==
  /\ Does("launch", 6, "sync")
  /\ content' \in {"right", "wrong", "nan", "none"}
  /\ UNCHANGED <<current, held, others>>

(* The step is recorded before the launch.  A kernel that runs computes what   *)
(* it should, other numbers, or no numbers at all.                             *)
Launch ==
  \/ /\ Does("launch", 6, "sync")
     /\ content' \in {"right", "wrong", "nan"}
     /\ UNCHANGED <<current, held, others>>
  \/ /\ run.pc = "launch"
     /\ run' = [run EXCEPT !.pc = "cleanup", !.ok = FALSE, !.result.steps = Append(@, 6)]
     /\ failures' = failures \cup {"launch"}
     /\ UNCHANGED <<forced, tenants, deviceVars>>

Synchronize ==
  \/ Does("sync", 7, "toHost") /\ UNCHANGED deviceVars
  \/ Fails("sync")

ToHost ==
  \/ Does("toHost", 8, "compare") /\ UNCHANGED deviceVars
  \/ Fails("toHost")

(* Variant: the knob has no effect. *)
CompareUnforced ==
  /\ run.pc = "compare"
  /\ run' = [run EXCEPT !.pc = "cleanup", !.ok = content # "wrong",
                        !.result.steps = Append(@, 9)]
  /\ UNCHANGED <<forced, history, deviceVars>>

(* The largest error is sought with >, which no NaN satisfies.  A forced error *)
(* takes its place, so a slight one hides whatever was found.                  *)
WithinLimit ==
  CASE forced = "mismatch" -> FALSE
    [] forced = "slight"   -> TRUE
    [] OTHER               -> content # "wrong"

Compare ==
  /\ run.pc = "compare"
  /\ run' = [run EXCEPT !.pc = "cleanup",
                        !.ok = WithinLimit,
                        !.result.steps = Append(@, 9)]
  /\ UNCHANGED <<forced, history, deviceVars>>

(* The buffer is freed if there is one; whether that works is not looked at. *)
Cleanup ==
  /\ run.pc = "cleanup"
  /\ run' = [run EXCEPT !.pc = "measure", !.result.steps = Append(@, 10)]
  /\ \/ /\ held' = [held EXCEPT ![current] = IF run.buffer THEN @ - BufferSize ELSE @]
        /\ UNCHANGED failures
     \/ /\ run.buffer
        /\ failures' = failures \cup {"free"}
        /\ UNCHANGED held
  /\ UNCHANGED <<forced, tenants, current, others, content>>

(* Variant: the two measurements are taken for each other. *)
ConcludesReversed(after) ==
  LET leak   == IF run.before > after THEN run.before - after ELSE 0
      passed == run.ok /\ leak <= Tolerance
  IN  run' = [run EXCEPT !.pc = "done",
        !.result = Result(passed, IF passed THEN Depth(run.profile) ELSE 0,
                          Append(@.steps, 11))]

(* The end of the run, with after as the use it measures. *)
Concludes(after) ==
  LET leak   == IF after > run.before THEN after - run.before ELSE 0
      passed == run.ok /\ leak <= Tolerance
  IN  run' = [run EXCEPT !.pc = "done",
        !.result = Result(passed, IF passed THEN Depth(run.profile) ELSE 0,
                          Append(@.steps, 11))]

Measure ==
  /\ run.pc = "measure"
  /\ \/ Concludes(Used(current)) /\ UNCHANGED failures
     \/ Concludes(0) /\ failures' = failures \cup {"measure"}
  /\ UNCHANGED <<forced, tenants, deviceVars>>

(* Another tenant allocates or releases memory (external). *)
Grow(g) ==
  /\ others[g] < MaxOthers /\ Used(g) < Capacity
  /\ others' = [others EXCEPT ![g] = @ + 1]
  /\ tenants' = tenants \cup {"grew"}
  /\ UNCHANGED <<forced, run, current, held, content, failures>>

Shrink(g) ==
  /\ others[g] > 0
  /\ others' = [others EXCEPT ![g] = @ - 1]
  /\ tenants' = tenants \cup {"shrank"}
  /\ UNCHANGED <<forced, run, current, held, content, failures>>

-----------------------------------------------------------------------------
ValInit ==
  /\ forced \in {"none", "failure", "mismatch", "slight"}
  /\ current = 1
  /\ held = [g \in Gpus |-> 0]
  /\ others \in [Gpus -> 0 .. MaxOthers]
  /\ content = "none" /\ failures = {} /\ tenants = {}
  /\ run = Idle

ValNext ==
  \/ \E id \in AskedFor, profile \in Profiles : Begin(id, profile)
  \/ Enumerate \/ Baseline \/ HostAlloc
  \/ SetDevice \/ Malloc \/ ToDevice \/ Launch \/ Synchronize \/ ToHost \/ Compare
  \/ Cleanup \/ Measure
  \/ \E g \in Gpus : Grow(g) \/ Shrink(g)

ValSpec == ValInit /\ [][ValNext]_valVars

-----------------------------------------------------------------------------
Done == run.pc = "done"

(* A validation that has passed went through all eleven steps in order, none   *)
(* of the calls it rests on failed, and no number was off unless a slight      *)
(* forced error hides it; one that has not passed claims no depth.             *)
PassedIsEarned ==
  Done => IF run.result.passed
            THEN /\ run.result.steps = AllSteps
                 /\ failures \subseteq {"baseline", "free", "measure"}
                 /\ \/ forced = "none" /\ content \in {"right", "nan"}
                    \/ forced = "slight" /\ content \in {"right", "nan", "wrong"}
            ELSE run.result.depth = 0

(* Whatever call fails, the buffer on the GPU is given back, unless giving it  *)
(* back is what failed; and no other GPU's memory is touched.                  *)
BufferReturned ==
  Done /\ "free" \notin failures => held = run.had

(* A run that loses more memory than is tolerated does not pass, unless the    *)
(* measurement itself failed, was of another GPU, or another tenant made up    *)
(* for the loss.                                                               *)
LeakNoticed ==
  Done /\ run.result.passed =>
    \/ \A g \in Gpus : held[g] - run.had[g] <= Tolerance
    \/ "measure" \in failures \/ run.baselineOf # run.id \/ "shrank" \in tenants

(* The stand-in is one, but for one knob: of a run nothing disturbs, the CUDA  *)
(* backend returns the result, depth and steps that FakeBackend returns under  *)
(* the same knobs, except that a forced mismatch of at most 1e-6 passes on the *)
(* CUDA backend and fails on the fake, after the same steps.                   *)
UndisturbedMatchesFake ==
  /\ Done /\ run.id \in Gpus /\ failures = {} /\ tenants = {}
  /\ content # "wrong"
  /\ forced # "failure" => run.baselineOf = run.id
  => LET fake == FakeResult(run.profile) IN
     IF forced = "slight"
       THEN run.result.passed /\ ~fake.passed /\ run.result.steps = fake.steps
       ELSE run.result = fake
=============================================================================
