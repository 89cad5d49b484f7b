---------------------------- MODULE StateMachine ----------------------------
(***************************************************************************)
(* The StateMachine class: a health state that moves along the declared    *)
(* transitions and counts its moves.  The variable earned is not in the    *)
(* code: it records whether, since the machine was last in a state that    *)
(* calls for recovery, it has passed a gate to HEALTHY.                     *)
(***************************************************************************)
EXTENDS Transitions, Sequences, TLAPS

CONSTANT MaxGeneration      \* bound on the transition counter

ASSUME MaxGenerationAssumption == MaxGeneration \in Nat

VARIABLES state, generation, earned

vars == <<state, generation, earned>>

Gates == {"INITIALIZING", "OFFLINE", "REVALIDATING"}
NeedRecovery ==
  {"UNHEALTHY", "FAILED", "DRAINING", "DRAINED", "QUARANTINED", "RECOVERING", "LOST"}

(* The documented recovery sequences follow declared transitions. *)
ASSUME RecoverySequencesLegal ==
  \A seq \in {RecoverySequenceFromUnhealthy, RecoverySequenceFromFailed} :
    \A i \in 1 .. Len(seq) - 1 : CanTransition(seq[i], seq[i + 1])

(* The constructor accepts any initial state. *)
Init ==
  /\ state \in HealthStates
  /\ generation = 0
  /\ earned = (state \notin NeedRecovery)

(* Variant: only "no move to the state one is in" is checked. *)
TransitionUnchecked(to) ==
  /\ to # state
  /\ generation < MaxGeneration
  /\ state' = to
  /\ generation' = generation + 1
  /\ earned' = (to \notin NeedRecovery /\ (earned \/ to \in Gates))

(* transitionTo; an illegal target throws and changes nothing. *)
TransitionTo(to) ==
  /\ CanTransition(state, to)
  /\ generation < MaxGeneration
  /\ state' = to
  /\ generation' = generation + 1
  /\ earned' = (to \notin NeedRecovery /\ (earned \/ to \in Gates))

Next == \E to \in HealthStates : TransitionTo(to)

Spec == Init /\ [][Next]_vars

-----------------------------------------------------------------------------
(* The machine's variables hold values of their types. *)
TypeOK ==
  /\ state \in HealthStates
  /\ generation \in 0 .. MaxGeneration
  /\ earned \in BOOLEAN

(* No path bypasses recovery: a machine that needed recovery is not HEALTHY,   *)
(* nor DEGRADED, before it has been revalidated or enumerated afresh.          *)
NoBypass == state \in {"HEALTHY", "DEGRADED"} => earned

-----------------------------------------------------------------------------
(* The strengthening of NoBypass that every transition preserves: a machine    *)
(* not known to have earned its state is still where recovery is needed.       *)
UnearnedStates ==
  /\ TypeOK
  /\ ~earned => state \in NeedRecovery

(* Every legal transition keeps the type invariant and the unearned states, so *)
(* no chain of transitionTo calls bypasses recovery.                           *)
THEOREM NoBypassAlways == Spec => []NoBypass
<1> USE MaxGenerationAssumption DEF MaxGenerationAssumption
<1>1. Init => UnearnedStates
  <2> SUFFICES ASSUME Init PROVE UnearnedStates
    OBVIOUS
  <2>1. generation \in 0 .. MaxGeneration
    BY DEF Init
  <2>2. earned \in BOOLEAN /\ (~earned => state \in NeedRecovery)
    BY Zenon DEF Init
  <2> QED
    BY <2>1, <2>2 DEF Init, UnearnedStates, TypeOK
<1>2. UnearnedStates /\ [Next]_vars => UnearnedStates'
  <2> SUFFICES ASSUME UnearnedStates, [Next]_vars PROVE UnearnedStates'
    OBVIOUS
  <2>1. ASSUME NEW to \in HealthStates, TransitionTo(to) PROVE UnearnedStates'
    <3>1. state' \in HealthStates /\ generation' \in 0 .. MaxGeneration
      BY <2>1 DEF TransitionTo, UnearnedStates, TypeOK
    <3>2. earned' \in BOOLEAN
      BY <2>1, Zenon DEF TransitionTo
    <3>3. ~earned' => to \in NeedRecovery \/ (~earned /\ to \notin Gates)
      BY <2>1, Zenon DEF TransitionTo
    <3>4. ~earned /\ to \notin Gates => to \in NeedRecovery
      BY <2>1 DEF UnearnedStates, TypeOK, TransitionTo, CanTransition, LegalFrom,
                  NeedRecovery, Gates, HealthStates
    <3> QED
      BY <2>1, <3>1, <3>2, <3>3, <3>4 DEF UnearnedStates, TypeOK, TransitionTo
  <2>2. CASE UNCHANGED vars
    BY <2>2 DEF UnearnedStates, TypeOK, vars
  <2> QED
    BY <2>1, <2>2 DEF Next
<1>3. UnearnedStates => NoBypass
  BY DEF UnearnedStates, NoBypass, NeedRecovery
<1> QED
  BY <1>1, <1>2, <1>3, PTL DEF Spec
=============================================================================
