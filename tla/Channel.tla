------------------------------ MODULE Channel ------------------------------
(***************************************************************************)
(* What framing promises to the two ends of a connection: the frames that  *)
(* are delivered are frames that were sent, whole, each at most once and   *)
(* in order.  A reader that goes on after an error may miss some; one that *)
(* leaves has seen all up to the error.                                    *)
(***************************************************************************)
EXTENDS SequencesExt, Naturals

CONSTANT Frames

VARIABLES
  sent, delivered,
  persists      \* whether the reader goes on after an error

Init ==
  /\ sent = <<>> /\ delivered = <<>>
  /\ persists \in BOOLEAN

(* part is whole with some of its elements left out. *)
WithGaps(part, whole) ==
  \E at \in [1 .. Len(part) -> 1 .. Len(whole)] :
    /\ \A i, j \in 1 .. Len(part) : i < j => at[i] < at[j]
    /\ \A i \in 1 .. Len(part) : part[i] = whole[at[i]]

Send(f) ==
  /\ sent' = Append(sent, f)
  /\ UNCHANGED <<delivered, persists>>

Deliver(f) ==
  /\ delivered' = Append(delivered, f)
  /\ IF persists THEN WithGaps(delivered', sent) ELSE IsPrefix(delivered', sent)
  /\ UNCHANGED <<sent, persists>>

Next == \E f \in Frames : Send(f) \/ Deliver(f)

Spec == Init /\ [][Next]_<<sent, delivered, persists>>
=============================================================================
