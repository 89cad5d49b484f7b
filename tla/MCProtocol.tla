----------------------------- MODULE MCProtocol -----------------------------
(* Constant values for checking Protocol with TLC. *)
EXTENDS Protocol

(* A number that is wider than a byte, a byte last, and a string. *)
ThreeFormats ==
  [t \in MessageTypes |->
     CASE t = "ACK" -> <<1, 1, StringField>>
       [] t = "VALIDATION_RESULT" -> <<2, 1>>
       [] t = "SNAPSHOT_RESPONSE" -> <<2, 2, 2, 2>>]

(* Two of these cannot be sent: for their string, for their length. *)
FourBodies ==
  {[type |-> "ACK", values |-> <<1, 0, <<1, 0>>>>],
   [type |-> "ACK", values |-> <<1, 0, <<1, 0, 1>>>>],
   [type |-> "VALIDATION_RESULT", values |-> <<2, 1>>],
   [type |-> "SNAPSHOT_RESPONSE", values |-> <<1, 2, 3, 0>>]}
=============================================================================
