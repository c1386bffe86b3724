--------------------------- MODULE MCPacketBuffer ---------------------------
(* Model-checking instance of PacketBuffer: four slots, so that a removal   *)
(* from the middle of the list has neighbours on both sides and a freed     *)
(* slot is reused out of order.                                             *)
EXTENDS PacketBuffer
=============================================================================
