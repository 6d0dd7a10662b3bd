----------------------------- MODULE MCPacketAck -----------------------------
(* PacketAck with the constants of its .cfg files. *)
EXTENDS PacketAck
=============================================================================
