--------------------------- MODULE MCPacketReopen ---------------------------
(***************************************************************************)
(* Manifest, one payload and completion; in path order the completion      *)
(* comes first.                                                            *)
(***************************************************************************)
EXTENDS PacketReopen

PathOrder == <<3, 1, 2>>
=============================================================================
