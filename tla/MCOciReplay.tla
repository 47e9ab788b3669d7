---------------------------- MODULE MCOciReplay ----------------------------
(***************************************************************************)
(* Instances of OciReplay for TLC.                                         *)
(***************************************************************************)
EXTENDS OciReplay
=============================================================================
