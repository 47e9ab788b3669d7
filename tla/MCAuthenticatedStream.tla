----------------------- MODULE MCAuthenticatedStream -----------------------
(***************************************************************************)
(* Instances of AuthenticatedStream for TLC.                               *)
(***************************************************************************)
EXTENDS AuthenticatedStream

CONSTANTS a, b

MCBlock == {a, b}
MCCaptured == <<a, b>>
=============================================================================
