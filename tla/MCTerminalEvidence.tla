------------------------- MODULE MCTerminalEvidence -------------------------
(***************************************************************************)
(* Packets with one payload in a directory, manifest and completion.       *)
(***************************************************************************)
EXTENDS TerminalEvidence

OnePayload == <<"payload">>
=============================================================================
