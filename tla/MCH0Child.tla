------------------------------ MODULE MCH0Child ------------------------------
(***************************************************************************)
(* The frames of session.rs: offer, commits, reveals, the bound and the    *)
(* closed result with the generator; bootstrap and bound with the worker.  *)
(***************************************************************************)
EXTENDS H0Child

SessionScript ==
  [r \in Role |->
     IF r = "Generator"
     THEN <<"send", "recv", "send", "recv", "send", "recv", "send">>
     ELSE <<"boot", "recv">>]
=============================================================================
