----------------------------- MODULE CreateOnce -----------------------------
(***************************************************************************)
(* What a create-only destination promises when only its writers touch it: *)
(* it is empty or holds the whole tree of one writer, it is never replaced,*)
(* a writer that is told it won stays published for ever, and a crash can  *)
(* take back only a publication nobody was told about.                     *)
(***************************************************************************)
CONSTANTS Writers, None

VARIABLES
  published,    \* the writer whose tree is at the destination, or None
  outcome       \* what each writer was told

onceVars == <<published, outcome>>

OnceInit ==
  /\ published = None
  /\ outcome = [w \in Writers |-> "open"]

Publish(w) ==
  /\ published = None
  /\ outcome[w] = "open"
  /\ published' = w
  /\ UNCHANGED outcome

Win(w) ==
  /\ published = w
  /\ outcome[w] = "open"
  /\ outcome' = [outcome EXCEPT ![w] = "won"]
  /\ UNCHANGED published

Lose(w) ==
  /\ outcome[w] = "open"
  /\ outcome' = [outcome EXCEPT ![w] = "lost"]
  /\ UNCHANGED published

\* A crash: the writers S are never told anything.
Forget(S) ==
  /\ \A w \in S : outcome[w] = "open"
  /\ outcome' = [w \in Writers |-> IF w \in S THEN "lost" ELSE outcome[w]]
  /\ \/ UNCHANGED published
     \/ /\ published # None
        /\ outcome'[published] = "lost"
        /\ published' = None

OnceNext ==
  \/ \E w \in Writers : Publish(w) \/ Win(w) \/ Lose(w)
  \/ \E S \in SUBSET Writers : Forget(S)

OnceSpec == OnceInit /\ [][OnceNext]_onceVars
=============================================================================
