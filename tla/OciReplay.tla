----------------------------- MODULE OciReplay -----------------------------
(***************************************************************************)
(* The execute session of the B4 campaign executor that replays the OCI    *)
(* image layouts and keeps their host rootfs trees                         *)
(* (generator/src/b4_campaign_executor/mod.rs, with_authenticated_oci_-    *)
(* replay, and oci_image_layout_import.rs).                                *)
(*                                                                         *)
(* The session captures custody of the executable, the campaign root and   *)
(* the prior roots, and rechecks it around every effect.  Its effect is an *)
(* inventory of N image slots, in canonical order: each archive is         *)
(* inspected and replayed into an anonymous spool, then each spool is      *)
(* materialized as a named tree and retained.  A continuation runs with    *)
(* the trees retained, between two reauthentications of them, and the      *)
(* trees are cleaned up in reverse order whatever happened.  A failure is  *)
(* a value: it owns the custody of the trees it could not remove, and its  *)
(* owner may retry their cleanup.                                          *)
(*                                                                         *)
(* What happens to one slot's tree is module RootfsPhysical; here only its *)
(* outcome counts, and the resting states of a slot are the resting states *)
(* of that module.                                                         *)
(***************************************************************************)
EXTENDS Naturals

CONSTANTS
    N,           \* image slots of the inventory (4 in the code)
    MaxDrifts,   \* bound on what the outside does
    MaxRetries   \* bound on the retries of a failure

ASSUME SizeAssumption == N \in Nat \ {0}
ASSUME BoundAssumption == MaxDrifts \in Nat /\ MaxRetries \in Nat

Slot == 1..N

(***************************************************************************)
(* A slot: a locator ("planned"), an authenticated anonymous spool         *)
(* ("staged"), a tree in custody ("retained"), or one of the ends: spool   *)
(* dropped without a tree ("discarded"), acquisition refused with nothing  *)
(* left behind ("rejected", then "resolved" once the refusal is consumed), *)
(* tree removed ("closed"), tree kept with the custody to retry            *)
(* ("recoverable"), a name that may not be removed ("quarantined"), tree   *)
(* removed but its logical abandonment refused ("terminal").               *)
(***************************************************************************)
SlotState ==
    {"planned", "staged", "retained", "discarded", "rejected", "resolved",
     "closed", "recoverable", "quarantined", "terminal"}

\* The session still holds the slot itself.
Open == {"staged", "retained"}
\* A tree may still stand under a name the session made.
Named == {"retained", "recoverable", "quarantined"}
\* An outcome that a failure keeps for a retry of its cleanup.
Unfinished == {"recoverable", "quarantined", "terminal"}

\* The failures that may become part of the session's error.
Branch ==
    {"capture", "execute", "mutationEntry", "import", "acquire",
     "mutationPost", "mutationCleanup", "reauthEntry", "continuation",
     "reauthExit", "cleanup", "completion"}

\* The failures that own the outcomes of several slots.
Aggregate == {"acquire", "mutationCleanup", "cleanup"}

Step ==
    {"capture", "preflight", "captured", "execute", "executing", "mutation",
     "inspect", "replay", "import.unwind", "acquire", "acquire.discard",
     "acquire.unwind", "mutation.exit", "mutation.cleanup", "reauth.entry",
     "continuation", "reauth.exit", "cleanup", "completion",
     "returned", "retry.current", "retry"}

\* The session has returned: what it left is in its error alone.
AtRest == {"returned", "retry.current", "retry"}

VARIABLES
    pc,       \* where the session stands
    cursor,   \* the slot it works on; 0 or N + 1 past an end
    slot,     \* the state of each slot
    owner,    \* what holds a slot: the session, or a failure
    current,  \* the slot whose acquisition failure is the primary; 0: none
    error,    \* the failures the outcome carries; {}: Ok
    sound,    \* the executable, campaign root and prior roots are unchanged
    altered,  \* slots whose retained tree no longer matches its baseline
    drifts, retries

vars == <<pc, cursor, slot, owner, current, error, sound, altered, drifts,
          retries>>

TypeOK ==
    /\ pc \in Step
    /\ cursor \in 0..(N + 1)
    /\ slot \in [Slot -> SlotState]
    /\ owner \in [Slot -> Branch \cup {"session"}]
    /\ current \in 0..N
    /\ error \subseteq Branch
    /\ sound \in BOOLEAN
    /\ altered \subseteq Slot
    /\ drifts \in 0..MaxDrifts
    /\ retries \in 0..MaxRetries

Init ==
    /\ pc = "capture"
    /\ cursor = 1
    /\ slot = [s \in Slot |-> "planned"]
    /\ owner = [s \in Slot |-> "session"]
    /\ current = 0
    /\ error = {}
    /\ sound = TRUE
    /\ altered = {}
    /\ drifts = 0
    /\ retries = 0

----------------------------------------------------------------------------
(***************************************************************************)
(* Outcomes and checks.                                                    *)
(***************************************************************************)

outside == <<sound, altered, drifts>>

\* The slip finish_outcome guards against: the postcheck's failure replaces
\* the effect's.
FinishReplaces(boundary, ok) == error' = IF ok THEN error ELSE {boundary}

\* finish_outcome: the outcome so far merged with that of a later check.
FinishOutcome(boundary, ok) ==
    error' = IF ok THEN error ELSE error \cup {boundary}

\* recheck: the executable, the campaign root, the prior roots, the campaign
\* root and the executable again.  It may fail on a sound world (an error of
\* a system call); it passes only on one.
Recheck(ok) == ok \in BOOLEAN /\ (ok => sound)

\* A recheck whose failure is returned at once (the operator `?`).
Gate(at, next, boundary, refused) ==
    /\ pc = at
    /\ \E ok \in BOOLEAN :
          /\ Recheck(ok)
          /\ FinishOutcome(boundary, ok)
          /\ pc' = IF ok THEN next ELSE refused
    /\ UNCHANGED <<cursor, slot, owner, current, outside, retries>>

\* The slot at the cursor, and what holds it, once a step of it is done.
Settle(state, holder) ==
    /\ slot' = [slot EXCEPT ![cursor] = state]
    /\ owner' = [owner EXCEPT ![cursor] = holder]

----------------------------------------------------------------------------
(***************************************************************************)
(* Entering: capture_inner, execute and with_retained_mutation.            *)
(***************************************************************************)

Capture == Gate("capture", "preflight", "capture", "returned")

\* The create-only preflight refuses a used destination, an aliased root or
\* a parent outside the campaign root.
CapturePreflight ==
    /\ pc = "preflight"
    /\ \E ok \in BOOLEAN :
          /\ FinishOutcome("capture", ok)
          /\ pc' = IF ok THEN "captured" ELSE "returned"
    /\ UNCHANGED <<cursor, slot, owner, current, outside, retries>>

CaptureConfirm == Gate("captured", "execute", "capture", "returned")

Execute == Gate("execute", "executing", "execute", "returned")
ExecuteConfirm == Gate("executing", "mutation", "execute", "returned")

MutationEntry == Gate("mutation", "inspect", "mutationEntry", "completion")

----------------------------------------------------------------------------
(***************************************************************************)
(* Importing the archives (import_authenticated_oci_outer_ustar_slots).    *)
(***************************************************************************)

\* Pass A: the archive is read once and checked against its profile.
Inspect ==
    /\ pc = "inspect"
    /\ \E ok \in BOOLEAN :
          /\ FinishOutcome("import", ok)
          /\ pc' = IF ok THEN "replay" ELSE "import.unwind"
          /\ cursor' = IF ok THEN cursor ELSE cursor - 1
    /\ UNCHANGED <<slot, owner, current, outside, retries>>

\* The slip of a loop that runs past the last slot.
ReplayOverrun ==
    /\ pc = "replay"
    /\ slot' = [slot EXCEPT ![cursor] = "staged"]
    /\ pc' = "inspect"
    /\ cursor' = cursor + 1
    /\ UNCHANGED <<error, owner, current, outside, retries>>

\* Pass B: the archive is opened and read again into an anonymous spool,
\* which is kept only if both passes observed the same image; otherwise the
\* spool is dropped, and the slot with it.
Replay ==
    /\ pc = "replay"
    /\ \/ /\ slot' = [slot EXCEPT ![cursor] = "staged"]
          /\ pc' = IF cursor = N THEN "acquire" ELSE "inspect"
          /\ cursor' = IF cursor = N THEN 1 ELSE cursor + 1
          /\ error' = error
       \/ /\ slot' = [slot EXCEPT ![cursor] = "discarded"]
          /\ pc' = "import.unwind"
          /\ cursor' = cursor - 1
          /\ FinishOutcome("import", FALSE)
    /\ UNCHANGED <<owner, current, outside, retries>>

\* discard_replayed_receipts_after_error: the staged slots, last first.
ImportUnwind ==
    /\ pc = "import.unwind"
    /\ IF cursor = 0
       THEN /\ pc' = "mutation.exit"
            /\ UNCHANGED <<cursor, slot>>
       ELSE /\ slot' = [slot EXCEPT ![cursor] = "discarded"]
            /\ cursor' = cursor - 1
            /\ pc' = pc
    /\ UNCHANGED <<owner, current, error, outside, retries>>

----------------------------------------------------------------------------
(***************************************************************************)
(* Acquiring the trees (authenticate_physical_rootfs_inventory_slots).     *)
(***************************************************************************)

\* authenticate_and_retain of one slot: RootfsPhysical from Init to a state
\* of rest.  A refusal stops the loop; the failure keeps the slot's outcome.
Acquire ==
    /\ pc = "acquire"
    /\ \/ /\ Settle("retained", "session")
          /\ pc' = IF cursor = N THEN "mutation.exit" ELSE "acquire"
          /\ cursor' = cursor + 1
          /\ UNCHANGED <<current, error>>
       \/ /\ \E refusal \in {"rejected", "recoverable", "quarantined"} :
                Settle(refusal, "acquire")
          /\ current' = cursor
          /\ FinishOutcome("acquire", FALSE)
          /\ pc' = "acquire.discard"
          /\ cursor' = N
    /\ UNCHANGED <<outside, retries>>

\* The slip of a loop that never advances.
DiscardLaterStuck ==
    /\ pc = "acquire.discard"
    /\ slot' = [slot EXCEPT ![cursor] = "discarded"]
    /\ UNCHANGED <<pc, cursor, owner, current, error, outside, retries>>

\* discard_remaining_physical_rootfs_slots: the spools after the current
\* slot, last first.
DiscardLater ==
    /\ pc = "acquire.discard"
    /\ IF cursor = current
       THEN /\ pc' = "acquire.unwind"
            /\ slot' = slot
       ELSE /\ slot' = [slot EXCEPT ![cursor] = "discarded"]
            /\ pc' = pc
    /\ cursor' = cursor - 1
    /\ UNCHANGED <<owner, current, error, outside, retries>>

\* The outcomes of cleaning up a retained tree.
CleanupOutcome == {"closed", "recoverable", "terminal"}

\* The slip of a cleanup loop that stops at the first failure.
CleanRetainedUntilFailure(branch) ==
    /\ \E o \in CleanupOutcome :
          /\ Settle(o, branch)
          /\ cursor' = IF o = "closed" THEN cursor - 1 ELSE 0
    /\ pc' = pc

\* One turn of a cleanup loop over retained slots, last first; every slot is
\* attempted whatever became of the others, and its outcome is kept.
CleanRetained(branch) ==
    /\ \E o \in CleanupOutcome : Settle(o, branch)
    /\ cursor' = cursor - 1
    /\ pc' = pc

\* cleanup_retained_physical_rootfs_slots_preserving_primary: the trees
\* before the current slot.
AcquireUnwind ==
    /\ pc = "acquire.unwind"
    /\ IF cursor = 0
       THEN /\ pc' = "mutation.exit"
            /\ UNCHANGED <<cursor, slot, owner>>
       ELSE CleanRetained("acquire")
    /\ UNCHANGED <<current, error, outside, retries>>

----------------------------------------------------------------------------
(***************************************************************************)
(* Leaving the mutation, the continuation, and the cleanup.                *)
(***************************************************************************)

\* finish_retained_mutation_outcome: the postcheck.  A tree inventory whose
\* postcheck failed is cleaned up here, an effect that failed is kept.
MutationExit ==
    /\ pc = "mutation.exit"
    /\ \E ok \in BOOLEAN :
          /\ Recheck(ok)
          /\ FinishOutcome("mutationPost", ok)
          /\ \/ /\ error # {}
                /\ pc' = "completion"
                /\ cursor' = cursor
             \/ /\ error = {} /\ ok
                /\ pc' = "reauth.entry"
                /\ cursor' = 1
             \/ /\ error = {} /\ ~ok
                /\ pc' = "mutation.cleanup"
                /\ cursor' = N
    /\ UNCHANGED <<slot, owner, current, outside, retries>>

\* The slip of a cleanup that reports the outcome of its last turn only.
IncompleteAtLast(branch) == owner[1] = branch /\ slot[1] \in Unfinished

\* Some slot's outcome in this cleanup is a failure.
Incomplete(branch) ==
    \E s \in Slot : owner[s] = branch /\ slot[s] \in Unfinished

\* cleanup of the whole inventory: slot N down to slot 1, then the outcomes
\* are merged into the session's.
CleanInventory(at, branch) ==
    /\ pc = at
    /\ IF cursor = 0
       THEN /\ pc' = "completion"
            /\ FinishOutcome(branch, ~Incomplete(branch))
            /\ UNCHANGED <<cursor, slot, owner>>
       ELSE /\ CleanRetained(branch)
            /\ error' = error
    /\ UNCHANGED <<current, outside, retries>>

MutationCleanup == CleanInventory("mutation.cleanup", "mutationCleanup")

\* The slip of an exit reauthentication that leaves out the last slot.
ReauthenticatedButLast(ok) ==
    ok \in BOOLEAN /\ (ok => cursor \notin altered \ {N})

\* reauthenticate_static_startup_dependencies of the slot at the cursor: it
\* passes only on a tree that still matches its baseline.
Reauthenticated(ok) == ok \in BOOLEAN /\ (ok => cursor \notin altered)

\* One turn of reauthenticating the inventory; the first failure ends it.
Reauthenticate(at, next, boundary) ==
    /\ pc = at
    /\ \E ok \in BOOLEAN :
          /\ Reauthenticated(ok)
          /\ FinishOutcome(boundary, ok)
          /\ \/ /\ ok /\ cursor < N
                /\ pc' = pc
                /\ cursor' = cursor + 1
             \/ /\ ok /\ cursor = N
                /\ pc' = next
                /\ cursor' = N
             \/ /\ ~ok
                /\ pc' = "cleanup"
                /\ cursor' = N
    /\ UNCHANGED <<slot, owner, current, outside, retries>>

ReauthEntry == Reauthenticate("reauth.entry", "continuation", "reauthEntry")

\* The caller's continuation, with the trees retained; whatever it returns,
\* they are reauthenticated next.
Continuation ==
    /\ pc = "continuation"
    /\ \E ok \in BOOLEAN : FinishOutcome("continuation", ok)
    /\ pc' = "reauth.exit"
    /\ cursor' = 1
    /\ UNCHANGED <<slot, owner, current, outside, retries>>

ReauthExit == Reauthenticate("reauth.exit", "cleanup", "reauthExit")

Cleanup == CleanInventory("cleanup", "cleanup")

\* The slip of a completion that rechecks only after a failure.
CompleteUnchecked ==
    /\ pc = "completion"
    /\ IF error = {} THEN error' = error
       ELSE \E ok \in BOOLEAN : Recheck(ok) /\ FinishOutcome("completion", ok)
    /\ pc' = "returned"
    /\ UNCHANGED <<cursor, slot, owner, current, outside, retries>>

\* The last recheck of execute, on every way out of the effect.
Complete ==
    /\ pc = "completion"
    /\ \E ok \in BOOLEAN :
          /\ Recheck(ok)
          /\ FinishOutcome("completion", ok)
    /\ pc' = "returned"
    /\ UNCHANGED <<cursor, slot, owner, current, outside, retries>>

----------------------------------------------------------------------------
(***************************************************************************)
(* Retrying the cleanup that a returned failure owns (retry_cleanup).      *)
(***************************************************************************)

\* What retry_cleanup makes of one slot's outcome: a quarantined or terminal
\* outcome has nothing to advance and is returned as it is.
RetryOutcome(state) ==
    CASE state = "recoverable" -> CleanupOutcome
      [] state = "rejected" -> {"resolved"}
      [] OTHER -> {state}

Pending == current # 0 \/ \E s \in Slot : slot[s] \in Unfinished

StartRetry ==
    /\ pc = "returned"
    /\ error \cap Aggregate # {}
    /\ Pending
    /\ retries < MaxRetries
    /\ pc' = "retry.current"
    /\ cursor' = N
    /\ retries' = retries + 1
    /\ UNCHANGED <<slot, owner, current, error, outside>>

\* The slot whose acquisition failed goes first, and stops being the primary
\* once it is closed.
RetryCurrent ==
    /\ pc = "retry.current"
    /\ IF current = 0
       THEN UNCHANGED <<slot, current>>
       ELSE \E o \in RetryOutcome(slot[current]) :
               /\ slot' = [slot EXCEPT ![current] = o]
               /\ current' = IF o \in Unfinished THEN current ELSE 0
    /\ pc' = "retry"
    /\ UNCHANGED <<cursor, owner, error, outside, retries>>

\* Then the other slots, last first, each once.
RetrySlot ==
    /\ pc = "retry"
    /\ IF cursor = 0
       THEN /\ pc' = "returned"
            /\ UNCHANGED <<cursor, slot>>
       ELSE /\ IF cursor = current
               THEN slot' = slot
               ELSE \E o \in RetryOutcome(slot[cursor]) :
                       slot' = [slot EXCEPT ![cursor] = o]
            /\ cursor' = cursor - 1
            /\ pc' = pc
    /\ UNCHANGED <<owner, current, error, outside, retries>>

----------------------------------------------------------------------------
(***************************************************************************)
(* The outside: a change of the executable, the campaign root or a prior   *)
(* root, undone or not, and a change of a retained tree.                   *)
(***************************************************************************)

session == <<pc, cursor, slot, owner, current, error, retries>>

Drift ==
    /\ drifts < MaxDrifts
    /\ sound' = ~sound
    /\ drifts' = drifts + 1
    /\ UNCHANGED <<session, altered>>

Alter ==
    /\ drifts < MaxDrifts
    /\ \E s \in {t \in Slot : slot[t] = "retained"} \ altered :
          altered' = altered \cup {s}
    /\ drifts' = drifts + 1
    /\ UNCHANGED <<session, sound>>

----------------------------------------------------------------------------

Enter ==
    Capture \/ CapturePreflight \/ CaptureConfirm \/ Execute
    \/ ExecuteConfirm \/ MutationEntry

Import == Inspect \/ Replay \/ ImportUnwind

Retain == Acquire \/ DiscardLater \/ AcquireUnwind \/ MutationExit
          \/ MutationCleanup

Continue == ReauthEntry \/ Continuation \/ ReauthExit \/ Cleanup \/ Complete

Retrying == RetryCurrent \/ RetrySlot

Run == Enter \/ Import \/ Retain \/ Continue \/ Retrying

Next == Run \/ StartRetry \/ Drift \/ Alter

Spec == Init /\ [][Next]_vars

\* A call, once made, keeps running; nothing obliges anyone to retry.
FairSpec == Spec /\ WF_vars(Run)

----------------------------------------------------------------------------
(***************************************************************************)
(* Where the slots stand at each step of the session: the strengthening    *)
(* that makes the properties below inductive.                              *)
(***************************************************************************)

All(states) == \A s \in Slot : slot[s] \in states

\* Slots up to the cursor in one set of states, those past it in another.
Split(upto, past) ==
    \A s \in Slot : IF s <= cursor THEN slot[s] \in upto ELSE slot[s] \in past

\* Every slot past the session's own has an outcome, kept if unfinished.
Accounted(s) ==
    /\ slot[s] \notin Open
    /\ slot[s] \in Named => owner[s] \in error

EnteringShape ==
    pc \in {"capture", "preflight", "captured", "execute", "executing",
            "mutation"}
        => error = {} /\ current = 0 /\ cursor = 1 /\ All({"planned"})

ImportShape ==
    /\ pc \in {"inspect", "replay"}
          => /\ error = {} /\ current = 0 /\ cursor \in Slot
             /\ \A s \in Slot : IF s < cursor THEN slot[s] = "staged"
                                              ELSE slot[s] = "planned"
    /\ pc = "import.unwind"
          => /\ error = {"import"} /\ current = 0 /\ cursor \in 0..N
             /\ Split({"staged"}, {"planned", "discarded"})

AcquireShape ==
    /\ pc = "acquire"
          => /\ error = {} /\ current = 0 /\ cursor \in Slot
             /\ \A s \in Slot : IF s < cursor THEN slot[s] = "retained"
                                              ELSE slot[s] = "staged"
    /\ pc = "acquire.discard"
          => /\ error = {"acquire"} /\ current \in Slot
             /\ cursor \in current..N
             /\ Accounted(current)
             /\ \A s \in Slot : /\ s < current => slot[s] = "retained"
                                /\ s > cursor => slot[s] = "discarded"
                                /\ s > current /\ s <= cursor
                                      => slot[s] = "staged"
    /\ pc = "acquire.unwind"
          => /\ error = {"acquire"} /\ current \in Slot
             /\ cursor \in 0..(current - 1)
             /\ \A s \in Slot : IF s <= cursor THEN slot[s] = "retained"
                                               ELSE Accounted(s)

MutationShape ==
    /\ pc = "mutation.exit"
          => \/ error = {} /\ current = 0 /\ All({"retained"})
             \/ error \in {{"import"}, {"acquire"}}
                /\ \A s \in Slot : Accounted(s)
    /\ pc = "mutation.cleanup"
          => /\ error = {"mutationPost"} /\ current = 0 /\ cursor \in 0..N
             /\ Split({"retained"}, CleanupOutcome)
             /\ \A s \in Slot : s > cursor => owner[s] = "mutationCleanup"

ContinueShape ==
    /\ pc \in {"reauth.entry", "continuation"}
          => error = {} /\ current = 0 /\ cursor \in Slot /\ All({"retained"})
    /\ pc = "reauth.exit"
          => /\ error \subseteq {"continuation"} /\ current = 0
             /\ cursor \in Slot /\ All({"retained"})
    /\ pc = "cleanup"
          => /\ error \subseteq {"reauthEntry", "continuation", "reauthExit"}
             /\ current = 0 /\ cursor \in 0..N
             /\ Split({"retained"}, CleanupOutcome)
             /\ \A s \in Slot : s > cursor => owner[s] = "cleanup"

ReturnShape ==
    /\ pc \in {"completion"} \cup AtRest
          => /\ \A s \in Slot : Accounted(s)
             /\ \A a, b \in error \cap Aggregate : a = b
             /\ error = {} => All({"closed"})
    /\ pc \in {"retry.current", "retry"} => error # {} /\ cursor \in 0..N

SlotsFollowStep ==
    /\ EnteringShape /\ ImportShape /\ AcquireShape /\ MutationShape
    /\ ContinueShape /\ ReturnShape

----------------------------------------------------------------------------
(***************************************************************************)
(* Properties.                                                             *)
(***************************************************************************)

\* No custody is lost: once the session has returned, every slot whose tree
\* may still be named is owned by a failure that is part of the returned
\* error (the affine ownership finish_outcome, finish_retained_mutation_-
\* outcome and the two inventory aggregates are written to preserve).
CustodyIsKept ==
    pc \in AtRest => \A s \in Slot : slot[s] \in Named => owner[s] \in error

\* The session leaves no spool and no retained tree behind unattended: every
\* slot it still held when something failed was discarded or its cleanup
\* attempted, whatever became of the other slots.
NothingLeftOpen == pc \in AtRest => \A s \in Slot : slot[s] \notin Open

\* Ok means that every tree was retained and removed again.
SuccessIsClean ==
    pc = "returned" /\ error = {} => \A s \in Slot : slot[s] = "closed"

\* The returned error holds the slots of one inventory failure at most, so
\* that taking one retry custody out of it drops no other.
OneAggregate == \A a, b \in error \cap Aggregate : a = b

\* Trees are removed and spools dropped from the last slot to the first; the
\* slot whose own acquisition failed is the only one out of turn.
ClosedInReverse ==
    [][\A s \in Slot :
          slot[s] \in Open /\ slot'[s] \notin Open /\ s # current'
              => \A t \in Slot : t > s => slot[t] \notin Open]_vars

\* A tree is named only while every earlier slot's tree is retained and every
\* later slot is still an anonymous spool.
NamedInOrder ==
    [][\A s \in Slot :
          slot[s] \notin Named /\ slot'[s] \in Named
              => \A t \in Slot : /\ t < s => slot[t] = "retained"
                                 /\ t > s => slot[t] = "staged"]_vars

\* A session cannot return Ok over a changed executable, campaign root or
\* prior root: execute's last recheck is on every way out.
DriftIsReported ==
    [][pc # "returned" /\ pc' = "returned" /\ ~sound => error' # {}]_vars

\* A retained tree that changed before the continuation ended is reported.
AlteredIsReported ==
    \A s \in Slot :
        [](pc = "continuation" /\ s \in altered
              => [](pc = "returned" => error # {}))

\* Every session and every retry returns.
EverySessionReturns == pc # "returned" ~> pc = "returned"
=============================================================================
