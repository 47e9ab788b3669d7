-------------------------- MODULE OciReplayProofs --------------------------
(***************************************************************************)
(* Proofs about OciReplay for any number of slots, drifts and retries: the *)
(* slots stand where the session's step says they do, and from that no     *)
(* custody is lost, nothing is left open and success means clean.          *)
(***************************************************************************)
EXTENDS OciReplay, TLAPS

IInv == TypeOK /\ SlotsFollowStep

\* The initial state: nothing captured, every slot planned.
LEMMA InitEstablishes == Init => IInv
  BY SizeAssumption, BoundAssumption
     DEF Init, IInv, SlotsFollowStep, TypeOK, Slot, SlotState, Branch, Step,
         EnteringShape, ImportShape, AcquireShape, MutationShape,
         ContinueShape, ReturnShape, All, AtRest

\* A step that changes nothing.
LEMMA StutterKeeps == IInv /\ UNCHANGED vars => IInv'
  BY DEF vars, IInv, SlotsFollowStep, TypeOK, EnteringShape, ImportShape,
         AcquireShape, MutationShape, ContinueShape, ReturnShape, All, Split,
         Accounted

\* Capture keeps the inductive invariant.
LEMMA CaptureKeeps == IInv /\ Capture => IInv'
<1> SUFFICES ASSUME IInv, Capture PROVE IInv'
  OBVIOUS
<1> USE SizeAssumption, BoundAssumption DEF IInv, SlotsFollowStep, Slot
<1>1. TypeOK'
  BY DEF TypeOK, Capture, Gate, FinishOutcome, outside, Step, Branch,
     SlotState, CleanupOutcome
<1>2. EnteringShape'
  BY DEF TypeOK, Capture, Gate, FinishOutcome, EnteringShape, All
<1>3. ReturnShape'
  BY DEF TypeOK, Capture, Gate, FinishOutcome, EnteringShape, All,
     ReturnShape, Accounted, Open, Named, Unfinished, AtRest, Aggregate
<1>4. ImportShape' /\ AcquireShape' /\ MutationShape'
       /\ ContinueShape'
  BY DEF Capture, Gate, ImportShape, AcquireShape, MutationShape,
     ContinueShape
<1> QED
  BY <1>1, <1>2, <1>3, <1>4

\* CapturePreflight keeps the inductive invariant.
LEMMA CapturePreflightKeeps == IInv /\ CapturePreflight => IInv'
<1> SUFFICES ASSUME IInv, CapturePreflight PROVE IInv'
  OBVIOUS
<1> USE SizeAssumption, BoundAssumption DEF IInv, SlotsFollowStep, Slot
<1>1. TypeOK'
  BY DEF TypeOK, CapturePreflight, FinishOutcome, outside, Step, Branch,
     SlotState, CleanupOutcome
<1>2. EnteringShape'
  BY DEF TypeOK, CapturePreflight, FinishOutcome, EnteringShape, All
<1>3. ReturnShape'
  BY DEF TypeOK, CapturePreflight, FinishOutcome, EnteringShape, All,
     ReturnShape, Accounted, Open, Named, Unfinished, AtRest, Aggregate
<1>4. ImportShape' /\ AcquireShape' /\ MutationShape'
       /\ ContinueShape'
  BY DEF CapturePreflight, ImportShape, AcquireShape, MutationShape,
     ContinueShape
<1> QED
  BY <1>1, <1>2, <1>3, <1>4

\* CaptureConfirm keeps the inductive invariant.
LEMMA CaptureConfirmKeeps == IInv /\ CaptureConfirm => IInv'
<1> SUFFICES ASSUME IInv, CaptureConfirm PROVE IInv'
  OBVIOUS
<1> USE SizeAssumption, BoundAssumption DEF IInv, SlotsFollowStep, Slot
<1>1. TypeOK'
  BY DEF TypeOK, CaptureConfirm, Gate, FinishOutcome, outside, Step, Branch,
     SlotState, CleanupOutcome
<1>2. EnteringShape'
  BY DEF TypeOK, CaptureConfirm, Gate, FinishOutcome, EnteringShape, All
<1>3. ReturnShape'
  BY DEF TypeOK, CaptureConfirm, Gate, FinishOutcome, EnteringShape, All,
     ReturnShape, Accounted, Open, Named, Unfinished, AtRest, Aggregate
<1>4. ImportShape' /\ AcquireShape' /\ MutationShape'
       /\ ContinueShape'
  BY DEF CaptureConfirm, Gate, ImportShape, AcquireShape, MutationShape,
     ContinueShape
<1> QED
  BY <1>1, <1>2, <1>3, <1>4

\* Execute keeps the inductive invariant.
LEMMA ExecuteKeeps == IInv /\ Execute => IInv'
<1> SUFFICES ASSUME IInv, Execute PROVE IInv'
  OBVIOUS
<1> USE SizeAssumption, BoundAssumption DEF IInv, SlotsFollowStep, Slot
<1>1. TypeOK'
  BY DEF TypeOK, Execute, Gate, FinishOutcome, outside, Step, Branch,
     SlotState, CleanupOutcome
<1>2. EnteringShape'
  BY DEF TypeOK, Execute, Gate, FinishOutcome, EnteringShape, All
<1>3. ReturnShape'
  BY DEF TypeOK, Execute, Gate, FinishOutcome, EnteringShape, All,
     ReturnShape, Accounted, Open, Named, Unfinished, AtRest, Aggregate
<1>4. ImportShape' /\ AcquireShape' /\ MutationShape'
       /\ ContinueShape'
  BY DEF Execute, Gate, ImportShape, AcquireShape, MutationShape,
     ContinueShape
<1> QED
  BY <1>1, <1>2, <1>3, <1>4

\* ExecuteConfirm keeps the inductive invariant.
LEMMA ExecuteConfirmKeeps == IInv /\ ExecuteConfirm => IInv'
<1> SUFFICES ASSUME IInv, ExecuteConfirm PROVE IInv'
  OBVIOUS
<1> USE SizeAssumption, BoundAssumption DEF IInv, SlotsFollowStep, Slot
<1>1. TypeOK'
  BY DEF TypeOK, ExecuteConfirm, Gate, FinishOutcome, outside, Step, Branch,
     SlotState, CleanupOutcome
<1>2. EnteringShape'
  BY DEF TypeOK, ExecuteConfirm, Gate, FinishOutcome, EnteringShape, All
<1>3. ReturnShape'
  BY DEF TypeOK, ExecuteConfirm, Gate, FinishOutcome, EnteringShape, All,
     ReturnShape, Accounted, Open, Named, Unfinished, AtRest, Aggregate
<1>4. ImportShape' /\ AcquireShape' /\ MutationShape'
       /\ ContinueShape'
  BY DEF ExecuteConfirm, Gate, ImportShape, AcquireShape, MutationShape,
     ContinueShape
<1> QED
  BY <1>1, <1>2, <1>3, <1>4

\* MutationEntry keeps the inductive invariant.
LEMMA MutationEntryKeeps == IInv /\ MutationEntry => IInv'
<1> SUFFICES ASSUME IInv, MutationEntry PROVE IInv'
  OBVIOUS
<1> USE SizeAssumption, BoundAssumption DEF IInv, SlotsFollowStep, Slot
<1>1. TypeOK'
  BY DEF TypeOK, MutationEntry, Gate, FinishOutcome, outside, Step, Branch,
     SlotState, CleanupOutcome
<1>2. ImportShape'
  BY DEF TypeOK, MutationEntry, Gate, FinishOutcome, EnteringShape, All,
     ImportShape, Split
<1>3. ReturnShape'
  BY DEF TypeOK, MutationEntry, Gate, FinishOutcome, EnteringShape, All,
     ReturnShape, Accounted, Open, Named, Unfinished, AtRest, Aggregate
<1>4. EnteringShape' /\ AcquireShape' /\ MutationShape'
       /\ ContinueShape'
  BY DEF MutationEntry, Gate, EnteringShape, AcquireShape, MutationShape,
     ContinueShape
<1> QED
  BY <1>1, <1>2, <1>3, <1>4

\* Inspect keeps the inductive invariant.
LEMMA InspectKeeps == IInv /\ Inspect => IInv'
<1> SUFFICES ASSUME IInv, Inspect PROVE IInv'
  OBVIOUS
<1> USE SizeAssumption, BoundAssumption DEF IInv, SlotsFollowStep, Slot
<1>1. TypeOK'
  BY DEF TypeOK, Inspect, ImportShape, FinishOutcome, outside, Step, Branch,
     SlotState, CleanupOutcome
<1>2. ImportShape'
  BY DEF TypeOK, Inspect, FinishOutcome, ImportShape, Split
<1>3. EnteringShape' /\ AcquireShape' /\ MutationShape'
       /\ ContinueShape' /\ ReturnShape'
  BY DEF Inspect, EnteringShape, AcquireShape, MutationShape, ContinueShape,
     ReturnShape, AtRest
<1> QED
  BY <1>1, <1>2, <1>3

\* Replay keeps the inductive invariant.
LEMMA ReplayKeeps == IInv /\ Replay => IInv'
<1> SUFFICES ASSUME IInv, Replay PROVE IInv'
  OBVIOUS
<1> USE SizeAssumption, BoundAssumption DEF IInv, SlotsFollowStep, Slot
<1>1. TypeOK'
  <2>1. cursor \in Slot
    BY DEF TypeOK, Replay, ImportShape
  <2>2. cursor' \in 0..(N + 1) /\ current' \in 0..N
    <3>1. CASE cursor = N
      BY <2>1, <3>1 DEF TypeOK, Replay, FinishOutcome
    <3>2. CASE cursor # N
      BY <2>1, <3>2 DEF TypeOK, Replay, FinishOutcome
    <3> QED
      BY <3>1, <3>2
  <2>6. pc' \in Step
    BY <2>1 DEF TypeOK, Replay, Step
  <2>3. slot' \in [Slot -> SlotState]
    BY <2>1 DEF TypeOK, Replay, SlotState, CleanupOutcome
  <2>4. owner' \in [Slot -> Branch \cup {"session"}]
    BY <2>1 DEF TypeOK, Replay, Branch
  <2>5. error' \subseteq Branch
    BY DEF TypeOK, Replay, FinishOutcome, Branch
  <2> QED
    BY <2>2, <2>3, <2>4, <2>5, <2>6 DEF TypeOK, Replay, outside
<1>2. ImportShape'
  BY DEF TypeOK, Replay, FinishOutcome, ImportShape, Split
<1>3. AcquireShape'
  BY DEF TypeOK, Replay, FinishOutcome, ImportShape, Split, AcquireShape,
     Accounted, Open, Named
<1>4. EnteringShape' /\ MutationShape' /\ ContinueShape'
       /\ ReturnShape'
  BY DEF Replay, EnteringShape, MutationShape, ContinueShape, ReturnShape,
     AtRest
<1> QED
  BY <1>1, <1>2, <1>3, <1>4

\* ImportUnwind keeps the inductive invariant.
LEMMA ImportUnwindKeeps == IInv /\ ImportUnwind => IInv'
<1> SUFFICES ASSUME IInv, ImportUnwind PROVE IInv'
  OBVIOUS
<1> USE SizeAssumption, BoundAssumption DEF IInv, SlotsFollowStep, Slot
<1>1. TypeOK'
  BY DEF TypeOK, ImportUnwind, ImportShape, FinishOutcome, outside, Step,
     Branch, SlotState, CleanupOutcome
<1>2. ImportShape'
  BY DEF TypeOK, ImportUnwind, FinishOutcome, ImportShape, Split
<1>3. MutationShape'
  BY DEF TypeOK, ImportUnwind, FinishOutcome, ImportShape, Split,
     MutationShape, All, Accounted, Open, Named, CleanupOutcome
<1>4. EnteringShape' /\ AcquireShape' /\ ContinueShape'
       /\ ReturnShape'
  BY DEF ImportUnwind, EnteringShape, AcquireShape, ContinueShape,
     ReturnShape, AtRest
<1> QED
  BY <1>1, <1>2, <1>3, <1>4

\* Acquire keeps the inductive invariant.
LEMMA AcquireKeeps == IInv /\ Acquire => IInv'
<1> SUFFICES ASSUME IInv, Acquire PROVE IInv'
  OBVIOUS
<1> USE SizeAssumption, BoundAssumption DEF IInv, SlotsFollowStep, Slot
<1>1. TypeOK'
  <2>1. cursor \in Slot
    BY DEF TypeOK, Acquire, Settle, AcquireShape
  <2>2. cursor' \in 0..(N + 1) /\ current' \in 0..N
    <3>1. CASE cursor = N
      BY <2>1, <3>1 DEF TypeOK, Acquire, Settle, FinishOutcome
    <3>2. CASE cursor # N
      BY <2>1, <3>2 DEF TypeOK, Acquire, Settle, FinishOutcome
    <3> QED
      BY <3>1, <3>2
  <2>6. pc' \in Step
    BY <2>1 DEF TypeOK, Acquire, Settle, Step
  <2>3. slot' \in [Slot -> SlotState]
    BY <2>1 DEF TypeOK, Acquire, Settle, SlotState, CleanupOutcome
  <2>4. owner' \in [Slot -> Branch \cup {"session"}]
    BY <2>1 DEF TypeOK, Acquire, Settle, Branch
  <2>5. error' \subseteq Branch
    BY DEF TypeOK, Acquire, Settle, FinishOutcome, Branch
  <2> QED
    BY <2>2, <2>3, <2>4, <2>5, <2>6 DEF TypeOK, Acquire, Settle, outside
<1>2. AcquireShape'
  <2>1. /\ pc = "acquire" /\ cursor \in 1..N /\ error = {} /\ current = 0
        /\ \A s \in Slot : IF s < cursor THEN slot[s] = "retained"
                                         ELSE slot[s] = "staged"
    BY DEF Acquire, AcquireShape
  <2>2. CASE slot' = [slot EXCEPT ![cursor] = "retained"]
             /\ pc' = (IF cursor = N THEN "mutation.exit" ELSE "acquire")
             /\ cursor' = cursor + 1 /\ UNCHANGED <<current, error>>
    BY <2>1, <2>2 DEF TypeOK, AcquireShape
  <2>3. ASSUME NEW o \in {"rejected", "recoverable", "quarantined"},
               Settle(o, "acquire"), current' = cursor, cursor' = N,
               error' = {"acquire"}, pc' = "acquire.discard"
        PROVE  AcquireShape'
    BY <2>1, <2>3 DEF TypeOK, Settle, AcquireShape, Accounted, Open, Named
  <2> QED
    BY <2>1, <2>2, <2>3 DEF Acquire, Settle, FinishOutcome
<1>3. MutationShape'
  BY DEF TypeOK, Acquire, Settle, FinishOutcome, AcquireShape, Accounted,
     Open, Named, MutationShape, All, Split, CleanupOutcome
<1>4. EnteringShape' /\ ImportShape' /\ ContinueShape'
       /\ ReturnShape'
  BY DEF Acquire, Settle, EnteringShape, ImportShape, ContinueShape,
     ReturnShape, AtRest
<1> QED
  BY <1>1, <1>2, <1>3, <1>4

\* DiscardLater keeps the inductive invariant.
LEMMA DiscardLaterKeeps == IInv /\ DiscardLater => IInv'
<1> SUFFICES ASSUME IInv, DiscardLater PROVE IInv'
  OBVIOUS
<1> USE SizeAssumption, BoundAssumption DEF IInv, SlotsFollowStep, Slot
<1>1. TypeOK'
  BY DEF TypeOK, DiscardLater, AcquireShape, FinishOutcome, outside, Step,
     Branch, SlotState, CleanupOutcome
<1>2. AcquireShape'
  BY DEF TypeOK, DiscardLater, FinishOutcome, AcquireShape, Accounted, Open,
     Named
<1>3. EnteringShape' /\ ImportShape' /\ MutationShape'
       /\ ContinueShape' /\ ReturnShape'
  BY DEF DiscardLater, EnteringShape, ImportShape, MutationShape,
     ContinueShape, ReturnShape, AtRest
<1> QED
  BY <1>1, <1>2, <1>3

\* AcquireUnwind keeps the inductive invariant.
LEMMA AcquireUnwindKeeps == IInv /\ AcquireUnwind => IInv'
<1> SUFFICES ASSUME IInv, AcquireUnwind PROVE IInv'
  OBVIOUS
<1> USE SizeAssumption, BoundAssumption DEF IInv, SlotsFollowStep, Slot
<1>1. TypeOK'
  BY DEF TypeOK, AcquireUnwind, CleanRetained, Settle, AcquireShape,
     FinishOutcome, outside, Step, Branch, SlotState, CleanupOutcome
<1>2. AcquireShape'
  <2>1. /\ pc = "acquire.unwind" /\ error = {"acquire"} /\ current \in 1..N
        /\ cursor \in 0..(current - 1)
        /\ \A s \in Slot : IF s <= cursor THEN slot[s] = "retained"
                                          ELSE Accounted(s)
    BY DEF AcquireUnwind, AcquireShape
  <2>2. ASSUME cursor # 0, NEW o \in CleanupOutcome, Settle(o, "acquire"),
               cursor' = cursor - 1, pc' = pc,
               UNCHANGED <<current, error>>
        PROVE  AcquireShape'
    <3>1. cursor' \in 0..(current' - 1)
      BY <2>1, <2>2
    <3>2. \A s \in Slot : s <= cursor' => slot'[s] = "retained"
      BY <2>1, <2>2 DEF TypeOK, Settle
    <3>3. \A s \in Slot : s > cursor' => Accounted(s)'
      <4> TAKE s \in Slot
      <4>1. CASE s = cursor
        BY <2>1, <2>2, <4>1 DEF TypeOK, Settle, Accounted, Open, Named,
           CleanupOutcome
      <4>2. CASE s > cursor
        BY <2>1, <2>2, <4>2 DEF TypeOK, Settle, Accounted
      <4> QED
        BY <2>1, <2>2, <4>1, <4>2
    <3> QED
      BY <1>1, <2>1, <2>2, <3>1, <3>2, <3>3 DEF TypeOK, AcquireShape
  <2> QED
    BY <2>1, <2>2 DEF AcquireUnwind, CleanRetained, AcquireShape
<1>3. MutationShape'
  BY DEF TypeOK, AcquireUnwind, CleanRetained, Settle, FinishOutcome,
     AcquireShape, Accounted, Open, Named, MutationShape, All, Split,
     CleanupOutcome, Unfinished
<1>4. EnteringShape' /\ ImportShape' /\ ContinueShape'
       /\ ReturnShape'
  BY DEF AcquireUnwind, CleanRetained, Settle, EnteringShape, ImportShape,
     ContinueShape, ReturnShape, AtRest
<1> QED
  BY <1>1, <1>2, <1>3, <1>4

\* MutationExit keeps the inductive invariant.
LEMMA MutationExitKeeps == IInv /\ MutationExit => IInv'
<1> SUFFICES ASSUME IInv, MutationExit PROVE IInv'
  OBVIOUS
<1> USE SizeAssumption, BoundAssumption DEF IInv, SlotsFollowStep, Slot
<1>1. TypeOK'
  BY DEF TypeOK, MutationExit, MutationShape, FinishOutcome, outside, Step,
     Branch, SlotState, CleanupOutcome
<1>2. MutationShape'
  <2>1. pc = "mutation.exit" /\ slot' = slot /\ owner' = owner
        /\ current' = current
    BY DEF MutationExit
  <2>2. CASE error # {}
    BY <2>1, <2>2 DEF MutationExit, MutationShape
  <2>3. CASE error = {}
    <3>1. current = 0 /\ All({"retained"})
      BY <2>1, <2>3 DEF MutationShape
    <3>2. All({"retained"})'
      BY <2>1, <3>1 DEF All
    <3>3. \/ pc' = "reauth.entry" /\ error' = {} /\ cursor' = 1
          \/ pc' = "mutation.cleanup" /\ cursor' = N
             /\ error' = {"mutationPost"}
      BY <2>3 DEF MutationExit, FinishOutcome
    <3> QED
      BY <2>1, <3>1, <3>2, <3>3 DEF MutationShape, All, Split
  <2> QED
    BY <2>2, <2>3
<1>3. ContinueShape'
  <2>1. pc = "mutation.exit" /\ slot' = slot /\ owner' = owner
        /\ current' = current
    BY DEF MutationExit
  <2>2. CASE error # {}
    BY <2>1, <2>2 DEF MutationExit, ContinueShape
  <2>3. CASE error = {}
    <3>1. current = 0 /\ All({"retained"})
      BY <2>1, <2>3 DEF MutationShape
    <3>2. All({"retained"})'
      BY <2>1, <3>1 DEF All
    <3>3. \/ pc' = "reauth.entry" /\ error' = {} /\ cursor' = 1
          \/ pc' = "mutation.cleanup" /\ cursor' = N
             /\ error' = {"mutationPost"}
      BY <2>3 DEF MutationExit, FinishOutcome
    <3> QED
      BY <2>1, <3>1, <3>2, <3>3 DEF ContinueShape, All, Split
  <2> QED
    BY <2>2, <2>3
<1>4. ReturnShape'
  BY DEF TypeOK, MutationExit, FinishOutcome, MutationShape, All, Split,
     Accounted, Open, Named, CleanupOutcome, ReturnShape, Unfinished, AtRest,
     Aggregate
<1>5. EnteringShape' /\ ImportShape' /\ AcquireShape'
  BY DEF MutationExit, EnteringShape, ImportShape, AcquireShape
<1> QED
  BY <1>1, <1>2, <1>3, <1>4, <1>5

\* MutationCleanup keeps the inductive invariant.
LEMMA MutationCleanupKeeps == IInv /\ MutationCleanup => IInv'
<1> SUFFICES ASSUME IInv, MutationCleanup PROVE IInv'
  OBVIOUS
<1> USE SizeAssumption, BoundAssumption DEF IInv, SlotsFollowStep, Slot
<1>1. TypeOK'
  <2>1. cursor \in 0..N
    BY DEF TypeOK, MutationCleanup, CleanInventory, CleanRetained, Settle,
       MutationShape
  <2>2. cursor' \in 0..(N + 1) /\ current' \in 0..N
    <3>1. CASE cursor = N
      BY <2>1, <3>1 DEF TypeOK, MutationCleanup, CleanInventory,
         CleanRetained, Settle, FinishOutcome
    <3>2. CASE cursor # N
      BY <2>1, <3>2 DEF TypeOK, MutationCleanup, CleanInventory,
         CleanRetained, Settle, FinishOutcome
    <3> QED
      BY <3>1, <3>2
  <2>6. pc' \in Step
    BY <2>1 DEF TypeOK, MutationCleanup, CleanInventory, CleanRetained,
       Settle, Step
  <2>3. slot' \in [Slot -> SlotState]
    BY <2>1 DEF TypeOK, MutationCleanup, CleanInventory, CleanRetained,
       Settle, SlotState, CleanupOutcome
  <2>4. owner' \in [Slot -> Branch \cup {"session"}]
    BY <2>1 DEF TypeOK, MutationCleanup, CleanInventory, CleanRetained,
       Settle, Branch
  <2>5. error' \subseteq Branch
    BY DEF TypeOK, MutationCleanup, CleanInventory, CleanRetained, Settle,
       FinishOutcome, Branch
  <2> QED
    BY <2>2, <2>3, <2>4, <2>5, <2>6 DEF TypeOK, MutationCleanup,
       CleanInventory, CleanRetained, Settle, outside
<1>2. MutationShape'
  <2>1. /\ pc = "mutation.cleanup" /\ current = 0 /\ cursor \in 0..N
        /\ error = {"mutationPost"}
        /\ Split({"retained"}, CleanupOutcome)
        /\ \A s \in Slot : s > cursor => owner[s] = "mutationCleanup"
    BY DEF MutationCleanup, CleanInventory, MutationShape
  <2>2. ASSUME cursor # 0, NEW o \in CleanupOutcome,
               Settle(o, "mutationCleanup"), cursor' = cursor - 1, pc' = pc,
               UNCHANGED <<current, error>>
        PROVE  MutationShape'
    <3>1. cursor' \in 0..N
      BY <2>1, <2>2
    <3>2. \A s \in Slot : s <= cursor' => slot'[s] = "retained"
      BY <2>1, <2>2 DEF TypeOK, Settle, Split
    <3>3. \A s \in Slot :
             s > cursor' => slot'[s] \in CleanupOutcome
                            /\ owner'[s] = "mutationCleanup"
      <4> TAKE s \in Slot
      <4>1. CASE s = cursor
        BY <2>1, <2>2, <4>1 DEF TypeOK, Settle
      <4>2. CASE s > cursor
        BY <2>1, <2>2, <4>2 DEF TypeOK, Settle, Split
      <4> QED
        BY <2>1, <2>2, <4>1, <4>2
    <3>4. Split({"retained"}, CleanupOutcome)'
      <4> SUFFICES ASSUME NEW s \in Slot
                   PROVE  IF s <= cursor' THEN slot'[s] \in {"retained"}
                                          ELSE slot'[s] \in CleanupOutcome
        BY DEF Split
      <4> QED
        BY <3>1, <3>2, <3>3
    <3> QED
      BY <2>1, <2>2, <3>1, <3>3, <3>4 DEF MutationShape
  <2> QED
    BY <2>1, <2>2 DEF MutationCleanup, CleanInventory, CleanRetained,
       MutationShape
<1>3. ReturnShape'
  <2>1. /\ pc = "mutation.cleanup" /\ current = 0 /\ cursor \in 0..N
        /\ error = {"mutationPost"}
        /\ Split({"retained"}, CleanupOutcome)
        /\ \A s \in Slot : s > cursor => owner[s] = "mutationCleanup"
    BY DEF MutationCleanup, CleanInventory, MutationShape
  <2>2. CASE cursor # 0
    BY <2>1, <2>2 DEF MutationCleanup, CleanInventory, CleanRetained,
       ReturnShape,
       AtRest
  <2>3. CASE cursor = 0
    <3>1. slot' = slot /\ owner' = owner /\ pc' = "completion"
      BY <2>1, <2>3 DEF MutationCleanup, CleanInventory
    <3>2. \A s \in Slot : slot[s] \in CleanupOutcome
                         /\ owner[s] = "mutationCleanup"
      BY <2>1, <2>3 DEF Split
    <3>3. error' = IF Incomplete("mutationCleanup")
                   THEN error \cup {"mutationCleanup"} ELSE error
      BY <2>1, <2>3 DEF MutationCleanup, CleanInventory, FinishOutcome
    <3>4. CASE Incomplete("mutationCleanup")
      <4>1. \A s \in Slot : Accounted(s)'
        BY <3>1, <3>2, <3>3, <3>4 DEF Accounted, CleanupOutcome, Open
      <4>2. \A a, b \in error' \cap Aggregate : a = b
        BY <2>1, <3>3, <3>4 DEF Aggregate
      <4> QED
        BY <3>1, <3>3, <3>4, <4>1, <4>2 DEF ReturnShape, AtRest
    <3>5. CASE ~Incomplete("mutationCleanup")
      <4>1. \A s \in Slot : slot[s] = "closed"
        BY <3>2, <3>5 DEF Incomplete, CleanupOutcome, Unfinished
      <4>2. \A s \in Slot : Accounted(s)'
        BY <3>1, <4>1 DEF Accounted, Open, Named
      <4>3. All({"closed"})'
        BY <3>1, <4>1 DEF All
      <4>4. \A a, b \in error' \cap Aggregate : a = b
        BY <2>1, <3>3, <3>5 DEF Aggregate
      <4> QED
        BY <3>1, <4>2, <4>3, <4>4 DEF ReturnShape, AtRest
    <3> QED
      BY <3>4, <3>5
  <2> QED
    BY <2>2, <2>3
<1>4. EnteringShape' /\ ImportShape' /\ AcquireShape'
       /\ ContinueShape'
  BY DEF MutationCleanup, CleanInventory, CleanRetained, Settle,
     EnteringShape, ImportShape, AcquireShape, ContinueShape
<1> QED
  BY <1>1, <1>2, <1>3, <1>4

\* ReauthEntry keeps the inductive invariant.
LEMMA ReauthEntryKeeps == IInv /\ ReauthEntry => IInv'
<1> SUFFICES ASSUME IInv, ReauthEntry PROVE IInv'
  OBVIOUS
<1> USE SizeAssumption, BoundAssumption DEF IInv, SlotsFollowStep, Slot
<1>1. TypeOK'
  BY DEF TypeOK, ReauthEntry, Reauthenticate, ContinueShape, FinishOutcome,
     outside, Step, Branch, SlotState, CleanupOutcome
<1>2. ContinueShape'
  BY DEF TypeOK, ReauthEntry, Reauthenticate, FinishOutcome, ContinueShape,
     All, Split, CleanupOutcome
<1>3. EnteringShape' /\ ImportShape' /\ AcquireShape'
       /\ MutationShape' /\ ReturnShape'
  BY DEF ReauthEntry, Reauthenticate, EnteringShape, ImportShape,
     AcquireShape, MutationShape, ReturnShape, AtRest
<1> QED
  BY <1>1, <1>2, <1>3

\* Continuation keeps the inductive invariant.
LEMMA ContinuationKeeps == IInv /\ Continuation => IInv'
<1> SUFFICES ASSUME IInv, Continuation PROVE IInv'
  OBVIOUS
<1> USE SizeAssumption, BoundAssumption DEF IInv, SlotsFollowStep, Slot
<1>1. TypeOK'
  BY DEF TypeOK, Continuation, ContinueShape, FinishOutcome, outside, Step,
     Branch, SlotState, CleanupOutcome
<1>2. ContinueShape'
  BY DEF TypeOK, Continuation, FinishOutcome, ContinueShape, All, Split,
     CleanupOutcome
<1>3. EnteringShape' /\ ImportShape' /\ AcquireShape'
       /\ MutationShape' /\ ReturnShape'
  BY DEF Continuation, EnteringShape, ImportShape, AcquireShape,
     MutationShape, ReturnShape, AtRest
<1> QED
  BY <1>1, <1>2, <1>3

\* ReauthExit keeps the inductive invariant.
LEMMA ReauthExitKeeps == IInv /\ ReauthExit => IInv'
<1> SUFFICES ASSUME IInv, ReauthExit PROVE IInv'
  OBVIOUS
<1> USE SizeAssumption, BoundAssumption DEF IInv, SlotsFollowStep, Slot
<1>1. TypeOK'
  BY DEF TypeOK, ReauthExit, Reauthenticate, ContinueShape, FinishOutcome,
     outside, Step, Branch, SlotState, CleanupOutcome
<1>2. ContinueShape'
  BY DEF TypeOK, ReauthExit, Reauthenticate, FinishOutcome, ContinueShape,
     All, Split, CleanupOutcome
<1>3. EnteringShape' /\ ImportShape' /\ AcquireShape'
       /\ MutationShape' /\ ReturnShape'
  BY DEF ReauthExit, Reauthenticate, EnteringShape, ImportShape, AcquireShape,
     MutationShape, ReturnShape, AtRest
<1> QED
  BY <1>1, <1>2, <1>3

\* Cleanup keeps the inductive invariant.
LEMMA CleanupKeeps == IInv /\ Cleanup => IInv'
<1> SUFFICES ASSUME IInv, Cleanup PROVE IInv'
  OBVIOUS
<1> USE SizeAssumption, BoundAssumption DEF IInv, SlotsFollowStep, Slot
<1>1. TypeOK'
  <2>1. cursor \in 0..N
    BY DEF TypeOK, Cleanup, CleanInventory, CleanRetained, Settle,
       ContinueShape
  <2>2. cursor' \in 0..(N + 1) /\ current' \in 0..N
    <3>1. CASE cursor = N
      BY <2>1, <3>1 DEF TypeOK, Cleanup, CleanInventory, CleanRetained,
         Settle, FinishOutcome
    <3>2. CASE cursor # N
      BY <2>1, <3>2 DEF TypeOK, Cleanup, CleanInventory, CleanRetained,
         Settle, FinishOutcome
    <3> QED
      BY <3>1, <3>2
  <2>6. pc' \in Step
    BY <2>1 DEF TypeOK, Cleanup, CleanInventory, CleanRetained, Settle, Step
  <2>3. slot' \in [Slot -> SlotState]
    BY <2>1 DEF TypeOK, Cleanup, CleanInventory, CleanRetained, Settle,
       SlotState, CleanupOutcome
  <2>4. owner' \in [Slot -> Branch \cup {"session"}]
    BY <2>1 DEF TypeOK, Cleanup, CleanInventory, CleanRetained, Settle, Branch
  <2>5. error' \subseteq Branch
    BY DEF TypeOK, Cleanup, CleanInventory, CleanRetained, Settle,
       FinishOutcome, Branch
  <2> QED
    BY <2>2, <2>3, <2>4, <2>5, <2>6 DEF TypeOK, Cleanup, CleanInventory,
       CleanRetained, Settle, outside
<1>2. ContinueShape'
  <2>1. /\ pc = "cleanup" /\ current = 0 /\ cursor \in 0..N
        /\ error \subseteq {"reauthEntry", "continuation", "reauthExit"}
        /\ Split({"retained"}, CleanupOutcome)
        /\ \A s \in Slot : s > cursor => owner[s] = "cleanup"
    BY DEF Cleanup, CleanInventory, ContinueShape
  <2>2. ASSUME cursor # 0, NEW o \in CleanupOutcome, Settle(o, "cleanup"),
               cursor' = cursor - 1, pc' = pc,
               UNCHANGED <<current, error>>
        PROVE  ContinueShape'
    <3>1. cursor' \in 0..N
      BY <2>1, <2>2
    <3>2. \A s \in Slot : s <= cursor' => slot'[s] = "retained"
      BY <2>1, <2>2 DEF TypeOK, Settle, Split
    <3>3. \A s \in Slot :
             s > cursor' => slot'[s] \in CleanupOutcome
                            /\ owner'[s] = "cleanup"
      <4> TAKE s \in Slot
      <4>1. CASE s = cursor
        BY <2>1, <2>2, <4>1 DEF TypeOK, Settle
      <4>2. CASE s > cursor
        BY <2>1, <2>2, <4>2 DEF TypeOK, Settle, Split
      <4> QED
        BY <2>1, <2>2, <4>1, <4>2
    <3>4. Split({"retained"}, CleanupOutcome)'
      <4> SUFFICES ASSUME NEW s \in Slot
                   PROVE  IF s <= cursor' THEN slot'[s] \in {"retained"}
                                          ELSE slot'[s] \in CleanupOutcome
        BY DEF Split
      <4> QED
        BY <3>1, <3>2, <3>3
    <3> QED
      BY <2>1, <2>2, <3>1, <3>3, <3>4 DEF ContinueShape
  <2> QED
    BY <2>1, <2>2 DEF Cleanup, CleanInventory, CleanRetained, ContinueShape
<1>3. ReturnShape'
  <2>1. /\ pc = "cleanup" /\ current = 0 /\ cursor \in 0..N
        /\ error \subseteq {"reauthEntry", "continuation", "reauthExit"}
        /\ Split({"retained"}, CleanupOutcome)
        /\ \A s \in Slot : s > cursor => owner[s] = "cleanup"
    BY DEF Cleanup, CleanInventory, ContinueShape
  <2>2. CASE cursor # 0
    BY <2>1, <2>2 DEF Cleanup, CleanInventory, CleanRetained, ReturnShape,
       AtRest
  <2>3. CASE cursor = 0
    <3>1. slot' = slot /\ owner' = owner /\ pc' = "completion"
      BY <2>1, <2>3 DEF Cleanup, CleanInventory
    <3>2. \A s \in Slot : slot[s] \in CleanupOutcome /\ owner[s] = "cleanup"
      BY <2>1, <2>3 DEF Split
    <3>3. error' = IF Incomplete("cleanup") THEN error \cup {"cleanup"}
                                            ELSE error
      BY <2>1, <2>3 DEF Cleanup, CleanInventory, FinishOutcome
    <3>4. CASE Incomplete("cleanup")
      <4>1. \A s \in Slot : Accounted(s)'
        BY <3>1, <3>2, <3>3, <3>4 DEF Accounted, CleanupOutcome, Open
      <4>2. \A a, b \in error' \cap Aggregate : a = b
        BY <2>1, <3>3, <3>4 DEF Aggregate
      <4> QED
        BY <3>1, <3>3, <3>4, <4>1, <4>2 DEF ReturnShape, AtRest
    <3>5. CASE ~Incomplete("cleanup")
      <4>1. \A s \in Slot : slot[s] = "closed"
        BY <3>2, <3>5 DEF Incomplete, CleanupOutcome, Unfinished
      <4>2. \A s \in Slot : Accounted(s)'
        BY <3>1, <4>1 DEF Accounted, Open, Named
      <4>3. All({"closed"})'
        BY <3>1, <4>1 DEF All
      <4>4. \A a, b \in error' \cap Aggregate : a = b
        BY <2>1, <3>3, <3>5 DEF Aggregate
      <4> QED
        BY <3>1, <4>2, <4>3, <4>4 DEF ReturnShape, AtRest
    <3> QED
      BY <3>4, <3>5
  <2> QED
    BY <2>2, <2>3
<1>4. EnteringShape' /\ ImportShape' /\ AcquireShape'
       /\ MutationShape'
  BY DEF Cleanup, CleanInventory, CleanRetained, Settle, EnteringShape,
     ImportShape, AcquireShape, MutationShape
<1> QED
  BY <1>1, <1>2, <1>3, <1>4

\* Complete keeps the inductive invariant.
LEMMA CompleteKeeps == IInv /\ Complete => IInv'
<1> SUFFICES ASSUME IInv, Complete PROVE IInv'
  OBVIOUS
<1> USE SizeAssumption, BoundAssumption DEF IInv, SlotsFollowStep, Slot
<1>1. TypeOK'
  BY DEF TypeOK, Complete, FinishOutcome, outside, Step, Branch, SlotState,
     CleanupOutcome
<1>2. ReturnShape'
  BY DEF TypeOK, Complete, FinishOutcome, ReturnShape, All, Accounted, Open,
     Named, Unfinished, AtRest, Aggregate
<1>3. EnteringShape' /\ ImportShape' /\ AcquireShape'
       /\ MutationShape' /\ ContinueShape'
  BY DEF Complete, EnteringShape, ImportShape, AcquireShape, MutationShape,
     ContinueShape
<1> QED
  BY <1>1, <1>2, <1>3

\* StartRetry keeps the inductive invariant.
LEMMA StartRetryKeeps == IInv /\ StartRetry => IInv'
<1> SUFFICES ASSUME IInv, StartRetry PROVE IInv'
  OBVIOUS
<1> USE SizeAssumption, BoundAssumption DEF IInv, SlotsFollowStep, Slot
<1>1. TypeOK'
  BY DEF TypeOK, StartRetry, FinishOutcome, outside, Step, Branch, SlotState,
     CleanupOutcome, Unfinished
<1>2. ReturnShape'
  BY DEF TypeOK, StartRetry, FinishOutcome, ReturnShape, All, Accounted, Open,
     Named, Unfinished, AtRest, Aggregate, CleanupOutcome
<1>3. EnteringShape' /\ ImportShape' /\ AcquireShape'
       /\ MutationShape' /\ ContinueShape'
  BY DEF StartRetry, EnteringShape, ImportShape, AcquireShape, MutationShape,
     ContinueShape
<1> QED
  BY <1>1, <1>2, <1>3

\* RetryCurrent keeps the inductive invariant.
LEMMA RetryCurrentKeeps == IInv /\ RetryCurrent => IInv'
<1> SUFFICES ASSUME IInv, RetryCurrent PROVE IInv'
  OBVIOUS
<1> USE SizeAssumption, BoundAssumption DEF IInv, SlotsFollowStep, Slot
<1>1. TypeOK'
  BY DEF TypeOK, RetryCurrent, RetryOutcome, FinishOutcome, outside, Step,
     Branch, SlotState, CleanupOutcome, Unfinished
<1>2. ReturnShape'
  BY DEF TypeOK, RetryCurrent, RetryOutcome, FinishOutcome, ReturnShape, All,
     Accounted, Open, Named, Unfinished, AtRest, Aggregate, CleanupOutcome
<1>3. EnteringShape' /\ ImportShape' /\ AcquireShape'
       /\ MutationShape' /\ ContinueShape'
  BY DEF RetryCurrent, RetryOutcome, EnteringShape, ImportShape, AcquireShape,
     MutationShape, ContinueShape
<1> QED
  BY <1>1, <1>2, <1>3

\* RetrySlot keeps the inductive invariant.
LEMMA RetrySlotKeeps == IInv /\ RetrySlot => IInv'
<1> SUFFICES ASSUME IInv, RetrySlot PROVE IInv'
  OBVIOUS
<1> USE SizeAssumption, BoundAssumption DEF IInv, SlotsFollowStep, Slot
<1>1. TypeOK'
  BY DEF TypeOK, RetrySlot, RetryOutcome, FinishOutcome, outside, Step,
     Branch, SlotState, CleanupOutcome, Unfinished
<1>2. ReturnShape'
  BY DEF TypeOK, RetrySlot, RetryOutcome, FinishOutcome, ReturnShape, All,
     Accounted, Open, Named, Unfinished, AtRest, Aggregate, CleanupOutcome
<1>3. EnteringShape' /\ ImportShape' /\ AcquireShape'
       /\ MutationShape' /\ ContinueShape'
  BY DEF RetrySlot, RetryOutcome, EnteringShape, ImportShape, AcquireShape,
     MutationShape, ContinueShape
<1> QED
  BY <1>1, <1>2, <1>3

\* The outside touches neither the slots nor the session.
LEMMA OutsideKeeps == IInv /\ (Drift \/ Alter) => IInv'
<1> SUFFICES ASSUME IInv, Drift \/ Alter PROVE IInv'
  OBVIOUS
<1>1. UNCHANGED session
  BY DEF Drift, Alter
<1>2. TypeOK'
  <2>1. drifts < MaxDrifts /\ drifts' = drifts + 1
    BY DEF Drift, Alter
  <2>2. drifts' \in 0..MaxDrifts
    BY <2>1, BoundAssumption DEF IInv, TypeOK
  <2>3. sound' \in BOOLEAN /\ altered' \subseteq Slot
    BY DEF IInv, TypeOK, Drift, Alter
  <2> QED
    BY <1>1, <2>2, <2>3 DEF IInv, TypeOK, session
<1>3. SlotsFollowStep'
  BY <1>1 DEF IInv, session, SlotsFollowStep, EnteringShape, ImportShape,
     AcquireShape, MutationShape, ContinueShape, ReturnShape, All, Split,
     Accounted
<1> QED
  BY <1>2, <1>3 DEF IInv

----------------------------------------------------------------------------

\* The inductive invariant is preserved by every step.
LEMMA NextKeeps == IInv /\ [Next]_vars => IInv'
<1> SUFFICES ASSUME IInv, [Next]_vars PROVE IInv'
  OBVIOUS
<1>1. CASE Enter
  BY <1>1, CaptureKeeps, CapturePreflightKeeps, CaptureConfirmKeeps,
     ExecuteKeeps, ExecuteConfirmKeeps, MutationEntryKeeps DEF Enter
<1>2. CASE Import
  BY <1>2, InspectKeeps, ReplayKeeps, ImportUnwindKeeps DEF Import
<1>3. CASE Retain
  BY <1>3, AcquireKeeps, DiscardLaterKeeps, AcquireUnwindKeeps,
     MutationExitKeeps, MutationCleanupKeeps DEF Retain
<1>4. CASE Continue
  BY <1>4, ReauthEntryKeeps, ContinuationKeeps, ReauthExitKeeps,
     CleanupKeeps, CompleteKeeps DEF Continue
<1>5. CASE Retrying
  BY <1>5, RetryCurrentKeeps, RetrySlotKeeps DEF Retrying
<1>6. CASE StartRetry \/ Drift \/ Alter
  BY <1>6, StartRetryKeeps, OutsideKeeps
<1>7. CASE UNCHANGED vars
  BY <1>7, StutterKeeps
<1> QED
  BY <1>1, <1>2, <1>3, <1>4, <1>5, <1>6, <1>7 DEF Next, Run

\* In every behaviour of the session the slots stand where its step says.
THEOREM SlotsFollow == Spec => []IInv
<1>1. Init => IInv
  BY InitEstablishes
<1>2. IInv /\ [Next]_vars => IInv'
  BY NextKeeps
<1> QED
  BY <1>1, <1>2, PTL DEF Spec

\* Type correctness of the session.
THEOREM ReplayTypeCorrect == Spec => []TypeOK
<1>1. IInv => TypeOK
  BY DEF IInv
<1> QED
  BY <1>1, SlotsFollow, PTL

\* No custody is lost: with any number of slots, whatever fails and however
\* often the cleanup is retried, a tree that may still be named is owned by
\* a failure in the error the session returned.
THEOREM CustodyHolds == Spec => []CustodyIsKept
<1>1. IInv => CustodyIsKept
  BY DEF IInv, SlotsFollowStep, ReturnShape, CustodyIsKept, Accounted
<1> QED
  BY <1>1, SlotsFollow, PTL

\* The session discards or attempts to clean up every slot it held.
THEOREM NothingIsLeftOpen == Spec => []NothingLeftOpen
<1>1. IInv => NothingLeftOpen
  BY DEF IInv, SlotsFollowStep, ReturnShape, NothingLeftOpen, Accounted
<1> QED
  BY <1>1, SlotsFollow, PTL

\* Ok means every tree was retained and removed again.
THEOREM SuccessHolds == Spec => []SuccessIsClean
<1>1. IInv => SuccessIsClean
  BY DEF IInv, SlotsFollowStep, ReturnShape, SuccessIsClean, All, AtRest
<1> QED
  BY <1>1, SlotsFollow, PTL

\* One failure of the returned error owns slots, never two.
THEOREM OneAggregateHolds == Spec => []OneAggregate
<1>1. IInv => OneAggregate
  <2> SUFFICES ASSUME IInv PROVE OneAggregate
    OBVIOUS
  <2>1. CASE pc \in {"completion"} \cup AtRest
    BY <2>1 DEF IInv, SlotsFollowStep, ReturnShape, OneAggregate
  <2>2. CASE pc \notin {"completion"} \cup AtRest
    BY <2>2 DEF IInv, SlotsFollowStep, TypeOK, Step, AtRest, OneAggregate,
       Aggregate, EnteringShape, ImportShape, AcquireShape, MutationShape,
       ContinueShape
  <2> QED
    BY <2>1, <2>2
<1> QED
  BY <1>1, SlotsFollow, PTL

\* Trees are removed and spools dropped from the last slot to the first.
THEOREM ReverseHolds == Spec => ClosedInReverse
<1>1. ASSUME IInv, [Next]_vars
      PROVE  \A s \in Slot :
                slot[s] \in Open /\ slot'[s] \notin Open /\ s # current'
                    => \A t \in Slot : t > s => slot[t] \notin Open
  <2> USE <1>1, SizeAssumption DEF IInv, SlotsFollowStep, Slot
  <2>1. CASE Replay
    <3>1. cursor \in Slot /\ slot[cursor] = "planned"
      BY <2>1 DEF Replay, ImportShape
    <3>2. \A s \in Slot : slot[s] \in Open => slot'[s] = slot[s]
      BY <2>1, <3>1 DEF TypeOK, Replay, Open
    <3> QED
      BY <3>2
  <2>2. CASE ImportUnwind
    BY <2>2 DEF TypeOK, ImportUnwind, ImportShape, Split, CleanupOutcome,
       Open, Named, Unfinished
  <2>3. CASE Acquire
    BY <2>3 DEF TypeOK, Acquire, Settle, AcquireShape, CleanupOutcome, Open,
       Named, Unfinished
  <2>4. CASE DiscardLater
    BY <2>4 DEF TypeOK, DiscardLater, AcquireShape, CleanupOutcome, Open,
       Named, Unfinished
  <2>5. CASE AcquireUnwind
    BY <2>5 DEF TypeOK, AcquireUnwind, CleanRetained, Settle, AcquireShape,
       Accounted, CleanupOutcome, Open, Named, Unfinished
  <2>6. CASE MutationCleanup
    <3>1. cursor \in 0..N /\ \A s \in Slot : s > cursor => slot[s] \notin Open
      BY <2>6 DEF MutationCleanup, CleanInventory, MutationShape, Split,
         CleanupOutcome, Open
    <3>2. \A s \in Slot : s # cursor => slot'[s] = slot[s]
      BY <2>6 DEF TypeOK, MutationCleanup, CleanInventory, CleanRetained,
         Settle
    <3> QED
      BY <3>1, <3>2
  <2>7. CASE Cleanup
    <3>1. cursor \in 0..N /\ \A s \in Slot : s > cursor => slot[s] \notin Open
      BY <2>7 DEF Cleanup, CleanInventory, ContinueShape, Split,
         CleanupOutcome,
         Open
    <3>2. \A s \in Slot : s # cursor => slot'[s] = slot[s]
      BY <2>7 DEF TypeOK, Cleanup, CleanInventory, CleanRetained, Settle
    <3> QED
      BY <3>1, <3>2
  <2>8. CASE RetryCurrent
    BY <2>8 DEF TypeOK, RetryCurrent, RetryOutcome, AtRest, ReturnShape,
       Accounted, CleanupOutcome, Open, Named, Unfinished
  <2>9. CASE RetrySlot
    BY <2>9 DEF TypeOK, RetrySlot, RetryOutcome, AtRest, ReturnShape,
       Accounted, CleanupOutcome, Open, Named, Unfinished
  <2>10. CASE UNCHANGED slot
    BY <2>10
  <2> QED
    BY <2>1, <2>2, <2>3, <2>4, <2>5, <2>6, <2>7, <2>8, <2>9, <2>10 DEF Next,
       Run, Enter, Import, Retain, Continue, Retrying, Capture,
       CapturePreflight, CaptureConfirm, Execute, ExecuteConfirm,
       MutationEntry, Gate, Inspect, MutationExit, ReauthEntry, ReauthExit,
       Reauthenticate, Continuation, Complete, StartRetry, Drift, Alter,
       session, vars
<1> QED
  BY <1>1, SlotsFollow, PTL DEF Spec, ClosedInReverse

\* Trees are named in canonical order, over retained ones and before spools.
THEOREM OrderHolds == Spec => NamedInOrder
<1>1. ASSUME IInv, [Next]_vars
      PROVE  \A s \in Slot :
                slot[s] \notin Named /\ slot'[s] \in Named
                    => \A t \in Slot : /\ t < s => slot[t] = "retained"
                                       /\ t > s => slot[t] = "staged"
  <2> USE <1>1, SizeAssumption DEF IInv, SlotsFollowStep, Slot
  <2>1. CASE Replay
    BY <2>1 DEF TypeOK, Replay, ImportShape, CleanupOutcome, Open, Named,
       Unfinished
  <2>2. CASE ImportUnwind
    BY <2>2 DEF TypeOK, ImportUnwind, ImportShape, Split, CleanupOutcome,
       Open, Named, Unfinished
  <2>3. CASE Acquire
    <3>1. /\ cursor \in Slot
          /\ \A s \in Slot : IF s < cursor THEN slot[s] = "retained"
                                            ELSE slot[s] = "staged"
      BY <2>3 DEF Acquire, AcquireShape
    <3>2. \A s \in Slot : s # cursor => slot'[s] = slot[s]
      BY <2>3 DEF TypeOK, Acquire, Settle
    <3> QED
      BY <3>1, <3>2
  <2>4. CASE DiscardLater
    BY <2>4 DEF TypeOK, DiscardLater, AcquireShape, CleanupOutcome, Open,
       Named, Unfinished
  <2>5. CASE AcquireUnwind
    BY <2>5 DEF TypeOK, AcquireUnwind, CleanRetained, Settle, AcquireShape,
       Accounted, CleanupOutcome, Open, Named, Unfinished
  <2>6. CASE MutationCleanup
    BY <2>6 DEF TypeOK, MutationCleanup, CleanInventory, CleanRetained,
       Settle, MutationShape, Split, CleanupOutcome, Open, Named, Unfinished
  <2>7. CASE Cleanup
    BY <2>7 DEF TypeOK, Cleanup, CleanInventory, CleanRetained, Settle,
       ContinueShape, Split, CleanupOutcome, Open, Named, Unfinished
  <2>8. CASE RetryCurrent
    BY <2>8 DEF TypeOK, RetryCurrent, RetryOutcome, AtRest, ReturnShape,
       Accounted, CleanupOutcome, Open, Named, Unfinished
  <2>9. CASE RetrySlot
    BY <2>9 DEF TypeOK, RetrySlot, RetryOutcome, AtRest, ReturnShape,
       Accounted, CleanupOutcome, Open, Named, Unfinished
  <2>10. CASE UNCHANGED slot
    BY <2>10
  <2> QED
    BY <2>1, <2>2, <2>3, <2>4, <2>5, <2>6, <2>7, <2>8, <2>9, <2>10 DEF Next,
       Run, Enter, Import, Retain, Continue, Retrying, Capture,
       CapturePreflight, CaptureConfirm, Execute, ExecuteConfirm,
       MutationEntry, Gate, Inspect, MutationExit, ReauthEntry, ReauthExit,
       Reauthenticate, Continuation, Complete, StartRetry, Drift, Alter,
       session, vars
<1> QED
  BY <1>1, SlotsFollow, PTL DEF Spec, NamedInOrder

\* A session that began its effect cannot return Ok over a drifted world.
THEOREM DriftHolds == Spec => DriftIsReported
<1>1. ASSUME IInv, [Next]_vars
      PROVE  pc # "returned" /\ pc' = "returned" /\ ~sound => error' # {}
  <2> USE <1>1 DEF FinishOutcome, Recheck
  <2> SUFFICES ASSUME pc # "returned", pc' = "returned", ~sound
               PROVE  error' # {}
    OBVIOUS
  <2>1. CASE Enter
    BY <2>1 DEF Enter, Capture, CapturePreflight, CaptureConfirm, Execute,
       ExecuteConfirm, MutationEntry, Gate
  <2>2. CASE Import
    BY <2>2 DEF Import, Inspect, Replay, ImportUnwind
  <2>3. CASE Retain
    BY <2>3 DEF Retain, Acquire, DiscardLater, AcquireUnwind, CleanRetained,
       MutationExit, MutationCleanup, CleanInventory
  <2>4. CASE Continue
    BY <2>4 DEF Continue, ReauthEntry, ReauthExit, Reauthenticate,
       Continuation, Cleanup, CleanInventory, CleanRetained, Complete
  <2>5. CASE Retrying
    BY <2>5 DEF Retrying, RetryCurrent, RetrySlot, IInv, SlotsFollowStep,
       ReturnShape
  <2>6. CASE StartRetry \/ Drift \/ Alter \/ UNCHANGED vars
    BY <2>6 DEF StartRetry, Drift, Alter, session, vars
  <2> QED
    BY <2>1, <2>2, <2>3, <2>4, <2>5, <2>6 DEF Next, Run
<1> QED
  BY <1>1, SlotsFollow, PTL DEF Spec, DriftIsReported

\* The altered tree of slot s is still to be reauthenticated, or its
\* alteration is in the error.
Noted(s) ==
    /\ s \in altered
    /\ \/ pc = "continuation"
       \/ pc = "reauth.exit" /\ cursor <= s
       \/ pc \in {"cleanup", "completion"} \cup AtRest /\ error # {}

\* No step loses sight of the alteration: the exit reauthentication does not
\* pass the slot, and no later step takes a failure out of the error.
LEMMA NotedIsKept ==
    ASSUME IInv, NEW s \in Slot, Noted(s), [Next]_vars
    PROVE  Noted(s)'
<1>0. /\ pc \in {"continuation", "reauth.exit", "cleanup", "completion"} \cup AtRest
      /\ s \in altered /\ s \in 1..N /\ N \in Nat
      /\ pc \in {"reauth.exit", "continuation"} => cursor \in 1..N
  BY SizeAssumption DEF Noted, IInv, SlotsFollowStep, ContinueShape, Slot
<1>1. CASE Continuation
  BY <1>0, <1>1 DEF Continuation, Noted, outside
<1>2. CASE ReauthExit
  <2>1. /\ pc = "reauth.exit" /\ cursor <= s /\ altered' = altered
    BY <1>2 DEF ReauthExit, Reauthenticate, Noted, outside, AtRest
  <2>2. PICK ok \in BOOLEAN :
          /\ Reauthenticated(ok) /\ FinishOutcome("reauthExit", ok)
          /\ \/ /\ ok /\ cursor < N /\ pc' = pc /\ cursor' = cursor + 1
             \/ /\ ok /\ cursor = N /\ pc' = "cleanup"
             \/ /\ ~ok /\ pc' = "cleanup"
    BY <1>2 DEF ReauthExit, Reauthenticate
  <2>3. CASE ok
    <3>1. cursor # s
      BY <1>0, <2>2, <2>3 DEF Reauthenticated
    <3>2. cursor < N /\ cursor + 1 <= s
      BY <1>0, <2>1, <3>1
    <3> QED
      BY <1>0, <2>1, <2>2, <2>3, <3>2 DEF Noted
  <2>4. CASE ~ok
    BY <1>0, <2>1, <2>2, <2>4 DEF Noted, FinishOutcome
  <2> QED
    BY <2>3, <2>4
<1>3. CASE Cleanup
  BY <1>0, <1>3 DEF Cleanup, CleanInventory, CleanRetained, FinishOutcome, Noted,
     outside, AtRest
<1>4. CASE Complete
  BY <1>0, <1>4 DEF Complete, FinishOutcome, Noted, outside, AtRest
<1>5. CASE StartRetry \/ Retrying
  BY <1>0, <1>5 DEF StartRetry, Retrying, RetryCurrent, RetrySlot, Noted, outside,
     AtRest
<1>6. CASE Drift \/ Alter
  BY <1>0, <1>6 DEF Drift, Alter, session, Noted
<1>7. CASE UNCHANGED vars
  BY <1>7 DEF vars, Noted
<1>8. ~(Enter \/ Import \/ Retain \/ ReauthEntry)
  BY <1>0 DEF AtRest, Enter, Capture, CapturePreflight, CaptureConfirm, Execute,
     ExecuteConfirm, MutationEntry, Gate, Import, Inspect, Replay, ImportUnwind,
     Retain, Acquire, DiscardLater, AcquireUnwind, MutationExit, MutationCleanup,
     CleanInventory, ReauthEntry, Reauthenticate
<1> QED
  BY <1>1, <1>2, <1>3, <1>4, <1>5, <1>6, <1>7, <1>8 DEF Next, Run, Continue

\* A retained tree changed while the continuation runs is reported, for any
\* number of slots: every later return, retries included, carries an error.
THEOREM AlterationHolds == Spec => AlteredIsReported
<1> SUFFICES ASSUME NEW s \in Slot
             PROVE  Spec => [](pc = "continuation" /\ s \in altered
                                 => [](pc = "returned" => error # {}))
  BY DEF AlteredIsReported
<1>1. pc = "continuation" /\ s \in altered => Noted(s)
  BY DEF Noted
<1>2. IInv /\ Noted(s) /\ [Next]_vars => Noted(s)'
  BY NotedIsKept
<1>3. Noted(s) => (pc = "returned" => error # {})
  BY DEF Noted
<1> QED
  BY <1>1, <1>2, <1>3, SlotsFollow, PTL DEF Spec
=============================================================================
