-------------------- MODULE AuthenticatedStreamProofs --------------------
(***************************************************************************)
(* What is proved of reading a file of an immutable root, for every file,  *)
(* every length and any number of interventions.                           *)
(*                                                                         *)
(* The invariant says at each step of a call what its earlier checks have  *)
(* established: that nothing has failed up to a step that only a success   *)
(* reaches, that a failing read is held by the reader until its error or   *)
(* finish() brings it up, and that past finish() (or the digest of a       *)
(* buffered read) the bytes seen are the ones in custody.  None of it is   *)
(* about the file itself, so the other process cannot disturb it.          *)
(***************************************************************************)
EXTENDS AuthenticatedStream, TLAPS

\* What holds at a step because of the steps before it.
CallIsSound ==
    /\ pc \in {"precheck", "pin", "open", "measure", "fetch", "repin",
              "deliver", "between"} => outcome = {} /\ failed = {}
    /\ pc \in {"inspect", "finish"} =>
          outcome = {} /\ failed = (IF sticky THEN {"read"} ELSE {})
    /\ pc \in {"file", "root", "post", "returned"} => outcome = failed
    /\ pc \in {"file", "root"} /\ outcome = {} => seen = Captured
    /\ pc \in {"repin", "deliver"} => seen = Captured
    /\ pc = "post" /\ outcome = {} /\ pass = 1 => retained = Captured
    /\ pc = "between" => pass = 1 /\ retained = Captured
    /\ pass = 2 => retained = Captured

IInv == TypeOK /\ CallIsSound

-----------------------------------------------------------------------------
(* A file is a sequence of blocks.                                          *)
LEMMA BodiesAreSequences ==
    ASSUME NEW s \in Bodies
    PROVE  /\ s \in Seq(Block) /\ Len(s) \in Nat
           /\ \A i \in 1..Len(s) : s[i] \in Block
<1>1. PICK n \in 0..MaxLength : s \in [1..n -> Block]
  BY DEF Bodies
<1>2. n \in Nat
  BY BoundAssumption
<1> QED
  BY <1>1, <1>2

(* The block a read delivers is one of the file's.                          *)
LEMMA NextBlockIsABlock ==
    ASSUME TypeOK, More
    PROVE  NextBlock \in Block
<1>1. body[opened] \in Bodies
  BY DEF TypeOK
<1>2. Len(seen) \in Nat /\ Len(seen) + 1 \in 1..Len(body[opened])
  BY <1>1, BodiesAreSequences DEF TypeOK, More
<1> QED
  BY <1>1, <1>2, BodiesAreSequences DEF NextBlock

(* What finish() may report is a failing read or a defect.                  *)
LEMMA DefectsAreCauses ==
    ASSUME NEW causes \in {Defect} \cup ProbeFault
    PROVE  /\ causes \subseteq Cause
           /\ sticky => causes = {"read"}
           /\ causes = {} => seen = Captured
<1>1. CASE sticky
  BY <1>1 DEF Defect, ProbeFault, Cause
<1>2. CASE ~sticky
  BY <1>2 DEF Defect, ProbeFault, Cause
<1> QED
  BY <1>1, <1>2

-----------------------------------------------------------------------------
(* Every step keeps the types and what a step of a call may rely on.        *)
LEMMA CallStep ==
    ASSUME IInv, Call
    PROVE  IInv'
<1> USE DEF IInv
<1>0. named' = named /\ body' = body /\ meddles' = meddles
  BY DEF Call
<1>1. CASE Precheck
  <2>1. TypeOK'
    BY <1>0, <1>1
    DEF TypeOK, Step, Cause, ValueState, Precheck, Fails, Combine
  <2>2. CallIsSound'
    BY <1>1 DEF TypeOK, CallIsSound, Precheck, Fails, Combine
  <2> QED
    BY <2>1, <2>2
<1>2. CASE Pin
  <2>1. TypeOK'
    BY <1>0, <1>2
    DEF TypeOK, Step, Cause, ValueState, Pin, Fails, Combine, AfterOpenError
  <2>2. CallIsSound'
    BY <1>2 DEF TypeOK, CallIsSound, Pin, Fails, Combine, AfterOpenError
  <2> QED
    BY <2>1, <2>2
<1>3. CASE OpenData
  <2>a. seen' = <<>> /\ eof' = FALSE /\ sticky' = FALSE
    BY <1>3 DEF OpenData
  <2>b. eof' \in BOOLEAN /\ sticky' \in BOOLEAN
    BY <2>a, Zenon
  <2>0. seen' \in Seq(Block)
    BY <2>a
  <2>1. TypeOK'
    BY <1>0, <1>3, <2>b, <2>0
    DEF TypeOK, Step, Cause, ValueState, OpenData, Fails, Combine, AfterOpenError
  <2>2. CallIsSound'
    BY <1>3 DEF TypeOK, CallIsSound, OpenData, Fails, Combine, AfterOpenError
  <2> QED
    BY <2>1, <2>2
<1>4. CASE Read
  <2>0. seen' \in Seq(Block)
    <3>1. CASE More /\ seen' = Append(seen, NextBlock)
      BY <3>1, NextBlockIsABlock DEF TypeOK
    <3>2. CASE UNCHANGED seen
      BY <3>2 DEF TypeOK
    <3> QED
      BY <1>4, <3>1, <3>2 DEF Read, ReadFails
  <2>1. TypeOK'
    BY <1>0, <1>4, <2>0
    DEF TypeOK, Step, Cause, ValueState, Read, ReadFails
  <2>2. CallIsSound'
    BY <1>4 DEF TypeOK, CallIsSound, Read, ReadFails
  <2> QED
    BY <2>1, <2>2
<1>5. CASE InspectOk
  <2>1. TypeOK'
    BY <1>0, <1>5
    DEF TypeOK, Step, Cause, ValueState, InspectOk, Owned
  <2>2. CallIsSound'
    BY <1>5 DEF TypeOK, CallIsSound, InspectOk, Owned
  <2> QED
    BY <2>1, <2>2
<1>6. CASE InspectErr
  <2>1. TypeOK'
    BY <1>0, <1>6
    DEF TypeOK, Step, Cause, ValueState, InspectErr, Fails, Combine
  <2>2. CallIsSound'
    BY <1>6 DEF TypeOK, CallIsSound, InspectErr, Fails, Combine
  <2> QED
    BY <2>1, <2>2
<1>7. CASE Finish
  <2>1. PICK causes \in {Defect} \cup ProbeFault :
          /\ Fails(causes)
          /\ value' = IF causes = {} THEN value ELSE Owned("dropped")
    BY <1>7 DEF Finish
  <2>2. causes \subseteq Cause /\ (sticky => causes = {"read"})
          /\ (causes = {} => seen = Captured)
    BY DefectsAreCauses
  <2>3. TypeOK'
    BY <1>0, <1>7, <2>1, <2>2
    DEF TypeOK, Step, ValueState, Finish, Fails, Combine, Owned
  <2>4. CallIsSound'
    BY <1>7, <2>1, <2>2 DEF CallIsSound, TypeOK, Finish, Fails, Combine
  <2> QED
    BY <2>3, <2>4
<1>8. CASE FilePostcheck
  <2>1. TypeOK'
    BY <1>0, <1>8
    DEF TypeOK, Step, Cause, ValueState, FilePostcheck, Fails, Combine, Owned
  <2>2. CallIsSound'
    BY <1>8 DEF TypeOK, CallIsSound, FilePostcheck, Fails, Combine, Owned
  <2> QED
    BY <2>1, <2>2
<1>9. CASE RootPostcheck
  <2>1. TypeOK'
    BY <1>0, <1>9
    DEF TypeOK, Step, Cause, ValueState, RootPostcheck, Fails, Combine, Owned
  <2>2. CallIsSound'
    BY <1>9 DEF TypeOK, CallIsSound, RootPostcheck, Fails, Combine, Owned
  <2> QED
    BY <2>1, <2>2
<1>10. CASE Measure
  <2>1. TypeOK'
    BY <1>0, <1>10
    DEF TypeOK, Step, Cause, ValueState, Measure, Fails, Combine
  <2>2. CallIsSound'
    BY <1>10 DEF TypeOK, CallIsSound, Measure, Fails, Combine
  <2> QED
    BY <2>1, <2>2
<1>11. CASE Fetch
  <2>0. seen' \in Seq(Block)
    <3>1. CASE More /\ seen' = Append(seen, NextBlock)
      BY <3>1, NextBlockIsABlock DEF TypeOK
    <3>2. CASE UNCHANGED seen
      BY <3>2 DEF TypeOK
    <3> QED
      BY <1>11, <3>1, <3>2 DEF Fetch
  <2>1. TypeOK'
    BY <1>0, <1>11, <2>0
    DEF TypeOK, Step, Cause, ValueState, Fetch, Fails, Combine
  <2>2. CallIsSound'
    BY <1>11 DEF TypeOK, CallIsSound, Fetch, Fails, Combine
  <2> QED
    BY <2>1, <2>2
<1>12. CASE Repin
  <2>1. TypeOK'
    BY <1>0, <1>12
    DEF TypeOK, Step, Cause, ValueState, Repin, Fails, Combine
  <2>2. CallIsSound'
    BY <1>12 DEF TypeOK, CallIsSound, Repin, Fails, Combine
  <2> QED
    BY <2>1, <2>2
<1>13. CASE Deliver
  <2>1. TypeOK'
    BY <1>0, <1>13
    DEF TypeOK, Step, Cause, ValueState, Deliver, Fails, Combine, Owned
  <2>2. CallIsSound'
    BY <1>13 DEF TypeOK, CallIsSound, Deliver, Fails, Combine, Owned
  <2> QED
    BY <2>1, <2>2
<1>14. CASE DeliveryPostcheck
  <2>1. TypeOK'
    BY <1>0, <1>14
    DEF TypeOK, Step, Cause, ValueState, DeliveryPostcheck, Fails, Combine, Owned
  <2>2. CallIsSound'
    BY <1>14 DEF TypeOK, CallIsSound, DeliveryPostcheck, Fails, Combine, Owned
  <2> QED
    BY <2>1, <2>2
<1>15. CASE Between
  <2>0. pass = 1 /\ pass' \in 1..2 /\ pc' \in Step
    BY <1>15 DEF Between, TypeOK, CallIsSound, Step
  <2>1. TypeOK'
    BY <1>0, <1>15, <2>0
    DEF TypeOK, Step, Cause, ValueState, Between, Fails, Combine
  <2>2. CallIsSound'
    BY <1>15 DEF TypeOK, CallIsSound, Between, Fails, Combine
  <2> QED
    BY <2>1, <2>2
<1> QED
  BY <1>1, <1>2, <1>3, <1>4, <1>5, <1>6, <1>7, <1>8,
     <1>9, <1>10, <1>11, <1>12, <1>13, <1>14, <1>15 DEF Call

(* What the other process does changes only the file.                       *)
LEMMA OtherStep ==
    ASSUME IInv, Rewrite \/ Rename
    PROVE  IInv'
<1>1. UNCHANGED call /\ named' \in Object /\ body' \in [Object -> Bodies]
  BY DEF IInv, TypeOK, Rewrite, Rename, Object
<1>2. meddles' \in 0..MaxMeddles
  BY BoundAssumption DEF IInv, TypeOK, Rewrite, Rename
<1> QED
  BY <1>1, <1>2 DEF IInv, TypeOK, CallIsSound, call

LEMMA InitIsSound ==
    Init => IInv
<1>1. Captured \in Seq(Block) /\ 0 \in 0..MaxMeddles
  BY CapturedAssumption, BoundAssumption
<1>2. ASSUME Init PROVE TypeOK
  <2>1. kind \in Kind /\ pass \in 1..2 /\ pc \in Step /\ value \in ValueState
    BY <1>2 DEF Init, Step, ValueState
  <2>2. seen \in Seq(Block) /\ retained \in Seq(Block)
    BY <1>2 DEF Init
  <2>3. eof \in BOOLEAN /\ sticky \in BOOLEAN
    BY <1>2 DEF Init
  <2>4. pinned \in Object /\ opened \in Object /\ named \in Object
    BY <1>2 DEF Init, Object
  <2> QED
    BY <1>1, <1>2, <2>1, <2>2, <2>3, <2>4 DEF Init, TypeOK
<1>3. ASSUME Init PROVE CallIsSound
  BY <1>3 DEF Init, CallIsSound
<1> QED
  BY <1>2, <1>3 DEF IInv

(* The invariant holds in every reachable state.                            *)
THEOREM StreamInvariant == Spec => []IInv
<1>1. IInv /\ [Next]_vars => IInv'
  <2> SUFFICES ASSUME IInv, [Next]_vars PROVE IInv'
    OBVIOUS
  <2>1. CASE Call
    BY <2>1, CallStep
  <2>2. CASE Rewrite \/ Rename
    BY <2>2, OtherStep
  <2>3. CASE UNCHANGED vars
    BY <2>3 DEF IInv, TypeOK, CallIsSound, vars, call
  <2> QED
    BY <2>1, <2>2, <2>3 DEF Next
<1> QED
  BY <1>1, InitIsSound, PTL DEF Spec

(* Every variable of a call keeps its type: custody.rs never starts a third *)
(* stream, and never counts a block that is not the file's.                 *)
THEOREM StreamTypeCorrect == Spec => []TypeOK
<1>1. IInv => TypeOK
  BY DEF IInv, CallIsSound, TypeOK
<1> QED
  BY <1>1, StreamInvariant, PTL

(* A value is delivered only if it was parsed from exactly the bytes in     *)
(* custody, whatever happens to the file while it is read.                  *)
THEOREM Authentic == Spec => []DeliveredIsAuthentic
<1>1. IInv => DeliveredIsAuthentic
  BY DEF IInv, CallIsSound, DeliveredIsAuthentic, TypeOK
<1> QED
  BY <1>1, StreamInvariant, PTL

(* Nothing is delivered once a stage has failed, a read that the parser     *)
(* ignored included.                                                        *)
THEOREM Closed == Spec => []FailClosed
<1>1. IInv => FailClosed
  BY DEF IInv, CallIsSound, FailClosed, TypeOK
<1> QED
  BY <1>1, StreamInvariant, PTL

(* A call that returns reports every stage that failed.                     *)
THEOREM NoneIsLost == Spec => []NoFailureIsLost
<1>1. IInv => NoFailureIsLost
  BY DEF IInv, CallIsSound, NoFailureIsLost, TypeOK
<1> QED
  BY <1>1, StreamInvariant, PTL
============================================================================
