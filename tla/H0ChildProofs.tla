---------------------------- MODULE H0ChildProofs ----------------------------
(***************************************************************************)
(* Proofs about H0Child, for every script of frames and any number of      *)
(* interventions and failing calls.                                        *)
(***************************************************************************)
EXTENDS H0Child, TLAPS

\* Before its identity was set and read back.
Unlaunched == {"none", "born", "transition.read", "shift"}

\* The steps before a worker's maps are written.
BeforeMaps == {"measure", "clone", "retain", "maps.check", "maps"}

\* The inductive invariant.  What is accepted is measured because an untouched
\* file never had other bytes, a frame can only come from a program, and a
\* program is behind the barrier; nobody is orphaned because custody ends
\* only where the child was not made or is reaped.  The maps are read again only
\* around the bootstrap frame; behind them a worker stays, as nobody unsets them.
Shape ==
  /\ sup \in {"measure", "clone"} => child = "none"
  /\ sup \in {"op.do", "op.after"} => next <= Len(Script[role])
  /\ sup = "reap.check" => child = "reaped"
  /\ ~touched => exe = "measured" /\ image # "altered"
  /\ child \notin Unlaunched \cup {"zombie", "reaped"} => identity
  /\ image # "none" => identity /\ child \in {"program", "zombie", "reaped"}
  /\ child = "program" => image # "none"
  /\ inbox => image # "none"
  /\ sup = "op.after" /\ CurrentOp = "recv" => image # "none"
  /\ sup \in SupStep \ BeforeMaps => MapsHold
  /\ AcceptedIsMeasured
  /\ NobodyIsOrphaned

IInv == TypeOK /\ Shape

-----------------------------------------------------------------------------
\* The initial states.
LEMMA InitHolds == Init => IInv
<1> SUFFICES ASSUME Init PROVE IInv OBVIOUS
<1>1. ends \in [Process -> SUBSET End] /\ toChild \in Seq({"T", "E"}) /\ toSup \in Seq({"I"})
  BY DEF Init
<1>2. next \in 1..(Len(Script[role]) + 1)
  BY ConstantsAssumption DEF Init
<1>3. TypeOK
  <2>1. /\ sup \in SupStep \cup Containing \cup Ended
        /\ child \in Trampoline \cup Gone \cup {"program"}
    BY DEF Init, SupStep, Gone
  <2>2. meddles \in 0..MaxMeddles /\ faults \in 0..MaxFaults
    BY ConstantsAssumption DEF Init
  <2> QED BY <1>1, <1>2, <2>1, <2>2, Zenon DEF Init, TypeOK
<1>4. Shape
  BY DEF Init, Shape, AcceptedIsMeasured, NobodyIsOrphaned, Unlaunched,
         BeforeMaps
<1> QED BY <1>3, <1>4 DEF IInv

\* The control bytes on their way stay control bytes.
LEMMA BytesTyped ==
  /\ \A s \in Seq({"T", "E"}) : /\ Append(s, "T") \in Seq({"T", "E"})
                               /\ Append(s, "E") \in Seq({"T", "E"})
                               /\ s # <<>> => Tail(s) \in Seq({"T", "E"})
  /\ \A s \in Seq({"I"}) : /\ Append(s, "I") \in Seq({"I"})
                          /\ s # <<>> => Tail(s) \in Seq({"I"})
  OBVIOUS

\* The end of the child keeps the invariant unless it was never made.
LEMMA ExitHolds ==
  IInv /\ Exit /\ child \notin {"none", "reaped"} /\ meddles' \in 0..MaxMeddles
    /\ faults' \in 0..MaxFaults => IInv'
  BY ConstantsAssumption DEF Exit, IInv, Shape, TypeOK, AcceptedIsMeasured,
        NobodyIsOrphaned, MapsHold, CurrentOp, Projected, BeforeMaps, Unlaunched,
      SupStep, Containing,
        Ended, Trampoline, Gone, Role, Op, Process, End, barrierVars, exeVars,
        frameVars, envVars, childVars, vars, supVars

\* An error keeps the invariant wherever the child is alive, reaped or was
\* never made: containment takes over or there is nobody left.
LEMMA FailHolds == IInv /\ Fail /\ UNCHANGED meddles /\ faults' \in 0..MaxFaults => IInv'
  BY ConstantsAssumption DEF Fail, Goto, IInv, Shape, TypeOK, AcceptedIsMeasured,
        NobodyIsOrphaned, MapsHold, CurrentOp, Projected, BeforeMaps, Unlaunched,
      SupStep, Containing,
        Ended, Trampoline, Gone, Role, Op, Process, End, barrierVars, exeVars,
        frameVars, envVars, childVars, vars, supVars

\* The supervisor's steps that only check.
LEMMA ChecksHold ==
  ASSUME IInv,
         Measure \/ MapsCheck \/ MapsMeasure \/ ReleaseCheck \/
         CheckIdentity \/ CheckExecutable \/ BeforeFrame \/ EndSession
         \/ Enqueue \/ Observe \/ Observed \/ ReapCheck
  PROVE  IInv'
<1> USE ConstantsAssumption DEF IInv, Shape, TypeOK, AcceptedIsMeasured,
      NobodyIsOrphaned, MapsHold, CurrentOp, Projected, BeforeMaps, Unlaunched,
      SupStep, Containing,
      Ended, Trampoline, Gone, Role, Op, Process, End, barrierVars, exeVars,
      frameVars, envVars, childVars, vars, supVars
<1>1. CASE Measure
  <2>1. CASE Fail
    BY <1>1, <2>1, FailHolds DEF Measure, CheckStep
  <2>2. CASE ~Fail
    BY <1>1, <2>2 DEF Measure, CheckStep, Advance, Goto, Measured
  <2> QED BY <2>1, <2>2
<1>2. CASE MapsCheck
  <2>1. CASE Fail
    BY <1>2, <2>1, FailHolds DEF MapsCheck, CheckStep
  <2>2. CASE ~Fail
    BY <1>2, <2>2 DEF MapsCheck, CheckStep, Advance, Goto, Measured
  <2> QED BY <2>1, <2>2
<1>3. CASE MapsMeasure
  <2>1. CASE Fail
    BY <1>3, <2>1, FailHolds DEF MapsMeasure, CheckStep
  <2>2. CASE ~Fail
    BY <1>3, <2>2 DEF MapsMeasure, CheckStep, Advance, Goto, Measured
  <2> QED BY <2>1, <2>2
<1>4. CASE ReleaseCheck
  <2>1. CASE Fail
    BY <1>4, <2>1, FailHolds DEF ReleaseCheck, CheckStep
  <2>2. CASE ~Fail
    BY <1>4, <2>2 DEF ReleaseCheck, CheckStep, Advance, Goto, Measured
  <2> QED BY <2>1, <2>2
<1>5. CASE CheckIdentity
  <2>1. CASE Fail
    BY <1>5, <2>1, FailHolds DEF CheckIdentity, CheckStep
  <2>2. CASE ~Fail
    BY <1>5, <2>2 DEF CheckIdentity, CheckStep, Advance, Goto, Measured
  <2> QED BY <2>1, <2>2
<1>6. CASE CheckExecutable
  <2>1. CASE Fail
    BY <1>6, <2>1, FailHolds DEF CheckExecutable, CheckStep
  <2>2. CASE ~Fail
    BY <1>6, <2>2 DEF CheckExecutable, CheckStep, Advance, Goto, Measured
  <2> QED BY <2>1, <2>2
<1>7. CASE BeforeFrame
  <2>1. CASE Fail
    BY <1>7, <2>1, FailHolds DEF BeforeFrame, CheckStep
  <2>2. CASE ~Fail
    BY <1>7, <2>2 DEF BeforeFrame, CheckStep, Advance, Goto, Measured
  <2> QED BY <2>1, <2>2
<1>8. CASE EndSession
  BY <1>8 DEF EndSession, Advance, Goto
<1>9. CASE Enqueue
  <2>1. CASE Fail
    BY <1>9, <2>1, FailHolds DEF Enqueue, CheckStep
  <2>2. CASE ~Fail
    BY <1>9, <2>2 DEF Enqueue, CheckStep, Advance, Goto, Live
  <2> QED BY <2>1, <2>2
<1>10. CASE Observe
  BY <1>10 DEF Observe, Advance, Goto
<1>11. CASE Observed
  <2>1. CASE Fail
    BY <1>11, <2>1, FailHolds DEF Observed, CheckStep
  <2>2. CASE ~Fail
    BY <1>11, <2>2 DEF Observed, CheckStep, Advance, Goto, Measured
  <2> QED BY <2>1, <2>2
<1>12. CASE ReapCheck
  <2>1. CASE Fail
    BY <1>12, <2>1, FailHolds DEF ReapCheck, CheckStep
  <2>2. CASE ~Fail
    BY <1>12, <2>2 DEF ReapCheck, CheckStep, Advance, Goto, Measured
  <2> QED BY <2>1, <2>2
<1> QED BY <1>1, <1>2, <1>3, <1>4, <1>5, <1>6, <1>7, <1>8, <1>9, <1>10, <1>11, <1>12

\* The supervisor's steps that change something.
LEMMA MovesHold ==
  ASSUME IInv,
         Clone \/ Retain \/ Maps \/ ReleaseTransition \/ ReadReady \/
         ReleaseExec \/ CheckReleased \/ Receive \/ AfterFrame \/ Reap
         \/ ContainKill \/ ContainWait \/ Fault
  PROVE  IInv'
<1> USE ConstantsAssumption DEF IInv, Shape, TypeOK, AcceptedIsMeasured,
      NobodyIsOrphaned, MapsHold, CurrentOp, Projected, BeforeMaps, Unlaunched,
      SupStep, Containing,
      Ended, Trampoline, Gone, Role, Op, Process, End, barrierVars, exeVars,
      frameVars, envVars, childVars, vars, supVars
<1>1. CASE Clone
  BY <1>1 DEF Clone, Goto
<1>2. CASE Retain
  <2>1. CASE Fail
    BY <1>2, <2>1, FailHolds DEF Retain
  <2>2. CASE ~Fail
    BY <1>2, <2>2 DEF Retain, Goto, Live
  <2> QED BY <2>1, <2>2
<1>3. CASE Maps
  <2>1. CASE Fail
    BY <1>3, <2>1, FailHolds DEF Maps
  <2>2. CASE ~Fail
    BY <1>3, <2>2, ZenonT(40) DEF Maps, Goto, Live
  <2> QED BY <2>1, <2>2
<1>4. CASE ReleaseTransition
  <2>1. CASE Fail
    BY <1>4, <2>1, FailHolds DEF ReleaseTransition, WriteByte
  <2>2. CASE ~Fail
    <3>1. toChild' = Append(toChild, "T")
      BY <1>4, <2>2 DEF ReleaseTransition, WriteByte
    <3>2. toChild' \in Seq({"T", "E"})
      BY <3>1, BytesTyped
    <3>3. TypeOK'
      BY <1>4, <2>2, <3>2 DEF ReleaseTransition, WriteByte, Goto
    <3>4. Shape'
      BY <1>4, <2>2 DEF ReleaseTransition, WriteByte, Goto
    <3> QED BY <3>3, <3>4
  <2> QED BY <2>1, <2>2
<1>5. CASE ReadReady
  <2>1. CASE Fail
    BY <1>5, <2>1, FailHolds DEF ReadReady
  <2>2. CASE ~Fail
    <3>1. toSup # <<>> /\ toSup' = Tail(toSup)
      BY <1>5, <2>2 DEF ReadReady
    <3>2. toSup' \in Seq({"I"})
      BY <3>1, BytesTyped
    <3>3. TypeOK'
      BY <1>5, <2>2, <3>2 DEF ReadReady, Goto
    <3>4. Shape'
      BY <1>5, <2>2 DEF ReadReady, Goto
    <3> QED BY <3>3, <3>4
  <2> QED BY <2>1, <2>2
<1>6. CASE ReleaseExec
  <2>1. CASE Fail
    BY <1>6, <2>1, FailHolds DEF ReleaseExec, WriteByte
  <2>2. CASE ~Fail
    <3>1. toChild' = Append(toChild, "E")
      BY <1>6, <2>2 DEF ReleaseExec, WriteByte
    <3>2. toChild' \in Seq({"T", "E"})
      BY <3>1, BytesTyped
    <3>3. TypeOK'
      BY <1>6, <2>2, <3>2 DEF ReleaseExec, WriteByte, Goto
    <3>4. Shape'
      BY <1>6, <2>2 DEF ReleaseExec, WriteByte, Goto
    <3> QED BY <3>3, <3>4
  <2> QED BY <2>1, <2>2
<1>7. CASE CheckReleased
  <2>1. CASE Fail
    BY <1>7, <2>1, FailHolds DEF CheckReleased
  <2>2. CASE ~Fail
    <3>1. TypeOK'
      BY <1>7, <2>2 DEF CheckReleased, Goto
    <3>2. Shape'
      BY <1>7, <2>2 DEF CheckReleased, Goto
    <3> QED BY <3>1, <3>2
  <2> QED BY <2>1, <2>2
<1>8. CASE Receive
  <2>1. CASE Fail
    BY <1>8, <2>1, FailHolds DEF Receive
  <2>2. CASE ~Fail
    <3>1. TypeOK'
      BY <1>8, <2>2 DEF Receive, Goto
    <3>2. Shape'
      BY <1>8, <2>2 DEF Receive, Goto
    <3> QED BY <3>1, <3>2
  <2> QED BY <2>1, <2>2
<1>9. CASE AfterFrame
  <2>1. CASE Fail
    BY <1>9, <2>1, FailHolds DEF AfterFrame
  <2>2. CASE ~Fail
    BY <1>9, <2>2 DEF AfterFrame, Goto, Live, Measured
  <2> QED BY <2>1, <2>2
<1>10. CASE Reap
  BY <1>10 DEF Reap, Goto
<1>11. CASE ContainKill
  <2>1. UNCHANGED <<role, maps, toChild, toSup, exeVars, frameVars, child, image,
                    identity, meddles>>
    BY <1>11 DEF ContainKill
  <2>2. sup' \in {"drop.wait", "raw.wait", "dead"}
    BY <1>11 DEF ContainKill, Goto
  <2>3. ends' = ends \/ ends' = [ends EXCEPT !["supervisor"] = {}]
    BY <1>11 DEF ContainKill
  <2>4. signalled' = TRUE \/ signalled' = signalled
    BY <1>11 DEF ContainKill
  <2>5. faults' = faults \/ (faults < MaxFaults /\ faults' = faults + 1)
    BY <1>11 DEF ContainKill
  <2>6. ends' \in [Process -> SUBSET End]
    BY <2>3
  <2>7. signalled' \in BOOLEAN
    BY <2>4, Zenon
  <2>8. faults' \in 0..MaxFaults
    BY <2>5
  <2>9. TypeOK'
    BY <2>1, <2>2, <2>6, <2>7, <2>8
  <2>10. Shape'
    BY <2>1, <2>2
  <2> QED BY <2>9, <2>10
<1>12. CASE ContainWait
  BY <1>12 DEF ContainWait, Goto
<1>13. CASE Fault
  <2>1. CASE Fail
    BY <1>13, <2>1, FailHolds DEF Fault
  <2>2. CASE ~Fail
    BY <1>13, <2>2 DEF Fault
  <2> QED BY <2>1, <2>2
<1> QED BY <1>1, <1>2, <1>3, <1>4, <1>5, <1>6, <1>7, <1>8, <1>9, <1>10, <1>11, <1>12, <1>13

\* The steps of the child, before and after it is a program.
LEMMA ChildHold ==
  ASSUME IInv,
         CloseWriter \/ ReadTransition \/ Shift \/ WriteReady \/
         ReadExec \/ Exec \/ ChildFault \/ ProgramSends \/
         ProgramExits \/ Die
  PROVE  IInv'
<1> USE ConstantsAssumption DEF IInv, Shape, TypeOK, AcceptedIsMeasured,
      NobodyIsOrphaned, MapsHold, CurrentOp, Projected, BeforeMaps, Unlaunched,
      SupStep, Containing,
      Ended, Trampoline, Gone, Role, Op, Process, End, barrierVars, exeVars,
      frameVars, envVars, childVars, vars, supVars
<1>1. CASE CloseWriter
  BY <1>1 DEF CloseWriter
<1>2. CASE ReadTransition
  <2>1. CASE Exit
    BY <1>2, <2>1, ExitHolds DEF ReadTransition, ReadByte
  <2>2. CASE ~Exit
    <3>1. toChild # <<>> /\ toChild' = Tail(toChild)
      BY <1>2, <2>2 DEF ReadTransition, ReadByte
    <3>2. toChild' \in Seq({"T", "E"})
      BY <3>1, BytesTyped
    <3>3. /\ child = "transition.read" /\ child' \in {"shift", "zombie"}
          /\ ends' \in [Process -> SUBSET End]
          /\ UNCHANGED <<supVars, toSup, inbox, image, identity, signalled, envVars>>
      BY <1>2, <2>2 DEF ReadTransition, ReadByte
    <3>4. TypeOK'
      BY <3>2, <3>3
    <3>5. Shape'
      BY <3>3
    <3> QED BY <3>4, <3>5
  <2> QED BY <2>1, <2>2
<1>3. CASE Shift
  BY <1>3 DEF Shift
<1>4. CASE WriteReady
  <2>1. CASE Exit
    BY <1>4, <2>1, ExitHolds DEF WriteReady
  <2>2. CASE ~Exit
    <3>1. toSup' = Append(toSup, "I")
      BY <1>4, <2>2 DEF WriteReady
    <3>2. toSup' \in Seq({"I"})
      BY <3>1, BytesTyped
    <3>3. TypeOK'
      BY <1>4, <2>2, <3>2, ZenonT(40) DEF WriteReady
    <3>4. Shape'
      BY <1>4, <2>2 DEF WriteReady
    <3> QED BY <3>3, <3>4
  <2> QED BY <2>1, <2>2
<1>5. CASE ReadExec
  <2>1. CASE Exit
    BY <1>5, <2>1, ExitHolds DEF ReadExec, ReadByte
  <2>2. CASE ~Exit
    <3>1. toChild # <<>> /\ toChild' = Tail(toChild)
      BY <1>5, <2>2 DEF ReadExec, ReadByte
    <3>2. toChild' \in Seq({"T", "E"})
      BY <3>1, BytesTyped
    <3>3. /\ child = "exec.read" /\ child' \in {"exec", "zombie"}
          /\ ends' \in [Process -> SUBSET End]
          /\ UNCHANGED <<supVars, toSup, inbox, image, identity, signalled, envVars>>
      BY <1>5, <2>2 DEF ReadExec, ReadByte
    <3>4. TypeOK'
      BY <3>2, <3>3
    <3>5. Shape'
      BY <3>3
    <3> QED BY <3>4, <3>5
  <2> QED BY <2>1, <2>2
<1>6. CASE Exec
  BY <1>6 DEF Exec
<1>7. CASE ChildFault
  BY <1>7, ExitHolds DEF ChildFault
<1>8. CASE ProgramSends
  BY <1>8 DEF ProgramSends
<1>9. CASE ProgramExits
  BY <1>9, ExitHolds DEF ProgramExits
<1>10. CASE Die
  BY <1>10, ExitHolds DEF Die, Live
<1> QED BY <1>1, <1>2, <1>3, <1>4, <1>5, <1>6, <1>7, <1>8, <1>9, <1>10

\* What anybody else does.
LEMMA OutsideHold ==
  ASSUME IInv,
         MeddleExecutable \/ MeddleChild \/ MeddleSupervisor
  PROVE  IInv'
<1> USE ConstantsAssumption DEF IInv, Shape, TypeOK, AcceptedIsMeasured,
      NobodyIsOrphaned, MapsHold, CurrentOp, Projected, BeforeMaps, Unlaunched,
      SupStep, Containing,
      Ended, Trampoline, Gone, Role, Op, Process, End, barrierVars, exeVars,
      frameVars, envVars, childVars, vars, supVars
<1>1. CASE MeddleExecutable
  BY <1>1 DEF MeddleExecutable, Meddle
<1>2. CASE MeddleChild
  BY <1>2, ExitHolds DEF MeddleChild, Meddle, Live
<1>3. CASE MeddleSupervisor
  BY <1>3 DEF MeddleSupervisor, Meddle
<1> QED BY <1>1, <1>2, <1>3

-----------------------------------------------------------------------------
\* Every step keeps the invariant.
LEMMA StepHolds == IInv /\ [Next]_vars => IInv'
<1> SUFFICES ASSUME IInv, [Next]_vars PROVE IInv' OBVIOUS
<1>1. CASE Supervisor
  BY <1>1, ChecksHold, MovesHold DEF Supervisor, Containment
<1>2. CASE TrampolineStep \/ Program \/ Die \/ ChildFault
  BY <1>2, ChildHold DEF TrampolineStep, Program
<1>3. CASE Fault
  BY <1>3, MovesHold
<1>4. CASE Outsider
  BY <1>4, OutsideHold DEF Outsider
<1>5. CASE Done \/ UNCHANGED vars
  BY <1>5 DEF Done, IInv, Shape, TypeOK, AcceptedIsMeasured, NobodyIsOrphaned,
        MapsHold, CurrentOp, Projected, BeforeMaps, Unlaunched, SupStep,
        Containing, Ended, Trampoline,
        Gone, Role, Op, Process, End, barrierVars, exeVars, frameVars, envVars,
        childVars, vars, supVars
<1> QED BY <1>1, <1>2, <1>3, <1>4, <1>5 DEF Next

\* The invariant holds in every reachable state.
LEMMA Invariant == Spec => []IInv
  BY InitHolds, StepHolds, PTL DEF Spec

\* Every variable of supervisor and child keeps its type, for every script.
THEOREM ChildTypeCorrect == Spec => []TypeOK
<1>1. IInv => TypeOK BY DEF IInv
<1> QED BY <1>1, Invariant, PTL

\* A frame is accepted only from a child that runs the measured bytes under
\* its identity and behind its maps (executable_custody.rs, session.rs), for
\* every script and however often the executable is written to.
THEOREM AcceptedHolds == Spec => []AcceptedIsMeasured
<1>1. IInv => AcceptedIsMeasured BY DEF IInv, Shape
<1> QED BY <1>1, Invariant, PTL

\* No handle of a child is given up before the child is reaped, whichever call
\* fails (Drop for RunningChildV1).
THEOREM NobodyOrphaned == Spec => []NobodyIsOrphaned
<1>1. IInv => NobodyIsOrphaned BY DEF IInv, Shape
<1> QED BY <1>1, Invariant, PTL
=============================================================================
