------------------------- MODULE PacketReopenProofs -------------------------
(***************************************************************************)
(* The reopening of a packet behaves as if it had looked at all files at   *)
(* once, for any number of files and of interventions from outside.        *)
(*                                                                         *)
(* The instant is the reauthentication of the directories between the      *)
(* packet-wide snapshot and the last pass.  What was measured before it is *)
(* either still there at that instant or has been left for good; what has  *)
(* been left and is not put back cannot be read again after it, and the    *)
(* last pass reads every file.                                             *)
(***************************************************************************)
EXTENDS PacketReopen, TLAPS

ReadPhase == {"first", "second", "snapshot", "held", "named"}
AfterTurn == {"held", "named", "last", "accepted"}

\* The files whose measurement is in kept.
Measured(f) ==
  \/ phase \in {"first", "second"} /\ f < cursor
  \/ phase \in {"snapshot", "turn"} \cup AfterTurn

\* The files the last pass has read.
Checked(f) ==
  \/ phase \in {"held", "named"} /\ \E i \in File : i < cursor /\ SnapOrder[i] = f
  \/ phase \in {"last", "accepted"}

\* The read in progress sees what the object it opened holds or has held.
ReadIsReal ==
  fd # NoFile =>
    /\ phase \in ReadPhase
    /\ during \subseteq bytesLeft[Current][fd] \cup {bytes[Current][fd]}
    /\ phase # "held" => fd \in objLeft[Current] \cup {obj[Current]}

\* What was measured was there: it is one packet's, and the name denoted that
\* object and the object held those bytes, now or before.
MeasuredIsReal ==
  \A f \in File : Measured(f) =>
    /\ kept[f].bytes \in Packets
    /\ kept[f].bytes = kept[1].bytes
    /\ kept[f].obj \in objLeft[f] \cup {obj[f]}
    /\ kept[f].bytes \in bytesLeft[f][kept[f].obj] \cup {bytes[f][kept[f].obj]}

\* Nothing that was left is there again.
NothingReturned ==
  ~restored =>
    \A f \in File :
      /\ obj[f] \notin objLeft[f]
      /\ \A o \in Object : bytes[f][o] \notin bytesLeft[f][o]

\* After the turn, what was measured was there at the turn, or it has been left
\* and the read in progress does not see it.
TurnDecides ==
  phase \in AfterTurn /\ ~restored =>
    \A f \in File :
      /\ \/ kept[f].bytes = turnBytes[f][kept[f].obj]
         \/ /\ kept[f].bytes \in bytesLeft[f][kept[f].obj]
            /\ ~(fd = kept[f].obj /\ Current = f /\ kept[f].bytes \in during)
      /\ \/ kept[f].obj = turnObj[f]
         \/ /\ kept[f].obj \in objLeft[f]
            /\ ~(phase = "named" /\ fd = kept[f].obj /\ Current = f)

CheckedWasThere ==
  ~restored =>
    \A f \in File : Checked(f) =>
      /\ kept[f].bytes = turnBytes[f][kept[f].obj]
      /\ kept[f].obj = turnObj[f]

\* The strengthening that makes AcceptedIsOneInstant inductive.
OneInstantInv ==
  /\ ReadIsReal
  /\ MeasuredIsReal
  /\ NothingReturned
  /\ TurnDecides
  /\ CheckedWasThere

\* A whole packet that is left alone: every read finds the same object with
\* the same bytes.
LeftAlone ==
  meddles = 0 /\ faults = 0 /\ sound =>
    LET view == [obj |-> 0, bytes |-> bytes[1][0]] IN
    /\ phase # "refused"
    /\ exact /\ dirsNamed
    /\ bytes[1][0] \in Packets
    /\ \A f \in File : obj[f] = 0 /\ handle[f] = 0
    /\ \A f \in File, o \in Object : bytes[f][o] = bytes[1][0]
    /\ fd # NoFile => fd = 0 /\ during = {bytes[1][0]}
    /\ phase = "second" => got = view
    /\ \A f \in File : Measured(f) => kept[f] = view

-----------------------------------------------------------------------------
\* Types

LEMMA CurrentIsFile == TypeOK => Current \in File
BY OrderAssumption DEF TypeOK, Current

LEMMA FileIsNat == File \subseteq Nat /\ 1 \in File /\ N \in File
BY SizeAssumption DEF File

LEMMA YieldsTyped ==
  ASSUME TypeOK, fd # NoFile
  PROVE  /\ Yields \subseteq View
         /\ fd \in Object
         /\ \A v \in Yields : v.obj = fd /\ (v.bytes # Mixed => v.bytes \in during)
<1>1. fd \in Object
  BY DEF TypeOK
<1>2. QED
  BY <1>1 DEF Yields, View, TypeOK

LEMMA MoveTyped ==
  ASSUME TypeOK, NEW p \in Phase, Move(p)
  PROVE  cursor' \in File /\ phase' \in Phase \cup {"accepted", "refused"}
BY SizeAssumption DEF TypeOK, Move, File

LEMMA InitTyped == Init => TypeOK
<1> SUFFICES ASSUME Init PROVE TypeOK OBVIOUS
<1>1. 0 \in Object /\ got \in View
  BY SizeAssumption DEF Init, Object, View
<1>2. PICK c \in [File -> Bytes] : bytes = [f \in File |-> [o \in Object |-> c[f]]]
  BY DEF Init
<1>3. bytes \in [File -> [Object -> Bytes]]
  BY <1>2
<1>4. /\ obj \in [File -> Object] /\ kept \in [File -> View]
      /\ handle \in [File -> Object] /\ turnObj \in [File -> Object]
      /\ turnBytes \in [File -> [Object -> Bytes]]
  BY <1>1, <1>3 DEF Init
<1>5. /\ objLeft \in [File -> SUBSET Object]
      /\ bytesLeft \in [File -> [Object -> SUBSET Bytes]]
  BY DEF Init
<1>6. meddles \in 0..MaxMeddles /\ faults \in 0..MaxFaults /\ cursor \in File
  BY SizeAssumption, FileIsNat DEF Init
<1>7. sound \in BOOLEAN /\ restored \in BOOLEAN /\ exact \in BOOLEAN /\ dirsNamed \in BOOLEAN
  BY DEF Init
<1>8. fd \in Object \cup {NoFile} /\ during \in SUBSET Bytes
      /\ phase \in Phase \cup {"accepted", "refused"}
  BY DEF Init, Phase
<1>9. QED
  BY <1>1, <1>3, <1>4, <1>5, <1>6, <1>7, <1>8 DEF TypeOK

LEMMA StepTyped == TypeOK /\ Step => TypeOK'
<1> SUFFICES ASSUME TypeOK, Step PROVE TypeOK' OBVIOUS
<1> USE DEF diskVars, readVars, turnVars, histVars
<1>1. CASE OpenTree \/ Reauthenticate \/ ReauthenticateAgain \/ TreeRefused
  BY <1>1 DEF OpenTree, Reauthenticate, ReauthenticateAgain, TreeRefused, TypeOK, Phase
<1>2. CASE StartRead
  <2>1. fd' \in Object
    BY <1>2, CurrentIsFile DEF StartRead, TypeOK
  <2>2. during' \in SUBSET Bytes
    BY <1>2, <2>1, CurrentIsFile DEF StartRead, TypeOK
  <2>3. QED
    BY <1>2, <2>1, <2>2 DEF StartRead, TypeOK
<1>3. CASE FinishFirst
  BY <1>3, YieldsTyped DEF FinishFirst, Close, TypeOK, Phase
<1>4. CASE FinishSecond
  <2>1. kept' \in [File -> View]
    BY <1>4, YieldsTyped DEF FinishSecond, TypeOK
  <2>2. cursor' \in File /\ phase' \in Phase
    BY <1>4, SizeAssumption DEF FinishSecond, TypeOK, File, Phase
  <2>3. QED
    BY <1>4, <2>1, <2>2 DEF FinishSecond, Close, TypeOK
<1>5. CASE FinishSnapshot
  <2>1. handle' \in [File -> Object]
    BY <1>5, YieldsTyped, CurrentIsFile DEF FinishSnapshot, TypeOK
  <2>2. cursor' \in File /\ phase' \in Phase \cup {"accepted", "refused"}
    BY <1>5, MoveTyped DEF FinishSnapshot, Phase
  <2>3. QED
    BY <1>5, <2>1, <2>2 DEF FinishSnapshot, Close, TypeOK
<1>6. CASE FinishHeld \/ Mismatch
  BY <1>6 DEF FinishHeld, Mismatch, Close, TypeOK, Phase
<1>7. CASE FinishNamed
  <2>1. cursor' \in File /\ phase' \in Phase
    BY <1>7, SizeAssumption DEF FinishNamed, TypeOK, File, Phase
  <2>2. QED
    BY <1>7, <2>1 DEF FinishNamed, Close, TypeOK
<1>8. QED
  BY <1>1, <1>2, <1>3, <1>4, <1>5, <1>6, <1>7 DEF Step

LEMMA OutsideTyped == TypeOK /\ Outside => TypeOK'
<1> SUFFICES ASSUME TypeOK, Outside PROVE TypeOK' OBVIOUS
<1> USE DEF turnVars
<1>1. ASSUME Meddle PROVE meddles' \in 0..MaxMeddles
  BY <1>1, SizeAssumption DEF Meddle, TypeOK
<1>2. ASSUME NEW f \in File, NEW o \in Object, NEW b \in Bytes, Rewrite(f, o, b)
      PROVE  TypeOK'
  <2>1. bytes' \in [File -> [Object -> Bytes]]
    BY <1>2 DEF Rewrite, TypeOK
  <2>2. bytesLeft' \in [File -> [Object -> SUBSET Bytes]]
    BY <1>2 DEF Rewrite, TypeOK
  <2>3. restored' \in BOOLEAN
    BY <1>2 DEF Rewrite
  <2>4. during' \in SUBSET Bytes
    BY <1>2 DEF Rewrite, TypeOK
  <2>5. QED
    BY <1>1, <1>2, <2>1, <2>2, <2>3, <2>4 DEF Rewrite, Meddle, TypeOK
<1>3. ASSUME NEW f \in File, NEW o \in Object, Replace(f, o) PROVE TypeOK'
  <2>1. obj' \in [File -> Object] /\ objLeft' \in [File -> SUBSET Object]
    BY <1>3 DEF Replace, TypeOK
  <2>2. restored' \in BOOLEAN
    BY <1>3 DEF Replace
  <2>3. QED
    BY <1>1, <1>3, <2>1, <2>2 DEF Replace, Meddle, TypeOK
<1>4. CASE Reshape
  BY <1>1, <1>4 DEF Reshape, Meddle, TypeOK
<1>5. QED
  BY <1>2, <1>3, <1>4 DEF Outside

LEMMA NextTyped == TypeOK /\ [Next]_vars => TypeOK'
<1> SUFFICES ASSUME TypeOK, [Next]_vars PROVE TypeOK' OBVIOUS
<1>1. CASE Fault
  <2>1. faults' \in 0..MaxFaults
    BY <1>1, SizeAssumption DEF Fault, TypeOK
  <2>2. QED
    BY <1>1, <2>1 DEF Fault, Close, TypeOK, diskVars, turnVars
<1>2. CASE UNCHANGED vars
  BY <1>2 DEF vars, TypeOK
<1>3. QED
  BY <1>1, <1>2, StepTyped, OutsideTyped DEF Next, Done

\* Every variable of the walk keeps its type: the cursor stays on a file, and
\* what is retained is what a read of an object can yield.
THEOREM ReopenTypeCorrect == Spec => []TypeOK
BY InitTyped, NextTyped, PTL DEF Spec

-----------------------------------------------------------------------------
\* A pass begins with the first file

PassesBegin == phase \in {"open", "turn"} => cursor = 1

LEMMA NextBegins == TypeOK /\ PassesBegin /\ [Next]_vars => PassesBegin'
BY DEF PassesBegin, Next, Step, OpenTree, StartRead, FinishFirst, FinishSecond,
       FinishSnapshot, FinishHeld, FinishNamed, Mismatch, Reauthenticate,
       ReauthenticateAgain, TreeRefused, Move, Fault, Outside, Rewrite, Replace,
       Reshape, Meddle, Done, vars

LEMMA SpecBegins == Spec => []PassesBegin
<1>1. Init => PassesBegin
  BY DEF Init, PassesBegin
<1>2. QED
  BY <1>1, InitTyped, NextTyped, NextBegins, PTL DEF Spec

-----------------------------------------------------------------------------
\* A whole packet that is left alone is not refused

LEMMA InitLeftAlone == Init => LeftAlone
<1> SUFFICES ASSUME Init, sound PROVE LeftAlone BY DEF LeftAlone
<1>1. PICK c \in [File -> Bytes] : bytes = [f \in File |-> [o \in Object |-> c[f]]]
  BY DEF Init
<1>2. 0 \in Object /\ 1 \in File
  BY SizeAssumption, FileIsNat DEF Object
<1>3. exact /\ OnePacket([f \in File |-> bytes[f][0]])
  BY DEF Init
<1>4. PICK p \in Packets : \A f \in File : bytes[f][0] = p
  BY <1>3 DEF OnePacket
<1>5. \A f \in File, o \in Object : bytes[f][o] = p
  BY <1>1, <1>2, <1>4
<1>6. \A f \in File : ~Measured(f)
  BY DEF Init, Measured, AfterTurn
<1>7. \A f \in File : obj[f] = 0 /\ handle[f] = 0
  BY DEF Init
<1>8. phase = "open" /\ dirsNamed /\ fd = NoFile
  BY DEF Init
<1>9. QED
  BY <1>2, <1>3, <1>5, <1>6, <1>7, <1>8 DEF LeftAlone

\* The only view a read can yield, once LeftAlone's hypothesis holds.
LEMMA LeftAloneYields ==
  ASSUME TypeOK, LeftAlone, meddles = 0, faults = 0, sound, fd # NoFile
  PROVE  Yields = {[obj |-> 0, bytes |-> bytes[1][0]]} /\ bytes[1][0] # Mixed
<1>1. fd = 0 /\ during = {bytes[1][0]} /\ bytes[1][0] \in Packets
  BY DEF LeftAlone
<1>2. bytes[1][0] # Mixed
  BY <1>1, ValueAssumption DEF Bytes
<1>3. ~\E b, c \in during : b # c
  BY <1>1
<1>4. QED
  BY <1>1, <1>2, <1>3 DEF Yields

LEMMA StepLeftAlone == TypeOK /\ PassesBegin /\ LeftAlone /\ Step => LeftAlone'
<1> SUFFICES ASSUME TypeOK, PassesBegin, LeftAlone, Step, meddles = 0, faults = 0, sound
             PROVE  LeftAlone'
  BY DEF LeftAlone, Step, OpenTree, StartRead, FinishFirst, FinishSecond,
         FinishSnapshot, FinishHeld, FinishNamed, Mismatch, Reauthenticate,
         ReauthenticateAgain, TreeRefused, histVars
<1> DEFINE view == [obj |-> 0, bytes |-> bytes[1][0]]
<1> USE DEF diskVars, readVars, turnVars, histVars
<1>1. /\ phase # "refused"
      /\ exact /\ dirsNamed
      /\ bytes[1][0] \in Packets
      /\ \A f \in File : obj[f] = 0 /\ handle[f] = 0
      /\ \A f \in File, o \in Object : bytes[f][o] = bytes[1][0]
      /\ fd # NoFile => fd = 0 /\ during = {bytes[1][0]}
      /\ phase = "second" => got = view
      /\ \A f \in File : Measured(f) => kept[f] = view
  BY DEF LeftAlone
<1>2. 0 \in Object /\ 1 \in File /\ cursor \in File /\ Current \in File /\ cursor \in Nat
  <2>1. 0 \in Object
    BY SizeAssumption DEF Object
  <2>2. cursor \in File
    BY DEF TypeOK
  <2>3. QED
    BY <2>1, <2>2, FileIsNat, CurrentIsFile
<1>3. fd # NoFile => Yields = {view} /\ view.bytes = bytes[1][0] /\ view.bytes # Mixed
  BY LeftAloneYields
<1>4. fd # NoFile /\ phase = "second" =>
        Same(view, got) /\ BelongsToPacket(cursor, view)
  <2> SUFFICES ASSUME fd # NoFile, phase = "second"
               PROVE  Same(view, got) /\ BelongsToPacket(cursor, view)
    OBVIOUS
  <2>1. cursor # 1 => 1 < cursor
    BY <1>2, SizeAssumption DEF File
  <2>2. cursor # 1 => kept[1] = view
    BY <1>1, <1>2, <2>1 DEF Measured
  <2>3. QED
    BY <1>1, <1>3, <2>2 DEF Same, BelongsToPacket
<1>5. fd # NoFile /\ phase \in {"snapshot", "held", "named"} => Same(view, kept[Current])
  BY <1>1, <1>2, <1>3 DEF Same, Measured, AfterTurn
<1>6. CASE OpenTree
  <2>1. \A f \in File : ~Measured(f)'
    BY <1>6, FileIsNat DEF OpenTree, PassesBegin, Measured, AfterTurn, File
  <2>2. QED
    BY <1>1, <1>6, <2>1 DEF OpenTree, LeftAlone
<1>7. CASE StartRead
  BY <1>1, <1>2, <1>7, ValueAssumption DEF StartRead, LeftAlone, Measured
<1>8. CASE FinishFirst
  <2>1. got' = view
    BY <1>3, <1>8 DEF FinishFirst
  <2>2. \A f \in File : Measured(f)' => Measured(f)
    BY <1>8 DEF FinishFirst, Measured, AfterTurn
  <2>3. QED
    BY <1>1, <1>8, <2>1, <2>2 DEF FinishFirst, Close, LeftAlone
<1>9. CASE FinishSecond
  <2>1. kept' = [kept EXCEPT ![cursor] = view]
    BY <1>3, <1>9 DEF FinishSecond
  <2>2. \A f \in File : Measured(f)' => Measured(f) \/ f = cursor
    BY <1>2, <1>9, SizeAssumption DEF FinishSecond, Measured, File, AfterTurn
  <2>3. \A f \in File : Measured(f)' => kept'[f] = view
    BY <1>1, <2>1, <2>2 DEF TypeOK
  <2>4. QED
    BY <1>1, <1>9, <2>3 DEF FinishSecond, Close, LeftAlone
<1>10. CASE FinishSnapshot
  <2>1. \A f \in File : handle'[f] = 0
    BY <1>1, <1>2, <1>10 DEF FinishSnapshot, TypeOK
  <2>2. \A f \in File : Measured(f)
    BY <1>10 DEF FinishSnapshot, Measured
  <2>3. phase' \in {"snapshot", "turn"}
    BY <1>10 DEF FinishSnapshot, Move
  <2>4. QED
    BY <1>1, <1>10, <2>1, <2>2, <2>3 DEF FinishSnapshot, Close, LeftAlone
<1>11. CASE FinishHeld \/ FinishNamed \/ Reauthenticate \/ ReauthenticateAgain
  <2>1. \A f \in File : Measured(f)
    BY <1>11 DEF FinishHeld, FinishNamed, Reauthenticate, ReauthenticateAgain,
                 Measured, AfterTurn
  <2>2. phase' \notin {"refused", "second"}
    BY <1>11 DEF FinishHeld, FinishNamed, Reauthenticate, ReauthenticateAgain
  <2>3. QED
    BY <1>1, <1>11, <2>1, <2>2
    DEF FinishHeld, FinishNamed, Reauthenticate, ReauthenticateAgain, Close, LeftAlone
<1>12. ~Mismatch
  BY <1>3, <1>4, <1>5 DEF Mismatch
<1>13. ~TreeRefused
  BY <1>1 DEF TreeRefused
<1>14. QED
  BY <1>6, <1>7, <1>8, <1>9, <1>10, <1>11, <1>12, <1>13 DEF Step

LEMMA NextLeftAlone == TypeOK /\ PassesBegin /\ LeftAlone /\ [Next]_vars => LeftAlone'
<1> SUFFICES ASSUME TypeOK, PassesBegin, LeftAlone, [Next]_vars PROVE LeftAlone' OBVIOUS
<1>1. CASE Outside
  <2>1. meddles' # 0
    BY <1>1, SizeAssumption DEF Outside, Rewrite, Replace, Reshape, Meddle, TypeOK
  <2>2. QED
    BY <2>1 DEF LeftAlone
<1>2. CASE Fault
  <2>1. faults' # 0
    BY <1>2, SizeAssumption DEF Fault, TypeOK
  <2>2. QED
    BY <2>1 DEF LeftAlone
<1>3. CASE UNCHANGED vars
  BY <1>3 DEF vars, LeftAlone, Measured
<1>4. QED
  BY <1>1, <1>2, <1>3, StepLeftAlone DEF Next, Done

\* A packet that is whole and left alone is never refused by
\* reopen_b4_terminal_evidence_packet_from_descriptor unless a call fails: the
\* repeated reads and reauthentications do not contradict one another.
THEOREM RefusalIsCaused == Spec => []RefusalHasACause
<1>1. LeftAlone => RefusalHasACause
  BY DEF LeftAlone, RefusalHasACause
<1>2. QED
  BY <1>1, InitTyped, NextTyped, SpecBegins, InitLeftAlone, NextLeftAlone, PTL DEF Spec

-----------------------------------------------------------------------------
\* One instant

LEMMA InitOneInstant == Init => OneInstantInv
BY DEF Init, OneInstantInv, ReadIsReal, MeasuredIsReal, NothingReturned, TurnDecides,
       CheckedWasThere, Measured, Checked, AfterTurn, TypeOK

\* A step that ends in refusal has nothing to show.
LEMMA RefusedOneInstant ==
  ASSUME OneInstantInv, phase' = "refused", fd' = NoFile,
         UNCHANGED <<obj, bytes, objLeft, bytesLeft, restored>>
  PROVE  OneInstantInv'
BY DEF OneInstantInv, ReadIsReal, MeasuredIsReal, NothingReturned, TurnDecides,
       CheckedWasThere, Measured, Checked, AfterTurn

\* The steps that read nothing.
LEMMA TreeOneInstant ==
  ASSUME TypeOK, PassesBegin, OneInstantInv,
         OpenTree \/ Reauthenticate \/ ReauthenticateAgain \/ TreeRefused
  PROVE  OneInstantInv'
<1> USE DEF diskVars, readVars, turnVars, histVars
<1>1. fd = NoFile
  BY DEF OneInstantInv, ReadIsReal, OpenTree, Reauthenticate, ReauthenticateAgain,
         TreeRefused, ReadPhase
<1>2. CASE OpenTree
  <2>1. \A f \in File : ~Measured(f)' /\ ~Checked(f)'
    BY <1>2, FileIsNat DEF OpenTree, PassesBegin, Measured, Checked, AfterTurn, File
  <2>2. QED
    BY <1>1, <1>2, <2>1 DEF OpenTree, OneInstantInv, ReadIsReal, MeasuredIsReal,
      NothingReturned, TurnDecides, CheckedWasThere, AfterTurn
<1>3. CASE Reauthenticate
  <2>1. \A f \in File : Measured(f) /\ ~Checked(f)'
    BY <1>3, FileIsNat DEF Reauthenticate, PassesBegin, Measured, Checked, File
  <2>2. \A f \in File : kept[f].obj \in Object
    BY DEF TypeOK, View
  <2>3. \A f \in File :
          /\ kept[f].bytes = bytes[f][kept[f].obj] \/ kept[f].bytes \in bytesLeft[f][kept[f].obj]
          /\ kept[f].obj = obj[f] \/ kept[f].obj \in objLeft[f]
    BY <2>1 DEF OneInstantInv, MeasuredIsReal
  <2>4. TurnDecides'
    BY <1>1, <1>3, <2>2, <2>3, ValueAssumption DEF Reauthenticate, TurnDecides
  <2>5. QED
    BY <1>1, <1>3, <2>1, <2>4 DEF Reauthenticate, OneInstantInv, ReadIsReal,
      MeasuredIsReal, NothingReturned, CheckedWasThere
<1>4. CASE ReauthenticateAgain
  <2>1. \A f \in File : Measured(f) /\ Checked(f)
    BY <1>4 DEF ReauthenticateAgain, Measured, Checked, AfterTurn
  <2>2. \A f \in File : kept[f].obj # NoFile
    BY ValueAssumption DEF TypeOK, View
  <2>3. QED
    BY <1>1, <1>4, <2>1, <2>2 DEF ReauthenticateAgain, OneInstantInv, ReadIsReal,
      MeasuredIsReal, NothingReturned, TurnDecides, CheckedWasThere, AfterTurn
<1>5. CASE TreeRefused
  BY <1>1, <1>5, RefusedOneInstant DEF TreeRefused
<1>6. QED
  BY <1>2, <1>3, <1>4, <1>5

\* A read opens what the name denotes now, or the retained handle: what it sees
\* first has not been left.
LEMMA StartOneInstant ==
  ASSUME TypeOK, OneInstantInv, StartRead
  PROVE  OneInstantInv'
<1> USE DEF diskVars, turnVars, histVars
<1>1. Current \in File /\ Current' = Current
  BY CurrentIsFile DEF StartRead, Current
<1>2. fd' \in Object /\ during' = {bytes[Current][fd']}
  BY <1>1 DEF StartRead, TypeOK
<1>3. phase # "held" => fd' = obj[Current]
  BY DEF StartRead
<1>4. ReadIsReal'
  BY <1>1, <1>2, <1>3 DEF StartRead, ReadIsReal, ReadPhase
<1>5. MeasuredIsReal' /\ NothingReturned' /\ CheckedWasThere'
  BY DEF StartRead, OneInstantInv, MeasuredIsReal, NothingReturned, CheckedWasThere,
         Measured, Checked
<1>6. TurnDecides'
  <2> SUFFICES ASSUME phase \in AfterTurn, ~restored, NEW f \in File
               PROVE  /\ \/ kept[f].bytes = turnBytes[f][kept[f].obj]
                         \/ /\ kept[f].bytes \in bytesLeft[f][kept[f].obj]
                            /\ ~(fd' = kept[f].obj /\ Current = f /\ kept[f].bytes \in during')
                      /\ \/ kept[f].obj = turnObj[f]
                         \/ /\ kept[f].obj \in objLeft[f]
                            /\ ~(phase = "named" /\ fd' = kept[f].obj /\ Current = f)
    BY <1>1 DEF TurnDecides, StartRead
  <2>1. /\ kept[f].bytes = turnBytes[f][kept[f].obj] \/ kept[f].bytes \in bytesLeft[f][kept[f].obj]
        /\ kept[f].obj = turnObj[f] \/ kept[f].obj \in objLeft[f]
    BY DEF OneInstantInv, TurnDecides
  <2>2. /\ obj[f] \notin objLeft[f]
        /\ \A o \in Object : bytes[f][o] \notin bytesLeft[f][o]
    BY DEF OneInstantInv, NothingReturned
  <2>3. QED
    BY <1>2, <1>3, <2>1, <2>2
<1>7. QED
  BY <1>4, <1>5, <1>6 DEF OneInstantInv

\* The reads before the turn.
LEMMA FirstOneInstant ==
  ASSUME TypeOK, OneInstantInv, FinishFirst
  PROVE  OneInstantInv'
<1>1. \A f \in File : (Measured(f)' => Measured(f)) /\ ~Checked(f)'
  BY DEF FinishFirst, Measured, Checked, AfterTurn
<1>2. QED
  BY <1>1 DEF FinishFirst, Close, OneInstantInv, ReadIsReal, MeasuredIsReal,
    NothingReturned, TurnDecides, CheckedWasThere, AfterTurn, diskVars, turnVars, histVars

LEMMA SecondOneInstant ==
  ASSUME TypeOK, OneInstantInv, FinishSecond
  PROVE  OneInstantInv'
<1> USE DEF diskVars, turnVars, histVars
<1>1. PICK v \in Yields : /\ Same(v, got) /\ BelongsToPacket(cursor, v)
                          /\ kept' = [kept EXCEPT ![cursor] = v]
  BY DEF FinishSecond
<1>2. fd # NoFile /\ phase = "second" /\ Current = cursor /\ cursor \in File
  BY DEF FinishSecond, Current, TypeOK
<1>3. v.obj = fd /\ v.bytes \in during
  BY <1>1, <1>2, YieldsTyped DEF Same
<1>4. /\ v.bytes \in Packets
      /\ cursor # 1 => v.bytes = kept[1].bytes
      /\ v.obj \in objLeft[cursor] \cup {obj[cursor]}
      /\ v.bytes \in bytesLeft[cursor][v.obj] \cup {bytes[cursor][v.obj]}
  BY <1>1, <1>2, <1>3 DEF BelongsToPacket, OneInstantInv, ReadIsReal
<1>5. /\ kept'[cursor] = v
      /\ \A f \in File : f # cursor => kept'[f] = kept[f]
  BY <1>1, <1>2 DEF TypeOK
<1>6. \A f \in File : (Measured(f)' => f <= cursor) /\ ~Checked(f)'
  BY <1>2, SizeAssumption, FileIsNat DEF FinishSecond, Measured, Checked, AfterTurn, File
<1>7. \A f \in File : f < cursor => Measured(f) /\ cursor # 1
  BY <1>2, FileIsNat DEF Measured, File
<1>8. kept'[1].bytes = IF cursor = 1 THEN v.bytes ELSE kept[1].bytes
  BY <1>5, FileIsNat
<1>9. MeasuredIsReal'
  <2> SUFFICES ASSUME NEW f \in File, f <= cursor
               PROVE  /\ kept'[f].bytes \in Packets
                      /\ kept'[f].bytes = kept'[1].bytes
                      /\ kept'[f].obj \in objLeft[f] \cup {obj[f]}
                      /\ kept'[f].bytes \in bytesLeft[f][kept'[f].obj] \cup {bytes[f][kept'[f].obj]}
    BY <1>6 DEF MeasuredIsReal, FinishSecond
  <2>1. CASE f = cursor
    BY <1>4, <1>5, <1>8, <2>1
  <2>2. CASE f < cursor
    <3>1. Measured(f) /\ cursor # 1 /\ kept'[f] = kept[f]
      BY <1>2, <1>5, <1>7, <2>2, FileIsNat
    <3>2. QED
      BY <1>8, <3>1 DEF OneInstantInv, MeasuredIsReal
  <2>3. QED
    BY <1>2, <2>1, <2>2, FileIsNat
<1>10. QED
  BY <1>6, <1>9 DEF FinishSecond, Close, OneInstantInv, ReadIsReal,
    NothingReturned, TurnDecides, CheckedWasThere, AfterTurn

LEMMA SnapshotOneInstant ==
  ASSUME TypeOK, OneInstantInv, FinishSnapshot
  PROVE  OneInstantInv'
<1>1. phase = "snapshot" /\ phase' \in {"snapshot", "turn"}
  BY DEF FinishSnapshot, Move
<1>2. \A f \in File : Measured(f) /\ ~Checked(f)'
  BY <1>1 DEF Measured, Checked
<1>3. QED
  BY <1>1, <1>2 DEF FinishSnapshot, Close, OneInstantInv, ReadIsReal, MeasuredIsReal,
    NothingReturned, TurnDecides, CheckedWasThere, AfterTurn, diskVars, turnVars, histVars

\* The reads of the last pass.
LEMMA HeldOneInstant ==
  ASSUME TypeOK, OneInstantInv, FinishHeld
  PROVE  OneInstantInv'
<1> USE DEF diskVars, turnVars, histVars
<1>1. phase = "held" /\ phase' = "named" /\ fd' = NoFile /\ cursor' = cursor
  BY DEF FinishHeld, Close
<1>2. \A f \in File : Measured(f) /\ (Checked(f)' <=> Checked(f))
  BY <1>1 DEF Measured, Checked, AfterTurn
<1>3. \A f \in File : kept[f].obj # NoFile
  BY ValueAssumption DEF TypeOK, View
<1>4. QED
  BY <1>1, <1>2, <1>3 DEF FinishHeld, OneInstantInv, ReadIsReal, MeasuredIsReal,
    NothingReturned, TurnDecides, CheckedWasThere, AfterTurn

LEMMA NamedOneInstant ==
  ASSUME TypeOK, OneInstantInv, FinishNamed
  PROVE  OneInstantInv'
<1> USE DEF diskVars, turnVars, histVars
<1>1. PICK v \in Yields : Same(v, kept[Current])
  BY DEF FinishNamed
<1>2. /\ phase = "named" /\ fd # NoFile /\ fd' = NoFile
      /\ phase' \in {"held", "last"} /\ UNCHANGED kept
  BY DEF FinishNamed, Close
<1>3. Current = SnapOrder[cursor] /\ Current \in File /\ cursor \in File
  BY <1>2, CurrentIsFile DEF Current, TypeOK
<1>4. kept[Current].obj = fd /\ kept[Current].bytes \in during
  BY <1>1, <1>2, YieldsTyped DEF Same
<1>5. \A f \in File : Checked(f)' => Checked(f) \/ f = Current
  <2> SUFFICES ASSUME NEW f \in File, Checked(f)' PROVE Checked(f) \/ f = Current
    OBVIOUS
  <2>1. CASE cursor < N
    <3>1. PICK i \in File : i < cursor + 1 /\ SnapOrder[i] = f
      BY <2>1 DEF FinishNamed, Checked
    <3>2. i < cursor \/ i = cursor
      BY <1>3, <3>1, FileIsNat
    <3>3. QED
      BY <1>2, <1>3, <3>1, <3>2 DEF Checked
  <2>2. CASE ~(cursor < N)
    <3>1. PICK i \in File : SnapOrder[i] = f
      BY OrderAssumption
    <3>2. i < cursor \/ i = cursor
      BY <1>3, <2>2, SizeAssumption DEF File
    <3>3. QED
      BY <1>2, <1>3, <3>1, <3>2 DEF Checked
  <2>3. QED
    BY <2>1, <2>2
<1>6. ~restored => /\ kept[Current].bytes = turnBytes[Current][kept[Current].obj]
                   /\ kept[Current].obj = turnObj[Current]
  BY <1>2, <1>3, <1>4 DEF OneInstantInv, TurnDecides, AfterTurn
<1>7. CheckedWasThere'
  BY <1>5, <1>6 DEF FinishNamed, OneInstantInv, CheckedWasThere
<1>8. \A f \in File : Measured(f)
  BY <1>2 DEF Measured, AfterTurn
<1>9. \A f \in File : kept[f].obj # NoFile
  BY ValueAssumption DEF TypeOK, View
<1>10. QED
  BY <1>2, <1>7, <1>8, <1>9 DEF FinishNamed, OneInstantInv, ReadIsReal, MeasuredIsReal,
    NothingReturned, TurnDecides, AfterTurn

LEMMA StepOneInstant == TypeOK /\ PassesBegin /\ OneInstantInv /\ Step => OneInstantInv'
<1> SUFFICES ASSUME TypeOK, PassesBegin, OneInstantInv, Step PROVE OneInstantInv'
  OBVIOUS
<1>1. CASE Mismatch
  BY <1>1, RefusedOneInstant DEF Mismatch, Close, diskVars, histVars
<1>2. QED
  BY <1>1, TreeOneInstant, StartOneInstant, FirstOneInstant, SecondOneInstant,
     SnapshotOneInstant, HeldOneInstant, NamedOneInstant DEF Step

\* The outsider.
LEMMA RewriteOneInstant ==
  ASSUME TypeOK, OneInstantInv, NEW f \in File, NEW o \in Object, NEW b \in Bytes,
         Rewrite(f, o, b)
  PROVE  OneInstantInv'
<1> USE DEF turnVars
<1>1. Current' = Current /\ Current \in File
  BY CurrentIsFile DEF Rewrite, Meddle, Current
<1>2. /\ bytes' = [bytes EXCEPT ![f][o] = b]
      /\ bytesLeft' = [bytesLeft EXCEPT ![f][o] = @ \cup {bytes[f][o]}]
      /\ restored' = (restored \/ b \in bytesLeft[f][o])
      /\ during' = IF fd = o /\ Current = f THEN during \cup {b} ELSE during
      /\ b # bytes[f][o]
      /\ UNCHANGED <<obj, objLeft, phase, cursor, fd, kept, turnObj, turnBytes>>
  BY DEF Rewrite, Meddle
<1>3. \A g \in File, p \in Object :
        /\ bytes'[g][p] = IF g = f /\ p = o THEN b ELSE bytes[g][p]
        /\ bytesLeft'[g][p] = IF g = f /\ p = o THEN bytesLeft[g][p] \cup {bytes[g][p]}
                                                ELSE bytesLeft[g][p]
  BY <1>2 DEF TypeOK
<1>4. \A g \in File : kept[g].obj \in Object
  BY DEF TypeOK, View
<1>5. \A g \in File : (Measured(g)' <=> Measured(g)) /\ (Checked(g)' <=> Checked(g))
  BY <1>2 DEF Measured, Checked
<1>6. ~restored' => ~restored /\ b \notin bytesLeft[f][o]
  BY <1>2
<1>7. ReadIsReal'
  BY <1>1, <1>2, <1>3 DEF OneInstantInv, ReadIsReal, TypeOK
<1>8. MeasuredIsReal'
  <2> SUFFICES ASSUME NEW g \in File, Measured(g)
               PROVE  /\ kept[g].bytes \in Packets
                      /\ kept[g].bytes = kept[1].bytes
                      /\ kept[g].obj \in objLeft[g] \cup {obj[g]}
                      /\ kept[g].bytes \in bytesLeft'[g][kept[g].obj] \cup {bytes'[g][kept[g].obj]}
    BY <1>2, <1>5 DEF MeasuredIsReal
  <2>1. /\ kept[g].bytes \in Packets
        /\ kept[g].bytes = kept[1].bytes
        /\ kept[g].obj \in objLeft[g] \cup {obj[g]}
        /\ kept[g].bytes \in bytesLeft[g][kept[g].obj] \cup {bytes[g][kept[g].obj]}
    BY DEF OneInstantInv, MeasuredIsReal
  <2>2. QED
    BY <1>3, <1>4, <2>1
<1>9. NothingReturned'
  <2> SUFFICES ASSUME ~restored', NEW g \in File
               PROVE  /\ obj[g] \notin objLeft[g]
                      /\ \A p \in Object : bytes'[g][p] \notin bytesLeft'[g][p]
    BY <1>2 DEF NothingReturned
  <2>1. /\ obj[g] \notin objLeft[g]
        /\ \A p \in Object : bytes[g][p] \notin bytesLeft[g][p]
    BY <1>6 DEF OneInstantInv, NothingReturned
  <2>2. b # bytes[f][o] /\ b \notin bytesLeft[f][o]
    BY <1>2, <1>6
  <2>3. ASSUME NEW p \in Object PROVE bytes'[g][p] \notin bytesLeft'[g][p]
    <3>1. CASE g = f /\ p = o
      <4>1. bytes'[g][p] = b /\ bytesLeft'[g][p] = bytesLeft[f][o] \cup {bytes[f][o]}
        BY <1>3, <3>1
      <4>2. QED
        BY <2>2, <4>1
    <3>2. CASE ~(g = f /\ p = o)
      <4>1. bytes'[g][p] = bytes[g][p] /\ bytesLeft'[g][p] = bytesLeft[g][p]
        BY <1>3, <3>2
      <4>2. QED
        BY <2>1, <4>1
    <3>3. QED
      BY <3>1, <3>2
  <2>4. QED
    BY <2>1, <2>3
<1>10. TurnDecides'
  <2> SUFFICES ASSUME phase \in AfterTurn, ~restored', NEW g \in File
               PROVE  /\ \/ kept[g].bytes = turnBytes[g][kept[g].obj]
                         \/ /\ kept[g].bytes \in bytesLeft'[g][kept[g].obj]
                            /\ ~(fd = kept[g].obj /\ Current = g /\ kept[g].bytes \in during')
                      /\ \/ kept[g].obj = turnObj[g]
                         \/ /\ kept[g].obj \in objLeft[g]
                            /\ ~(phase = "named" /\ fd = kept[g].obj /\ Current = g)
    BY <1>1, <1>2 DEF TurnDecides
  <2>1. /\ \/ kept[g].bytes = turnBytes[g][kept[g].obj]
           \/ /\ kept[g].bytes \in bytesLeft[g][kept[g].obj]
              /\ ~(fd = kept[g].obj /\ Current = g /\ kept[g].bytes \in during)
        /\ \/ kept[g].obj = turnObj[g]
           \/ /\ kept[g].obj \in objLeft[g]
              /\ ~(phase = "named" /\ fd = kept[g].obj /\ Current = g)
    BY <1>6 DEF OneInstantInv, TurnDecides
  <2>2. QED
    BY <1>2, <1>3, <1>4, <1>6, <2>1
<1>11. CheckedWasThere'
  BY <1>2, <1>5, <1>6 DEF OneInstantInv, CheckedWasThere
<1>12. QED
  BY <1>7, <1>8, <1>9, <1>10, <1>11 DEF OneInstantInv

LEMMA ReplaceOneInstant ==
  ASSUME TypeOK, OneInstantInv, NEW f \in File, NEW o \in Object, Replace(f, o)
  PROVE  OneInstantInv'
<1> USE DEF turnVars
<1>1. Current' = Current /\ Current \in File
  BY CurrentIsFile DEF Replace, Meddle, Current
<1>2. /\ obj' = [obj EXCEPT ![f] = o]
      /\ objLeft' = [objLeft EXCEPT ![f] = @ \cup {obj[f]}]
      /\ restored' = (restored \/ o \in objLeft[f])
      /\ o # obj[f]
      /\ UNCHANGED <<bytes, bytesLeft, during, phase, cursor, fd, kept, turnObj, turnBytes>>
  BY DEF Replace, Meddle
<1>3. \A g \in File :
        /\ obj'[g] = IF g = f THEN o ELSE obj[g]
        /\ objLeft'[g] = IF g = f THEN objLeft[g] \cup {obj[g]} ELSE objLeft[g]
  BY <1>2 DEF TypeOK
<1>4. \A g \in File : (Measured(g)' <=> Measured(g)) /\ (Checked(g)' <=> Checked(g))
  BY <1>2 DEF Measured, Checked
<1>5. ~restored' => ~restored /\ o \notin objLeft[f]
  BY <1>2
<1>6. ReadIsReal'
  BY <1>1, <1>2, <1>3 DEF OneInstantInv, ReadIsReal
<1>7. MeasuredIsReal'
  BY <1>2, <1>3, <1>4 DEF OneInstantInv, MeasuredIsReal
<1>8. NothingReturned'
  <2> SUFFICES ASSUME ~restored', NEW g \in File
               PROVE  /\ obj'[g] \notin objLeft'[g]
                      /\ \A p \in Object : bytes[g][p] \notin bytesLeft[g][p]
    BY <1>2 DEF NothingReturned
  <2>1. /\ obj[g] \notin objLeft[g]
        /\ \A p \in Object : bytes[g][p] \notin bytesLeft[g][p]
    BY <1>5 DEF OneInstantInv, NothingReturned
  <2>2. o # obj[f]
    BY <1>2
  <2>3. QED
    BY <1>3, <1>5, <2>1, <2>2
<1>9. TurnDecides'
  BY <1>1, <1>2, <1>3, <1>5 DEF OneInstantInv, TurnDecides
<1>10. CheckedWasThere'
  BY <1>2, <1>4, <1>5 DEF OneInstantInv, CheckedWasThere
<1>11. QED
  BY <1>6, <1>7, <1>8, <1>9, <1>10 DEF OneInstantInv

LEMMA NextOneInstant ==
  TypeOK /\ PassesBegin /\ OneInstantInv /\ [Next]_vars => OneInstantInv'
<1> SUFFICES ASSUME TypeOK, PassesBegin, OneInstantInv, [Next]_vars PROVE OneInstantInv'
  OBVIOUS
<1>1. CASE Reshape
  BY <1>1 DEF Reshape, Meddle, OneInstantInv, ReadIsReal, MeasuredIsReal, NothingReturned,
    TurnDecides, CheckedWasThere, Measured, Checked, Current, turnVars
<1>2. CASE Fault
  BY <1>2, RefusedOneInstant DEF Fault, Close, diskVars
<1>3. CASE UNCHANGED vars
  BY <1>3 DEF vars, OneInstantInv, ReadIsReal, MeasuredIsReal, NothingReturned,
    TurnDecides, CheckedWasThere, Measured, Checked, Current
<1>4. QED
  BY <1>1, <1>2, <1>3, StepOneInstant, RewriteOneInstant, ReplaceOneInstant
  DEF Next, Outside, Done

\* The packet that reopen_b4_terminal_evidence_packet_from_descriptor accepts
\* existed: when its directories were reauthenticated between the snapshot and
\* the last pass, every name denoted the object measured for it and all objects
\* held the bytes of one packet, unless somebody put back what was there before.
THEOREM AcceptedExisted == Spec => []AcceptedIsOneInstant
<1>1. OneInstantInv => AcceptedIsOneInstant
  <2> SUFFICES ASSUME OneInstantInv, phase = "accepted", ~restored
               PROVE  \E p \in Packets : \A f \in File :
                        /\ kept[f].bytes = p
                        /\ turnObj[f] = kept[f].obj
                        /\ turnBytes[f][turnObj[f]] = p
    BY DEF AcceptedIsOneInstant
  <2>1. \A f \in File : Measured(f) /\ Checked(f)
    BY DEF Measured, Checked, AfterTurn
  <2>2. kept[1].bytes \in Packets
    BY <2>1, FileIsNat DEF OneInstantInv, MeasuredIsReal
  <2>3. \A f \in File : /\ kept[f].bytes = kept[1].bytes
                        /\ turnObj[f] = kept[f].obj
                        /\ turnBytes[f][turnObj[f]] = kept[1].bytes
    BY <2>1 DEF OneInstantInv, MeasuredIsReal, CheckedWasThere
  <2>4. QED
    BY <2>2, <2>3
<1>2. QED
  BY <1>1, InitTyped, NextTyped, SpecBegins, InitOneInstant, NextOneInstant, PTL DEF Spec
=============================================================================
