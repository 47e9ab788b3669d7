---------------------------- MODULE PacketReopen ----------------------------
(***************************************************************************)
(* The reopening of a terminal-evidence packet                             *)
(* (reopen_b4_terminal_evidence_packet_from_descriptor): a walk over many  *)
(* files that has to behave as if it had looked at all of them at once.    *)
(* Every file is read twice on its own; then all of them once more with    *)
(* their handles retained; then the directories are reauthenticated; then  *)
(* every file is read through its handle and through its name again; then  *)
(* the directories once more.                                              *)
(*                                                                         *)
(* Files are numbered in manifest order: 1 is the manifest, N the          *)
(* completion.  A file name denotes an object, an object holds bytes, and  *)
(* the code compares objects (device, inode, length) and digests, which    *)
(* stand for bytes.  A read resolves the name first and then takes its     *)
(* time: its bytes may be any the object had meanwhile, or a mixture that  *)
(* no reader sees twice.                                                   *)
(***************************************************************************)
EXTENDS Naturals

CONSTANTS
  N,          \* files of the packet
  SnapOrder,  \* SnapOrder[i]: the i-th file in path order
  Packets,    \* the valid packets: a file's bytes name the packet it is of
  Junk,       \* any other bytes
  Mixed,      \* what a read of a changing object may see
  NoFile,     \* no object is open
  MaxObjects, \* bound: objects per file name
  MaxMeddles, \* bound: interventions from outside
  MaxFaults   \* bound: calls that fail

File == 1..N
Object == 0..MaxObjects
Bytes == Packets \cup {Junk}
View == [obj : Object, bytes : Bytes \cup {Mixed}]

ASSUME SizeAssumption ==
  /\ N \in Nat /\ N >= 2
  /\ MaxObjects \in Nat /\ MaxMeddles \in Nat /\ MaxFaults \in Nat

ASSUME OrderAssumption ==
  /\ SnapOrder \in [File -> File]
  /\ \A f \in File : \E i \in File : SnapOrder[i] = f
  /\ \A i, j \in File : SnapOrder[i] = SnapOrder[j] => i = j

ASSUME ValueAssumption ==
  Junk \notin Packets /\ Mixed \notin Bytes /\ NoFile \notin Object

Phase == {"open", "first", "second", "snapshot", "turn", "held", "named", "last"}

VARIABLES
  \* the packet on disk
  obj,        \* obj[f]: the object named f
  bytes,      \* bytes[f][o]: what object o of file f holds
  exact,      \* no entry is missing or in excess
  dirsNamed,  \* the directories are still the retained ones
  \* the reader
  phase, cursor,
  fd,         \* the object being read, or NoFile
  during,     \* the bytes it has had since the read began
  got,        \* the first of two reads
  kept,       \* kept[f]: what the packet's file f was measured as
  handle,     \* handle[f]: the object of the retained handle
  \* history
  turnObj, turnBytes, \* the disk when the directories were reauthenticated
  objLeft, bytesLeft, \* what names and objects no longer denote and hold
  restored,           \* something was put back
  sound,              \* the packet was whole and exact in the beginning
  meddles, faults

diskVars == <<obj, bytes, exact, dirsNamed>>
readVars == <<fd, during, got, kept, handle>>
turnVars == <<turnObj, turnBytes>>
histVars == <<objLeft, bytesLeft, restored, sound, meddles, faults>>
vars == <<obj, bytes, exact, dirsNamed, phase, cursor, fd, during, got, kept,
          handle, turnObj, turnBytes, objLeft, bytesLeft, restored, sound,
          meddles, faults>>

\* Every variable has its type.
TypeOK ==
  /\ obj \in [File -> Object]
  /\ bytes \in [File -> [Object -> Bytes]]
  /\ exact \in BOOLEAN /\ dirsNamed \in BOOLEAN
  /\ phase \in Phase \cup {"accepted", "refused"}
  /\ cursor \in File
  /\ fd \in Object \cup {NoFile}
  /\ during \in SUBSET Bytes
  /\ got \in View
  /\ kept \in [File -> View]
  /\ handle \in [File -> Object]
  /\ turnObj \in [File -> Object]
  /\ turnBytes \in [File -> [Object -> Bytes]]
  /\ objLeft \in [File -> SUBSET Object]
  /\ bytesLeft \in [File -> [Object -> SUBSET Bytes]]
  /\ restored \in BOOLEAN
  /\ sound \in BOOLEAN
  /\ meddles \in 0..MaxMeddles
  /\ faults \in 0..MaxFaults

OnePacket(contents) == \E p \in Packets : \A f \in File : contents[f] = p

Init ==
  /\ obj = [f \in File |-> 0]
  /\ bytes \in {[f \in File |-> [o \in Object |-> c[f]]] : c \in [File -> Bytes]}
  /\ exact \in BOOLEAN /\ dirsNamed = TRUE
  /\ phase = "open" /\ cursor = 1
  /\ fd = NoFile /\ during = {}
  /\ got = [obj |-> 0, bytes |-> Mixed]
  /\ kept = [f \in File |-> got]
  /\ handle = [f \in File |-> 0]
  /\ turnObj = obj /\ turnBytes = bytes
  /\ objLeft = [f \in File |-> {}]
  /\ bytesLeft = [f \in File |-> [o \in Object |-> {}]]
  /\ restored = FALSE
  /\ sound = (exact /\ OnePacket([f \in File |-> bytes[f][0]]))
  /\ meddles = 0 /\ faults = 0

-----------------------------------------------------------------------------
\* One read: open_and_read_file, or read_opened_file on a retained handle

\* The file the cursor stands at.
Current ==
  IF phase \in {"first", "second"} THEN cursor ELSE SnapOrder[cursor]

StartRead ==
  /\ phase \in {"first", "second", "snapshot", "held", "named"}
  /\ fd = NoFile
  /\ fd' = IF phase = "held" THEN handle[Current] ELSE obj[Current]
  /\ during' = {bytes[Current][fd']}
  /\ UNCHANGED <<diskVars, phase, cursor, got, kept, handle, turnVars, histVars>>

\* The views a finished read may yield.
Yields == {[obj |-> fd, bytes |-> b] :
             b \in during \cup (IF \E b, c \in during : b # c THEN {Mixed} ELSE {})}

Same(v, w) == v = w /\ v.bytes # Mixed

\* The end of one read: on to the next file, or the next phase.
Move(nextPhase) ==
  \/ /\ cursor < N
     /\ cursor' = cursor + 1
     /\ UNCHANGED phase
  \/ /\ cursor = N
     /\ cursor' = 1
     /\ phase' = nextPhase

Close == fd' = NoFile /\ during' = {}

\* Manifest rows, completion and manifest name one packet.
BelongsToPacket(f, v) ==
  /\ v.bytes \in Packets
  /\ f # 1 => v.bytes = kept[1].bytes

\* stable_read_file, first read
FinishFirst ==
  /\ phase = "first" /\ fd # NoFile
  /\ \E v \in Yields : got' = v
  /\ Close
  /\ phase' = "second"
  /\ UNCHANGED <<diskVars, cursor, kept, handle, turnVars, histVars>>

\* Mutant: the payload read is not stored.
FinishSecondForgets ==
  /\ phase = "second" /\ fd # NoFile
  /\ \E v \in Yields :
       /\ Same(v, got) /\ BelongsToPacket(cursor, v)
       /\ kept' = [kept EXCEPT ![1] = v]
  /\ Close
  /\ IF cursor < N THEN cursor' = cursor + 1 /\ phase' = "first"
                   ELSE cursor' = 1 /\ phase' = "snapshot"
  /\ UNCHANGED <<diskVars, got, handle, turnVars, histVars>>

\* stable_read_file, second read, and the packet's own consistency
FinishSecond ==
  /\ phase = "second" /\ fd # NoFile
  /\ \E v \in Yields :
       /\ Same(v, got) /\ BelongsToPacket(cursor, v)
       /\ kept' = [kept EXCEPT ![cursor] = v]
  /\ Close
  /\ IF cursor < N THEN cursor' = cursor + 1 /\ phase' = "first"
                   ELSE cursor' = 1 /\ phase' = "snapshot"
  /\ UNCHANGED <<diskVars, got, handle, turnVars, histVars>>

\* the packet-wide final snapshot; the handle is retained
FinishSnapshot ==
  /\ phase = "snapshot" /\ fd # NoFile
  /\ \E v \in Yields : Same(v, kept[Current])
  /\ handle' = [handle EXCEPT ![Current] = fd]
  /\ Close
  /\ Move("turn")
  /\ UNCHANGED <<diskVars, got, kept, turnVars, histVars>>

\* The check of the retained handle, then of the name, of each file in turn.
FinishHeld ==
  /\ phase = "held" /\ fd # NoFile
  /\ \E v \in Yields : Same(v, kept[Current])
  /\ Close
  /\ phase' = "named"
  /\ UNCHANGED <<diskVars, cursor, got, kept, handle, turnVars, histVars>>

\* Mutant: after the handle the name is not looked at again.
FinishNamedUnseen ==
  /\ phase = "named" /\ fd # NoFile
  /\ Close
  /\ IF cursor < N THEN cursor' = cursor + 1 /\ phase' = "held"
                   ELSE cursor' = 1 /\ phase' = "last"
  /\ UNCHANGED <<diskVars, got, kept, handle, turnVars, histVars>>

FinishNamed ==
  /\ phase = "named" /\ fd # NoFile
  /\ \E v \in Yields : Same(v, kept[Current])
  /\ Close
  /\ IF cursor < N THEN cursor' = cursor + 1 /\ phase' = "held"
                   ELSE cursor' = 1 /\ phase' = "last"
  /\ UNCHANGED <<diskVars, got, kept, handle, turnVars, histVars>>

\* A read that does not show what it has to.
Mismatch ==
  /\ fd # NoFile
  /\ \/ phase = "second"
        /\ \E v \in Yields : ~(Same(v, got) /\ BelongsToPacket(cursor, v))
     \/ phase \in {"snapshot", "held", "named"}
        /\ \E v \in Yields : ~Same(v, kept[Current])
  /\ Close
  /\ phase' = "refused"
  /\ UNCHANGED <<diskVars, cursor, got, kept, handle, turnVars, histVars>>

-----------------------------------------------------------------------------
\* PinnedTerminalEvidenceDirectoryTree

\* open: the directories found are the ones retained.
OpenTree ==
  /\ phase = "open"
  /\ exact
  /\ phase' = "first"
  /\ dirsNamed' = TRUE
  /\ UNCHANGED <<obj, bytes, exact, cursor, readVars, turnVars, histVars>>

\* reauthenticate between the snapshot and the last pass
Reauthenticate ==
  /\ phase = "turn"
  /\ exact /\ dirsNamed
  /\ phase' = "held"
  /\ turnObj' = obj /\ turnBytes' = bytes
  /\ UNCHANGED <<diskVars, cursor, readVars, histVars>>

\* reauthenticate at the end; then the packet is minted
ReauthenticateAgain ==
  /\ phase = "last"
  /\ exact /\ dirsNamed
  /\ phase' = "accepted"
  /\ UNCHANGED <<diskVars, cursor, readVars, turnVars, histVars>>

TreeRefused ==
  /\ \/ phase = "open" /\ ~exact
     \/ phase \in {"turn", "last"} /\ ~(exact /\ dirsNamed)
  /\ phase' = "refused"
  /\ UNCHANGED <<diskVars, cursor, readVars, turnVars, histVars>>

Fault ==
  /\ phase \in Phase
  /\ faults < MaxFaults
  /\ faults' = faults + 1
  /\ phase' = "refused"
  /\ Close
  /\ UNCHANGED <<diskVars, cursor, got, kept, handle, turnVars, objLeft,
                 bytesLeft, restored, sound, meddles>>

-----------------------------------------------------------------------------
\* The outsider

Meddle ==
  /\ phase \in Phase
  /\ meddles < MaxMeddles
  /\ meddles' = meddles + 1
  /\ UNCHANGED <<phase, cursor, fd, got, kept, handle, turnVars, sound, faults>>

\* An object, named or not, is rewritten in place.
Rewrite(f, o, b) ==
  /\ Meddle
  /\ b # bytes[f][o]
  /\ bytes' = [bytes EXCEPT ![f][o] = b]
  /\ bytesLeft' = [bytesLeft EXCEPT ![f][o] = @ \cup {bytes[f][o]}]
  /\ restored' = (restored \/ b \in bytesLeft[f][o])
  /\ during' = IF fd = o /\ Current = f THEN during \cup {b} ELSE during
  /\ UNCHANGED <<obj, exact, dirsNamed, objLeft>>

\* The name is given to another object.
Replace(f, o) ==
  /\ Meddle
  /\ o # obj[f]
  /\ obj' = [obj EXCEPT ![f] = o]
  /\ objLeft' = [objLeft EXCEPT ![f] = @ \cup {obj[f]}]
  /\ restored' = (restored \/ o \in objLeft[f])
  /\ UNCHANGED <<bytes, exact, dirsNamed, bytesLeft, during>>

\* Entries come and go, directories are exchanged and put back.
Reshape ==
  /\ Meddle
  /\ exact' \in BOOLEAN /\ dirsNamed' \in BOOLEAN
  /\ UNCHANGED <<obj, bytes, objLeft, bytesLeft, restored, during>>

Outside ==
  \/ \E f \in File, o \in Object, b \in Bytes : Rewrite(f, o, b)
  \/ \E f \in File, o \in Object : Replace(f, o)
  \/ Reshape

-----------------------------------------------------------------------------
Step ==
  \/ OpenTree \/ StartRead
  \/ FinishFirst \/ FinishSecond \/ FinishSnapshot \/ FinishHeld \/ FinishNamed
  \/ Mismatch
  \/ Reauthenticate \/ ReauthenticateAgain \/ TreeRefused

Done == phase \in {"accepted", "refused"} /\ UNCHANGED vars

Next == Step \/ Fault \/ Outside \/ Done

Spec == Init /\ [][Next]_vars

-----------------------------------------------------------------------------
\* Properties

\* The packet accepted existed: at one instant during the call every file name
\* denoted the object measured for it, and all of them held the bytes of one
\* and the same packet.  Only putting back what was there before can deceive
\* the code, which compares identities and digests and no change times.
AcceptedIsOneInstant ==
  phase = "accepted" /\ ~restored
    => \E p \in Packets : \A f \in File :
         /\ kept[f].bytes = p
         /\ turnObj[f] = kept[f].obj
         /\ turnBytes[f][turnObj[f]] = p

\* A packet that is whole and left alone is never refused unless a call fails.
RefusalHasACause ==
  phase = "refused" /\ meddles = 0 /\ faults = 0 => ~sound

=============================================================================
