----------------------- MODULE TerminalEvidenceProofs -----------------------
(***************************************************************************)
(* The packet publisher, for any number of publishers, payloads, faults,   *)
(* crashes and interventions from outside.                                 *)
(*                                                                         *)
(* ReturnedIsDurable rests on SettledInv: what a publisher has synchronized*)
(* for the last time is all a crash can leave, unless it was changed after *)
(* that.  FinalIsWhole, RenamedIsPublished and the refinement of CreateOnce*)
(* rest on QuietInv, which follows the publishers while nobody outside     *)
(* interferes: one of them holds the staging name, it renames only what it *)
(* has measured and synchronized, and what it renamed stays.               *)
(***************************************************************************)
EXTENDS TerminalEvidence, TLAPS

Ending == {"returned", "refused", "crashed"}

\* What has been synchronized for the last time and not been changed after that
\* is all a crash can leave.
Settled(w) ==
  /\ NamesAreSettled(w) => \A b \in namesKept : b["final"] = names["final"]
  /\ \A f \in File : DataIsSettled(w, f) => dataKept[w][f] = {data[w][f]}
  /\ \A e \in Entry : EntryIsSettled(w, e) => entryKept[w][e] = {entry[w][e]}
  /\ pc[w] = "returned" => ClosureIsExact(w) /\ names["final"] = w

SettledInv == \A w \in Publishers : w \notin late => Settled(w)

\* The publisher has made its staging directory and not renamed it.
Holding == BeforeRename \ {"preflight", "mkdir"}

\* The staged packet has been measured.
Measured(w) ==
  pc[w] \in {"sync.files", "sync.dirs", "rename.check", "rename"}

\* The file, or entry, has been synchronized at the staging name.
DataIsStaged(w, f) ==
  \/ pc[w] \in {"sync.dirs", "rename.check", "rename"}
  \/ pc[w] = "sync.files" /\ \E i \in 1..(cursor[w] - 1) : FileOrder[i] = f

EntryIsStaged(w, e) ==
  \/ pc[w] \in {"rename.check", "rename"}
  \/ pc[w] = "sync.dirs"
     /\ \E i \in 1..(cursor[w] - 1) : e \in EntriesOf(SyncOrder[i])

\* The binding's final name is free or denotes the whole durable packet of a
\* publisher that has renamed it.
Sound(b) ==
  b["final"] # None =>
    /\ b["final"] \in Publishers
    /\ Whole(b["final"]) /\ Durable(b["final"])
    /\ pc[b["final"]] \in AfterRename \cup Ending

\* Where a publisher that nobody disturbs is.
OnCourse(w) ==
  /\ pc[w] \in Holding => names["staging"] = w
  /\ pc[w] \in AfterRename \cup {"returned"} => names["final"] = w
  /\ NamesAreSettled(w) => \A b \in namesKept : b["final"] = w
  /\ Measured(w) => Whole(w)
  /\ \A f \in File : DataIsStaged(w, f) => dataKept[w][f] = {"good"}
  /\ \A e \in Entry : EntryIsStaged(w, e) => entryKept[w][e] = {"own"}

NamesAreSound ==
  /\ names \in namesKept
  /\ \A b \in namesKept : Sound(b) /\ b["final"] \in {None, names["final"]}

RenamedStays == crashes = 0 => \A w \in renamed : names["final"] = w

Quiet ==
  /\ NamesAreSound
  /\ \A w \in Publishers : OnCourse(w)
  /\ RenamedStays

QuietInv == meddles = 0 => Quiet

USE PublisherAssumption

-----------------------------------------------------------------------------
\* The files and their order

LEMMA FileOrderLen ==
  /\ Len(Payloads) \in Nat /\ Len(Payloads) >= 1
  /\ Len(FileOrder) \in Nat
  /\ Len(FileOrder) = Len(Payloads) + 2
<1>1. ASSUME NEW S, NEW s \in Seq(S), NEW a \in S, NEW b \in S
      PROVE  Len(s \o <<a, b>>) = Len(s) + 2
  OBVIOUS
<1>2. Payloads \in Seq(STRING) /\ Len(Payloads) \in Nat /\ Len(Payloads) >= 1
  BY PayloadAssumption
<1>3. Payloads \in Seq(STRING \cup {"manifest", "completion"})
  BY <1>2
<1>4. QED
  BY <1>1, <1>2, <1>3 DEF FileOrder

\* Every place of the order holds a file.
LEMMA FileOrderType ==
  ASSUME NEW i \in 1..Len(FileOrder)
  PROVE  FileOrder[i] \in File
<1>1. /\ Payloads \in Seq(STRING) /\ Len(Payloads) \in Nat
      /\ Len(FileOrder) = Len(Payloads) + 2
  BY PayloadAssumption, FileOrderLen
<1>2. CASE i \in 1..Len(Payloads)
  <2>1. FileOrder[i] = Payloads[i]
    BY <1>1, <1>2 DEF FileOrder
  <2>2. QED
    BY <1>2, <2>1 DEF File, PayloadSet
<1>3. CASE i = Len(Payloads) + 1
  BY <1>1, <1>3 DEF FileOrder, File
<1>4. CASE i = Len(Payloads) + 2
  BY <1>1, <1>4 DEF FileOrder, File
<1>5. QED
  BY <1>1, <1>2, <1>3, <1>4

\* Every file has a place in the order.
LEMMA FileOrderOnto ==
  ASSUME NEW f \in File
  PROVE  \E i \in 1..Len(FileOrder) : FileOrder[i] = f
<1>1. /\ Payloads \in Seq(STRING) /\ Len(Payloads) \in Nat
      /\ Len(FileOrder) = Len(Payloads) + 2
  BY PayloadAssumption, FileOrderLen
<1>2. CASE f \in PayloadSet
  <2>1. PICK i \in 1..Len(Payloads) : Payloads[i] = f
    BY <1>2 DEF PayloadSet
  <2>2. FileOrder[i] = f /\ i \in 1..Len(FileOrder)
    BY <1>1, <2>1 DEF FileOrder
  <2>3. QED
    BY <2>2
<1>3. CASE f = "manifest"
  <2>1. FileOrder[Len(Payloads) + 1] = f /\ Len(Payloads) + 1 \in 1..Len(FileOrder)
    BY <1>1, <1>3 DEF FileOrder
  <2>2. QED
    BY <2>1
<1>4. CASE f = "completion"
  <2>1. FileOrder[Len(Payloads) + 2] = f /\ Len(Payloads) + 2 \in 1..Len(FileOrder)
    BY <1>1, <1>4 DEF FileOrder
  <2>2. QED
    BY <2>1
<1>5. QED
  BY <1>2, <1>3, <1>4 DEF File

\* The two synchronized directories hold every entry.
LEMMA SyncOrderFacts ==
  /\ Len(SyncOrder) = 2 /\ SyncOrder[1] = "dir" /\ SyncOrder[2] = "root"
  /\ \A e \in Entry : e \in EntriesOf("dir") \/ e \in EntriesOf("root")
  /\ "manifest" \in Entry /\ "dir" \in Entry
  BY DEF SyncOrder, EntriesOf, Entry, File

-----------------------------------------------------------------------------
\* Types

LEMMA InitType == Init => TypeOK
<1> SUFFICES ASSUME Init PROVE TypeOK
  OBVIOUS
<1>1. names \in Names /\ namesKept \in SUBSET Names
  BY DEF Init, Names, Root
<1>2. /\ entry \in [Publishers -> [Entry -> Binding]]
      /\ entryKept \in [Publishers -> [Entry -> SUBSET Binding]]
  BY DEF Init, Binding
<1>3. /\ data \in [Publishers -> [File -> Data]]
      /\ dataKept \in [Publishers -> [File -> SUBSET Data]]
      /\ staged \in [Publishers -> Data]
  BY DEF Init, Data
<1>4. /\ pc \in [Publishers -> Running \cup Ending]
  BY DEF Init, Running, BeforeRename
<1>5. cursor \in [Publishers -> 1..Len(FileOrder)]
  BY FileOrderLen DEF Init
<1>6. QED
  BY <1>1, <1>2, <1>3, <1>4, <1>5, BoundAssumption DEF Init, TypeOK, Ending

\* A crash leaves of every entry and every file something it may leave.
LEMMA CrashKeeps ==
  ASSUME TypeOK, Crash
  PROVE  /\ entry' \in [Publishers -> [Entry -> Binding]]
         /\ data' \in [Publishers -> [File -> Data]]
         /\ \A w \in Publishers :
              /\ \A e \in Entry : entry'[w][e] \in entryKept[w][e]
              /\ \A f \in File : data'[w][f] \in dataKept[w][f]
<1>1. PICK E : /\ entry' \in [Publishers -> E]
               /\ \A w \in Publishers : entry'[w] \in Survivors(w, entryKept, Entry, Binding)
  BY DEF Crash
<1>2. PICK C : /\ data' \in [Publishers -> C]
               /\ \A w \in Publishers : data'[w] \in Survivors(w, dataKept, File, Data)
  BY DEF Crash
<1>3. \A w \in Publishers : /\ entry'[w] \in [Entry -> Binding]
                            /\ \A e \in Entry : entry'[w][e] \in entryKept[w][e]
  BY <1>1 DEF Survivors
<1>4. \A w \in Publishers : /\ data'[w] \in [File -> Data]
                            /\ \A f \in File : data'[w][f] \in dataKept[w][f]
  BY <1>2 DEF Survivors
<1>5. entry' \in [Publishers -> [Entry -> Binding]]
  BY <1>1, <1>3
<1>6. data' \in [Publishers -> [File -> Data]]
  BY <1>2, <1>4
<1>7. QED
  BY <1>3, <1>4, <1>5, <1>6

\* Where a publisher goes.
LEMMA GotoType ==
  ASSUME TypeOK, NEW w \in Publishers, NEW step \in Running \cup Ending, Goto(w, step)
  PROVE  /\ pc' \in [Publishers -> Running \cup Ending]
         /\ pc'[w] = step
         /\ \A v \in Publishers \ {w} : pc'[v] = pc[v]
  BY DEF TypeOK, Goto, Ending

LEMMA CursorType ==
  ASSUME TypeOK, NEW w \in Publishers
  PROVE  /\ cursor[w] \in 1..Len(FileOrder)
         /\ FileOrder[cursor[w]] \in File
         /\ FileOrder[cursor[w]] \in Entry
         /\ [cursor EXCEPT ![w] = 1] \in [Publishers -> 1..Len(FileOrder)]
         /\ cursor[w] < Len(FileOrder) =>
              [cursor EXCEPT ![w] = @ + 1] \in [Publishers -> 1..Len(FileOrder)]
<1>1. cursor \in [Publishers -> 1..Len(FileOrder)] /\ cursor[w] \in 1..Len(FileOrder)
  BY DEF TypeOK
<1>2. FileOrder[cursor[w]] \in File
  BY <1>1, FileOrderType
<1>3. QED
  BY <1>1, <1>2, FileOrderLen DEF Entry

LEMMA BindEntryType ==
  ASSUME TypeOK, NEW w \in Publishers, NEW e \in Entry, NEW b \in Binding, BindEntry(w, e, b)
  PROVE  /\ entry' \in [Publishers -> [Entry -> Binding]]
         /\ entryKept' \in [Publishers -> [Entry -> SUBSET Binding]]
<1>1. entry' \in [Publishers -> [Entry -> Binding]]
  BY DEF TypeOK, BindEntry
<1>2. entryKept[w][e] \cup {b} \in SUBSET Binding
  BY DEF TypeOK
<1>3. entryKept' \in [Publishers -> [Entry -> SUBSET Binding]]
  BY <1>2 DEF TypeOK, BindEntry
<1>4. QED
  BY <1>1, <1>3

LEMMA WriteDataType ==
  ASSUME TypeOK, NEW w \in Publishers, NEW f \in File, NEW d \in Data, WriteData(w, f, d)
  PROVE  /\ data' \in [Publishers -> [File -> Data]]
         /\ dataKept' \in [Publishers -> [File -> SUBSET Data]]
<1>1. data' \in [Publishers -> [File -> Data]]
  BY DEF TypeOK, WriteData
<1>2. dataKept[w][f] \cup {d} \in SUBSET Data
  BY DEF TypeOK
<1>3. dataKept' \in [Publishers -> [File -> SUBSET Data]]
  BY <1>2 DEF TypeOK, WriteData
<1>4. QED
  BY <1>1, <1>3

LEMMA SyncFileType ==
  ASSUME TypeOK, NEW w \in Publishers, NEW f \in File, SyncFile(w, f)
  PROVE  dataKept' \in [Publishers -> [File -> SUBSET Data]]
<1>1. {data[w][f]} \in SUBSET Data
  BY DEF TypeOK
<1>2. QED
  BY <1>1 DEF TypeOK, SyncFile

LEMMA SyncDirectoryType ==
  ASSUME TypeOK, NEW w \in Publishers, NEW d, SyncDirectory(w, d)
  PROVE  /\ entryKept' \in [Publishers -> [Entry -> SUBSET Binding]]
         /\ \A e \in Entry :
              entryKept'[w][e] = IF e \in EntriesOf(d) THEN {entry[w][e]} ELSE entryKept[w][e]
         /\ \A v \in Publishers \ {w} : entryKept'[v] = entryKept[v]
<1> DEFINE row == [e \in Entry |->
               IF e \in EntriesOf(d) THEN {entry[w][e]} ELSE entryKept[w][e]]
<1>1. entryKept' = [entryKept EXCEPT ![w] = row]
  BY DEF SyncDirectory
<1>2. \A e \in Entry : {entry[w][e]} \in SUBSET Binding /\ entryKept[w][e] \in SUBSET Binding
  BY DEF TypeOK
<1>3. row \in [Entry -> SUBSET Binding]
  BY <1>2
<1>4. \A e \in Entry : row[e] = IF e \in EntriesOf(d) THEN {entry[w][e]} ELSE entryKept[w][e]
  OBVIOUS
<1> HIDE DEF row
<1>5. entryKept \in [Publishers -> [Entry -> SUBSET Binding]]
  BY DEF TypeOK
<1>6. entryKept' \in [Publishers -> [Entry -> SUBSET Binding]] /\ entryKept'[w] = row
      /\ \A v \in Publishers \ {w} : entryKept'[v] = entryKept[v]
  BY <1>1, <1>3, <1>5
<1>7. QED
  BY <1>4, <1>6

LEMMA RebindType ==
  ASSUME TypeOK, NEW binding \in Names, Rebind(binding)
  PROVE  names' \in Names /\ namesKept' \in SUBSET Names
  BY DEF TypeOK, Rebind

\* The steps that only look, with where they lead.
Looks ==
  {<<"preflight", "mkdir">>, <<"pin", "dir.make">>, <<"staged.measure", "sync.files">>,
   <<"rename.check", "rename">>, <<"renamed", "parent.sync">>,
   <<"final.open", "final.reopen">>, <<"final.reopen", "final.measure">>,
   <<"final.measure", "final.files">>, <<"durable.measure", "authority">>,
   <<"authority", "returned">>}

\* A publisher's step is a look or a change of the filesystem.
LEMMA StepKinds ==
  ASSUME NEW w \in Publishers, PublisherStep(w)
  PROVE  \/ \E s \in Looks : Look(w, s[1], s[2])
         \/ MakeStaging(w) \/ MakeDirectory(w) \/ PinDirectory(w)
         \/ OpenFile(w) \/ WriteFile(w) \/ FinishFile(w) \/ ReopenStaged(w)
         \/ SyncFiles(w, "sync.files", "sync.dirs")
         \/ SyncFiles(w, "final.files", "final.dirs")
         \/ SyncDirectories(w, "sync.dirs", "rename.check")
         \/ SyncDirectories(w, "final.dirs", "durable.measure")
         \/ Rename(w) \/ SyncParent(w)
<1>1. ASSUME NEW from, NEW to, <<from, to>> \in Looks, Look(w, from, to)
      PROVE  \E s \in Looks : Look(w, s[1], s[2])
  BY <1>1, <<from, to>>[1] = from, <<from, to>>[2] = to
<1>2. CASE \/ Preflight(w) \/ PinStaging(w) \/ MeasureStaged(w) \/ CheckRename(w)
           \/ CheckRenamed(w) \/ OpenFinal(w) \/ ReopenFinal(w) \/ MeasureFinal(w)
           \/ MeasureDurable(w) \/ ReturnAuthority(w)
  BY <1>1, <1>2 DEF Looks, Preflight, PinStaging, MeasureStaged, CheckRename,
    CheckRenamed, OpenFinal, ReopenFinal, MeasureFinal, MeasureDurable, ReturnAuthority
<1>3. QED
  BY <1>2 DEF PublisherStep

LEMMA LooksType ==
  ASSUME NEW s \in Looks
  PROVE  s[1] \in Running /\ s[2] \in Running \cup Ending
  BY DEF Looks, Running, BeforeRename, AfterRename, Ending

LEMMA PublisherType ==
  ASSUME TypeOK, NEW w \in Publishers, PublisherStep(w)
  PROVE  TypeOK'
<1> USE DEF Ending
<1>1. ASSUME NEW s \in Looks, Look(w, s[1], s[2])
      PROVE  TypeOK'
  <2>1. s[2] \in Running \cup Ending
    BY LooksType
  <2>2. pc' \in [Publishers -> Running \cup Ending]
    BY <1>1, <2>1, GotoType DEF Look
  <2>3. cursor' \in [Publishers -> 1..Len(FileOrder)]
    BY <1>1, CursorType DEF Look
  <2>4. QED
    BY <1>1, <2>2, <2>3 DEF Look, fsVars, envVars, TypeOK
<1>2. CASE MakeStaging(w)
  <2>1. [names EXCEPT !["staging"] = w] \in Names
    BY DEF TypeOK, Names, Root
  <2>2. names' \in Names /\ namesKept' \in SUBSET Names
    BY <1>2, <2>1, RebindType DEF MakeStaging
  <2>3. pc' \in [Publishers -> Running \cup Ending]
    BY <1>2, GotoType DEF MakeStaging, Running, BeforeRename
  <2>4. QED
    BY <1>2, <2>2, <2>3 DEF MakeStaging, envVars, TypeOK
<1>3. CASE MakeDirectory(w)
  <2>1. /\ entry' \in [Publishers -> [Entry -> Binding]]
        /\ entryKept' \in [Publishers -> [Entry -> SUBSET Binding]]
    BY <1>3, BindEntryType DEF MakeDirectory, Entry, Binding
  <2>2. pc' \in [Publishers -> Running \cup Ending]
    BY <1>3, GotoType DEF MakeDirectory, Running, BeforeRename
  <2>3. QED
    BY <1>3, <2>1, <2>2 DEF MakeDirectory, envVars, TypeOK
<1>4. CASE PinDirectory(w)
  <2>1. "dir" \in Entry /\ "own" \in Binding /\ {"absent", "own"} \in SUBSET Binding
    BY DEF Entry, Binding
  <2>2. /\ entry' \in [Publishers -> [Entry -> Binding]]
        /\ entryKept' \in [Publishers -> [Entry -> SUBSET Binding]]
    BY <1>4, <2>1 DEF PinDirectory, TypeOK
  <2>3. pc' \in [Publishers -> Running \cup Ending]
    BY <1>4, GotoType DEF PinDirectory, Running, BeforeRename
  <2>4. QED
    BY <1>4, <2>2, <2>3 DEF PinDirectory, envVars, TypeOK
<1>5. CASE OpenFile(w)
  <2>1. /\ entry' \in [Publishers -> [Entry -> Binding]]
        /\ entryKept' \in [Publishers -> [Entry -> SUBSET Binding]]
    BY <1>5, CursorType, BindEntryType, "own" \in Binding DEF OpenFile, Binding
  <2>2. pc' \in [Publishers -> Running \cup Ending]
    BY <1>5, GotoType DEF OpenFile, Running, BeforeRename
  <2>3. QED
    BY <1>5, <2>1, <2>2 DEF OpenFile, envVars, TypeOK
<1>6. CASE WriteFile(w)
  <2>1. /\ data' \in [Publishers -> [File -> Data]]
        /\ dataKept' \in [Publishers -> [File -> SUBSET Data]]
    BY <1>6, CursorType, WriteDataType, "good" \in Data DEF WriteFile, Data
  <2>2. pc' \in [Publishers -> Running \cup Ending]
    BY <1>6, GotoType DEF WriteFile, Running, BeforeRename
  <2>3. QED
    BY <1>6, <2>1, <2>2 DEF WriteFile, envVars, TypeOK
<1>7. CASE FinishFile(w)
  <2>1. dataKept' \in [Publishers -> [File -> SUBSET Data]]
    BY <1>7, CursorType, SyncFileType DEF FinishFile
  <2>2. pc' \in [Publishers -> Running \cup Ending]
    BY <1>7, GotoType DEF FinishFile, Running, BeforeRename
  <2>3. cursor' \in [Publishers -> 1..Len(FileOrder)]
    BY <1>7, CursorType DEF FinishFile
  <2>4. QED
    BY <1>7, <2>1, <2>2, <2>3 DEF FinishFile, envVars, TypeOK
<1>8. CASE ReopenStaged(w)
  <2>1. pc' \in [Publishers -> Running \cup Ending]
    BY <1>8, GotoType DEF ReopenStaged, Running, BeforeRename
  <2>2. staged' \in [Publishers -> Data]
    BY <1>8 DEF ReopenStaged, TypeOK
  <2>3. QED
    BY <1>8, <2>1, <2>2 DEF ReopenStaged, fsVars, envVars, TypeOK
<1>9. ASSUME NEW from, NEW to \in Running, SyncFiles(w, from, to)
      PROVE  TypeOK'
  <2>1. dataKept' \in [Publishers -> [File -> SUBSET Data]]
    BY <1>9, CursorType, SyncFileType DEF SyncFiles
  <2>2. pc' \in [Publishers -> Running \cup Ending]
    BY <1>9, GotoType DEF SyncFiles, TypeOK
  <2>3. cursor' \in [Publishers -> 1..Len(FileOrder)]
    BY <1>9, CursorType DEF SyncFiles
  <2>4. QED
    BY <1>9, <2>1, <2>2, <2>3 DEF SyncFiles, envVars, TypeOK
<1>10. ASSUME NEW from, NEW to \in Running, SyncDirectories(w, from, to)
       PROVE  TypeOK'
  <2>1. entryKept' \in [Publishers -> [Entry -> SUBSET Binding]]
    BY <1>10, SyncDirectoryType DEF SyncDirectories
  <2>2. pc' \in [Publishers -> Running \cup Ending]
    BY <1>10, GotoType DEF SyncDirectories, TypeOK
  <2>3. cursor[w] < Len(SyncOrder) => cursor[w] < Len(FileOrder)
    BY CursorType, SyncOrderFacts, FileOrderLen
  <2>4. cursor' \in [Publishers -> 1..Len(FileOrder)]
    BY <1>10, <2>3, CursorType DEF SyncDirectories
  <2>5. QED
    BY <1>10, <2>1, <2>2, <2>4 DEF SyncDirectories, envVars, TypeOK
<1>11. CASE Rename(w)
  <2>1. Moved \in Names
    BY DEF TypeOK, Names, Root, Moved
  <2>2. names' \in Names /\ namesKept' \in SUBSET Names
    BY <1>11, <2>1, RebindType DEF Rename
  <2>3. pc' \in [Publishers -> Running \cup Ending]
    BY <1>11, GotoType DEF Rename, Running, AfterRename
  <2>4. renamed' \in SUBSET Publishers /\ late' \in SUBSET Publishers
    BY <1>11 DEF Rename, TypeOK
  <2>5. QED
    BY <1>11, <2>2, <2>3, <2>4 DEF Rename, TypeOK
<1>12. CASE SyncParent(w)
  <2>1. pc' \in [Publishers -> Running \cup Ending]
    BY <1>12, GotoType DEF SyncParent, Running, AfterRename
  <2>2. namesKept' \in SUBSET Names
    BY <1>12 DEF SyncParent, TypeOK
  <2>3. QED
    BY <1>12, <2>1, <2>2 DEF SyncParent, envVars, TypeOK
<1>13. {"sync.dirs", "final.dirs", "rename.check", "durable.measure"} \subseteq Running
  BY DEF Running, BeforeRename, AfterRename
<1>14. QED
  BY <1>1, <1>2, <1>3, <1>4, <1>5, <1>6, <1>7, <1>8, <1>9, <1>10, <1>11, <1>12, <1>13,
     StepKinds

LEMMA OutsideType ==
  ASSUME TypeOK, Outside
  PROVE  TypeOK'
<1>1. /\ meddles' \in 0..MaxMeddles
      /\ UNCHANGED <<pc, cursor, staged, renamed, faults, crashes>>
  <2>1. Meddle
    BY DEF Outside, MeddleData, MeddlePacket, MeddleEntry, MeddleExtra, MeddleName,
      MeddleParent
  <2>2. QED
    BY <2>1, BoundAssumption DEF TypeOK, Meddle, Unmoved
<1>2. late' \in SUBSET Publishers
  <2>1. ASSUME NEW w \in Publishers, late' = late \/ late' = late \cup {w}
        PROVE  late' \in SUBSET Publishers
    BY <2>1 DEF TypeOK
  <2>2. ASSUME NEW w \in Publishers, NEW f, NEW d, MeddleData(w, f, d) \/ MeddlePacket(w, d)
                 \/ MeddleEntry(w, f, d) \/ MeddleExtra(w)
        PROVE  late' = late \/ late' = late \cup {w}
    BY <2>2 DEF MeddleData, MeddlePacket, MeddleEntry, MeddleExtra
  <2>3. ASSUME NEW n, NEW r, MeddleName(n, r) \/ MeddleParent
        PROVE  late' \in SUBSET Publishers
    BY <2>3 DEF TypeOK, MeddleName, MeddleParent
  <2>4. QED
    BY <2>1, <2>2, <2>3 DEF Outside
<1>3. ASSUME NEW w \in Publishers, NEW f \in File, NEW d \in Data, MeddleData(w, f, d)
      PROVE  TypeOK'
  BY <1>1, <1>2, <1>3, WriteDataType DEF MeddleData, TypeOK
<1>4. ASSUME NEW w \in Publishers, NEW d \in {"good", "other"}, MeddlePacket(w, d)
      PROVE  TypeOK'
  <2>1. d \in Data
    BY DEF Data
  <2>2. data' \in [Publishers -> [File -> Data]]
    BY <1>4, <2>1 DEF MeddlePacket, TypeOK
  <2>3. \A f \in File : dataKept[w][f] \cup {d} \in SUBSET Data
    BY <2>1 DEF TypeOK
  <2>4. dataKept' \in [Publishers -> [File -> SUBSET Data]]
    BY <1>4, <2>3 DEF MeddlePacket, TypeOK
  <2>5. QED
    BY <1>1, <1>2, <1>4, <2>2, <2>4 DEF MeddlePacket, TypeOK
<1>5. ASSUME NEW w \in Publishers, NEW e \in Entry, NEW b \in Binding, MeddleEntry(w, e, b)
      PROVE  TypeOK'
  BY <1>1, <1>2, <1>5, BindEntryType DEF MeddleEntry, TypeOK
<1>6. ASSUME NEW w \in Publishers, MeddleExtra(w)
      PROVE  TypeOK'
  BY <1>1, <1>2, <1>6 DEF MeddleExtra, TypeOK
<1>7. ASSUME NEW n \in {"staging", "final"}, NEW r \in Root, MeddleName(n, r)
      PROVE  TypeOK'
  <2>1. [names EXCEPT ![n] = r] \in Names
    BY DEF TypeOK, Names
  <2>2. names' \in Names /\ namesKept' \in SUBSET Names
    BY <1>7, <2>1, RebindType DEF MeddleName
  <2>3. QED
    BY <1>1, <1>2, <1>7, <2>2 DEF MeddleName, TypeOK
<1>8. CASE MeddleParent
  BY <1>1, <1>2, <1>8 DEF MeddleParent, TypeOK
<1>9. QED
  BY <1>3, <1>4, <1>5, <1>6, <1>7, <1>8 DEF Outside

LEMMA CrashType ==
  ASSUME TypeOK, Crash
  PROVE  TypeOK'
<1>1. /\ entry' \in [Publishers -> [Entry -> Binding]]
      /\ data' \in [Publishers -> [File -> Data]]
  BY CrashKeeps
<1>2. names' \in Names /\ namesKept' \in SUBSET Names
  BY DEF Crash, TypeOK
<1>3. entryKept' \in [Publishers -> [Entry -> SUBSET Binding]]
  BY <1>1 DEF Crash
<1>4. dataKept' \in [Publishers -> [File -> SUBSET Data]]
  BY <1>1 DEF Crash
<1>5. pc' \in [Publishers -> Running \cup Ending]
  BY DEF Crash, TypeOK, Ending
<1>6. crashes' \in 0..MaxCrashes
  BY BoundAssumption DEF Crash, TypeOK
<1>7. QED
  BY <1>1, <1>2, <1>3, <1>4, <1>5, <1>6 DEF Crash, TypeOK, Ending

LEMMA StepType == TypeOK /\ [Next]_vars => TypeOK'
<1> SUFFICES ASSUME TypeOK, [Next]_vars PROVE TypeOK'
  OBVIOUS
<1>1. CASE \E w \in Publishers : PublisherStep(w)
  BY <1>1, PublisherType
<1>2. ASSUME NEW w \in Publishers, Refuse(w) \/ Fault(w)
      PROVE  TypeOK'
  <2>1. pc' \in [Publishers -> Running \cup Ending]
    BY <1>2, GotoType DEF Refuse, Fault, Ending
  <2>2. faults' \in 0..MaxFaults
    BY <1>2, BoundAssumption DEF Refuse, Fault, TypeOK, envVars
  <2>3. QED
    BY <1>2, <2>1, <2>2 DEF Refuse, Fault, TypeOK, fsVars, envVars, Ending
<1>3. CASE Outside
  BY <1>3, OutsideType
<1>4. CASE Crash
  BY <1>4, CrashType
<1>5. CASE UNCHANGED vars
  BY <1>5 DEF vars, TypeOK
<1>6. QED
  BY <1>1, <1>2, <1>3, <1>4, <1>5 DEF Next, Done

\* No step of a publisher, of the outsider or of a crash takes a variable out of
\* its type; in particular the index of write_and_sync_publication_file and of
\* the passes of sync_retained_files never leaves the compiled file order.
THEOREM TypeCorrect == Spec => []TypeOK
<1>1. QED
  BY InitType, StepType, PTL DEF Spec

-----------------------------------------------------------------------------
\* What is synchronized for the last time

\* Nothing is settled before the parent is synchronized.
Early == BeforeRename \cup {"renamed", "parent.sync", "refused", "crashed"}

LEMMA EarlySettled ==
  ASSUME NEW v \in Publishers, pc'[v] \in Early
  PROVE  Settled(v)'
<1>1. pc'[v] \notin (AfterRename \ {"renamed", "parent.sync"}) \cup {"returned"}
  BY DEF Early, BeforeRename, AfterRename
<1>2. ~NamesAreSettled(v)' /\ pc'[v] # "returned"
  BY <1>1 DEF NamesAreSettled
<1>3. (\A f \in File : ~DataIsSettled(v, f))'
  BY DEF Early, BeforeRename, DataIsSettled
<1>4. (\A e \in Entry : ~EntryIsSettled(v, e))'
  BY DEF Early, BeforeRename, EntryIsSettled
<1>5. QED
  BY <1>2, <1>3, <1>4 DEF Settled

\* The final name keeps what it denotes, and so it is after a crash.
FinalNameHolds ==
  /\ names'["final"] = names["final"]
  /\ (\A b \in namesKept : b["final"] = names["final"])
       => \A b \in namesKept' : b["final"] = names["final"]

\* The publisher's tree keeps what it holds, and so it is after a crash.
TreeHolds(v) ==
  /\ entry'[v] = entry[v] /\ entryKept'[v] = entryKept[v]
  /\ data'[v] = data[v] /\ dataKept'[v] = dataKept[v]
  /\ v \in extra' => v \in extra

LEMMA OtherSettled ==
  ASSUME TypeOK, NEW v \in Publishers, Settled(v),
         pc'[v] = pc[v], cursor'[v] = cursor[v], FinalNameHolds, TreeHolds(v)
  PROVE  Settled(v)'
<1>1. NamesAreSettled(v)' = NamesAreSettled(v)
  BY DEF NamesAreSettled
<1>2. \A f \in File : DataIsSettled(v, f)' = DataIsSettled(v, f)
  BY DEF DataIsSettled
<1>3. \A e \in Entry : EntryIsSettled(v, e)' = EntryIsSettled(v, e)
  BY DEF EntryIsSettled
<1>4. ClosureIsExact(v) => ClosureIsExact(v)'
  BY DEF ClosureIsExact, InventoryIsExact, TreeHolds
<1>5. QED
  BY <1>1, <1>2, <1>3, <1>4 DEF Settled, TreeHolds, FinalNameHolds

\* A step that leaves the filesystem alone.
LEMMA FsHolds ==
  ASSUME UNCHANGED fsVars
  PROVE  FinalNameHolds /\ \A v \in Publishers : TreeHolds(v)
  BY DEF fsVars, FinalNameHolds, TreeHolds

LEMMA LookSettled ==
  ASSUME TypeOK, NEW w \in Publishers, Settled(w), NEW s \in Looks, Look(w, s[1], s[2])
  PROVE  Settled(w)'
<1>1. s[2] \in Running \cup Ending /\ pc[w] = s[1] /\ Goto(w, s[2])
  BY LooksType DEF Look
<1>2. pc'[w] = s[2]
  BY <1>1, GotoType
<1>3. UNCHANGED fsVars /\ cursor'[w] = 1
  BY CursorType DEF Look, TypeOK
<1>4. CASE s[2] \in Early
  BY <1>2, <1>4, EarlySettled
<1>5. CASE s[2] \notin Early
  <2>1. s \in {<<"final.open", "final.reopen">>, <<"final.reopen", "final.measure">>,
              <<"final.measure", "final.files">>, <<"durable.measure", "authority">>,
              <<"authority", "returned">>}
    BY <1>5 DEF Looks, Early, BeforeRename
  <2>2. NamesAreSettled(w)
    BY <1>1, <2>1 DEF NamesAreSettled, AfterRename
  <2>3. (\A b \in namesKept : b["final"] = names["final"])'
    BY <1>3, <2>2 DEF Settled, fsVars
  <2>4. ASSUME NEW f \in File, DataIsSettled(w, f)'
        PROVE  dataKept'[w][f] = {data'[w][f]}
    <3>1. \A i \in 1..(1 - 1) : FALSE
      OBVIOUS
    <3>2. pc'[w] \in {"authority", "returned"}
      BY <1>2, <1>3, <2>1, <2>4, <3>1 DEF DataIsSettled
    <3>3. DataIsSettled(w, f)
      BY <1>1, <1>2, <2>1, <3>2 DEF DataIsSettled
    <3>4. QED
      BY <1>3, <3>3 DEF Settled, fsVars
  <2>5. ASSUME NEW e \in Entry, EntryIsSettled(w, e)'
        PROVE  entryKept'[w][e] = {entry'[w][e]}
    <3>1. pc'[w] \in {"authority", "returned"}
      BY <1>2, <2>1, <2>5 DEF EntryIsSettled
    <3>2. EntryIsSettled(w, e)
      BY <1>1, <1>2, <2>1, <3>1 DEF EntryIsSettled
    <3>3. QED
      BY <1>3, <3>2 DEF Settled, fsVars
  <2>6. pc'[w] = "returned" => ClosureIsExact(w)' /\ names'["final"] = w
    <3>1. SUFFICES ASSUME pc'[w] = "returned"
                   PROVE  ClosureIsExact(w)' /\ names'["final"] = w
      OBVIOUS
    <3>2. s[2] = "returned" => s[1] = "authority"
      BY <2>1
    <3>3. ClosureIsExact(w) /\ names["final"] = w
      BY <1>1, <1>2, <3>1, <3>2 DEF Look, Admits
    <3>4. QED
      BY <1>3, <3>3 DEF ClosureIsExact, InventoryIsExact, fsVars
  <2>7. QED
    BY <2>3, <2>4, <2>5, <2>6 DEF Settled
<1>6. QED
  BY <1>4, <1>5

\* The pass has been over the file, or over the directory of the entry.
FilePassed(w, f) == \E i \in 1..(cursor[w] - 1) : FileOrder[i] = f
EntryPassed(w, e) == \E i \in 1..(cursor[w] - 1) : e \in EntriesOf(SyncOrder[i])

\* A pass over the files: what it has been over is all a crash can leave.
LEMMA FilesPass ==
  ASSUME TypeOK, NEW w \in Publishers, NEW from, NEW to, from # to, SyncFiles(w, from, to)
  PROVE  /\ pc[w] = from
         /\ pc'[w] = from \/ (pc'[w] = to /\ cursor'[w] = 1)
         /\ UNCHANGED <<names, namesKept, entry, entryKept, data, extra>>
         /\ \A f \in File :
              /\ dataKept'[w][f] \in {dataKept[w][f], {data[w][f]}}
              /\ (pc'[w] = from => FilePassed(w, f)')
                 /\ (FilePassed(w, f) => dataKept[w][f] = {data[w][f]})
                   => dataKept'[w][f] = {data[w][f]}
<1> DEFINE g == FileOrder[cursor[w]]
<1>1. /\ pc[w] = from /\ g \in File
      /\ dataKept' = [dataKept EXCEPT ![w][g] = {data[w][g]}]
      /\ UNCHANGED <<names, namesKept, entry, entryKept, data, extra>>
      /\ cursor[w] \in 1..Len(FileOrder) /\ Len(FileOrder) \in Nat
  BY CursorType, FileOrderLen DEF SyncFiles, SyncFile
<1>2. \/ pc'[w] = from /\ cursor'[w] = cursor[w] + 1
      \/ pc'[w] = to /\ cursor'[w] = 1 /\ cursor[w] = Len(FileOrder)
  BY <1>1 DEF SyncFiles, Goto, TypeOK
<1>3. dataKept'[w][g] = {data[w][g]} /\ \A f \in File \ {g} : dataKept'[w][f] = dataKept[w][f]
  BY <1>1 DEF TypeOK
<1>4. ASSUME NEW f \in File, pc'[w] = from => FilePassed(w, f)'
      PROVE  f = g \/ FilePassed(w, f)
  <2>1. PICK i \in 1..Len(FileOrder) : FileOrder[i] = f /\ i <= cursor[w]
    <3>1. CASE pc'[w] = from
      <4>1. PICK i \in 1..(cursor'[w] - 1) : FileOrder[i] = f
        BY <1>4, <3>1 DEF FilePassed
      <4>2. cursor'[w] = cursor[w] + 1
        BY <1>2, <3>1
      <4>3. i \in 1..Len(FileOrder) /\ i <= cursor[w]
        BY <1>1, <4>1, <4>2
      <4>4. QED
        BY <4>1, <4>3
    <3>2. CASE pc'[w] = to
      BY <1>1, <1>2, <3>2, FileOrderOnto
    <3>3. QED
      BY <1>2, <3>1, <3>2
  <2>2. CASE i = cursor[w]
    BY <2>1, <2>2
  <2>3. CASE i # cursor[w]
    <3>1. i \in 1..(cursor[w] - 1)
      BY <1>1, <2>1, <2>3
    <3>2. QED
      BY <2>1, <3>1 DEF FilePassed
  <2>4. QED
    BY <2>2, <2>3
<1>5. QED
  BY <1>1, <1>2, <1>3, <1>4

\* A pass over the directories does the same for their entries.
LEMMA DirectoriesPass ==
  ASSUME TypeOK, NEW w \in Publishers, NEW from, NEW to, from # to,
         SyncDirectories(w, from, to)
  PROVE  /\ pc[w] = from
         /\ pc'[w] \in {from, to}
         /\ UNCHANGED <<names, namesKept, entry, data, dataKept, extra>>
         /\ \A e \in Entry :
              /\ entryKept'[w][e] \in {entryKept[w][e], {entry[w][e]}}
              /\ (pc'[w] = from => EntryPassed(w, e)')
                 /\ (EntryPassed(w, e) => entryKept[w][e] = {entry[w][e]})
                   => entryKept'[w][e] = {entry[w][e]}
<1> DEFINE d == SyncOrder[cursor[w]]
<1>1. /\ pc[w] = from
      /\ UNCHANGED <<names, namesKept, entry, data, dataKept, extra>>
      /\ cursor[w] \in 1..Len(FileOrder) /\ Len(FileOrder) \in Nat
  BY CursorType, FileOrderLen DEF SyncDirectories
<1>2. \/ pc'[w] = from /\ cursor'[w] = 2 /\ cursor[w] = 1
      \/ pc'[w] = to /\ cursor'[w] = 1 /\ cursor[w] = 2
  <2>1. \/ pc'[w] = from /\ cursor'[w] = cursor[w] + 1 /\ cursor[w] < 2
        \/ pc'[w] = to /\ cursor'[w] = 1 /\ cursor[w] = 2
    BY <1>1, SyncOrderFacts DEF SyncDirectories, Goto, TypeOK
  <2>2. QED
    BY <1>1, <2>1
<1>3. \A e \in Entry :
        entryKept'[w][e] = IF e \in EntriesOf(d) THEN {entry[w][e]} ELSE entryKept[w][e]
  BY SyncDirectoryType DEF SyncDirectories
<1>4. ASSUME NEW e \in Entry, pc'[w] = from => EntryPassed(w, e)'
      PROVE  e \in EntriesOf(d) \/ EntryPassed(w, e)
  <2>1. CASE cursor[w] = 1
    <3>1. PICK i \in 1..(2 - 1) : e \in EntriesOf(SyncOrder[i])
      BY <1>2, <1>4, <2>1 DEF EntryPassed
    <3>2. i = cursor[w]
      BY <2>1, <3>1
    <3>3. QED
      BY <3>1, <3>2
  <2>2. CASE cursor[w] = 2
    <3>1. CASE e \in EntriesOf("root")
      BY <2>2, <3>1, SyncOrderFacts
    <3>2. CASE e \in EntriesOf("dir")
      <4>1. 1 \in 1..(cursor[w] - 1) /\ e \in EntriesOf(SyncOrder[1])
        BY <2>2, <3>2, SyncOrderFacts
      <4>2. QED
        BY <4>1 DEF EntryPassed
    <3>3. QED
      BY <3>1, <3>2, SyncOrderFacts
  <2>3. QED
    BY <1>2, <2>1, <2>2
<1>5. QED
  BY <1>1, <1>2, <1>3, <1>4

LEMMA SyncFilesSettled ==
  ASSUME TypeOK, NEW w \in Publishers, Settled(w),
         SyncFiles(w, "final.files", "final.dirs")
  PROVE  Settled(w)'
<1>1. /\ pc[w] = "final.files"
      /\ pc'[w] = "final.files" \/ (pc'[w] = "final.dirs" /\ cursor'[w] = 1)
      /\ UNCHANGED <<names, namesKept, entry, entryKept, data>>
  BY FilesPass
<1>2. ASSUME NEW f \in File, DataIsSettled(w, f)'
      PROVE  (dataKept[w][f] = {data[w][f]})'
  <2>1. pc'[w] = "final.files" => FilePassed(w, f)'
    BY <1>2 DEF DataIsSettled, FilePassed
  <2>2. FilePassed(w, f) => dataKept[w][f] = {data[w][f]}
    BY <1>1 DEF Settled, DataIsSettled, FilePassed
  <2>3. QED
    BY <1>1, <2>1, <2>2, FilesPass
<1>3. (\A e \in Entry : ~EntryIsSettled(w, e))'
  <2>1. \A i \in 1..(1 - 1) : FALSE
    OBVIOUS
  <2>2. QED
    BY <1>1, <2>1 DEF EntryIsSettled
<1>4. NamesAreSettled(w)
  BY <1>1 DEF NamesAreSettled, AfterRename
<1>5. QED
  BY <1>1, <1>2, <1>3, <1>4 DEF Settled

LEMMA SyncDirectoriesSettled ==
  ASSUME TypeOK, NEW w \in Publishers, Settled(w),
         SyncDirectories(w, "final.dirs", "durable.measure")
  PROVE  Settled(w)'
<1>1. /\ pc[w] = "final.dirs"
      /\ pc'[w] \in {"final.dirs", "durable.measure"}
      /\ UNCHANGED <<names, namesKept, entry, data, dataKept>>
  BY DirectoriesPass
<1>2. ASSUME NEW e \in Entry, EntryIsSettled(w, e)'
      PROVE  (entryKept[w][e] = {entry[w][e]})'
  <2>1. pc'[w] = "final.dirs" => EntryPassed(w, e)'
    BY <1>2 DEF EntryIsSettled, EntryPassed
  <2>2. EntryPassed(w, e) => entryKept[w][e] = {entry[w][e]}
    BY <1>1 DEF Settled, EntryIsSettled, EntryPassed
  <2>3. QED
    BY <1>1, <2>1, <2>2, DirectoriesPass
<1>3. NamesAreSettled(w) /\ \A f \in File : DataIsSettled(w, f)
  BY <1>1 DEF NamesAreSettled, AfterRename, DataIsSettled
<1>4. QED
  BY <1>1, <1>2, <1>3 DEF Settled

LEMMA PublisherSettled ==
  ASSUME TypeOK, SettledInv, NEW w \in Publishers, PublisherStep(w)
  PROVE  SettledInv'
<1> SUFFICES ASSUME NEW v \in Publishers, v \notin late' PROVE Settled(v)'
  BY DEF SettledInv
<1>1. v \notin late /\ Settled(v)
  <2>1. late \subseteq late'
    BY StepKinds DEF Look, MakeStaging, MakeDirectory, PinDirectory, OpenFile, WriteFile,
      FinishFile, ReopenStaged, SyncFiles, SyncDirectories, Rename, SyncParent, envVars
  <2>2. QED
    BY <2>1 DEF SettledInv
<1>2. ASSUME NEW s \in Looks, Look(w, s[1], s[2])
      PROVE  Settled(v)'
  <2>1. CASE v = w
    BY <1>1, <1>2, <2>1, LookSettled
  <2>2. CASE v # w
    <3>1. pc'[v] = pc[v] /\ cursor'[v] = cursor[v] /\ UNCHANGED fsVars
      BY <1>2, <2>2 DEF Look, Goto, TypeOK
    <3>2. QED
      BY <1>1, <3>1, FsHolds, OtherSettled
  <2>3. QED
    BY <2>1, <2>2
<1>3. CASE MakeStaging(w)
  <2>1. CASE v = w
    BY <1>3, <2>1, GotoType, EarlySettled DEF MakeStaging, Running, BeforeRename, Early
  <2>2. CASE v # w
    <3>1. pc'[v] = pc[v] /\ cursor'[v] = cursor[v] /\ TreeHolds(v)
      BY <1>3, <2>2 DEF MakeStaging, Goto, TypeOK, TreeHolds
    <3>2. FinalNameHolds
      BY <1>3 DEF MakeStaging, Rebind, FinalNameHolds, TypeOK, Names
    <3>3. QED
      BY <1>1, <3>1, <3>2, OtherSettled
  <2>3. QED
    BY <2>1, <2>2
<1>4. CASE MakeDirectory(w) \/ PinDirectory(w) \/ OpenFile(w)
  <2>1. CASE v = w
    <3>1. pc'[w] \in Early
      BY <1>4 DEF MakeDirectory, PinDirectory, OpenFile, Goto, TypeOK, BeforeRename, Early
    <3>2. QED
      BY <2>1, <3>1, EarlySettled
  <2>2. CASE v # w
    <3>1. pc'[v] = pc[v] /\ cursor'[v] = cursor[v]
      BY <1>4, <2>2 DEF MakeDirectory, PinDirectory, OpenFile, Goto, TypeOK
    <3>2. entry'[v] = entry[v] /\ entryKept'[v] = entryKept[v]
      BY <1>4, <2>2 DEF MakeDirectory, PinDirectory, OpenFile, BindEntry, TypeOK
    <3>3. TreeHolds(v) /\ FinalNameHolds
      BY <1>4, <3>2 DEF MakeDirectory, PinDirectory, OpenFile, TreeHolds, FinalNameHolds
    <3>4. QED
      BY <1>1, <3>1, <3>3, OtherSettled
  <2>3. QED
    BY <2>1, <2>2
<1>5. CASE WriteFile(w) \/ FinishFile(w) \/ ReopenStaged(w)
           \/ SyncFiles(w, "sync.files", "sync.dirs")
           \/ SyncDirectories(w, "sync.dirs", "rename.check")
           \/ SyncFiles(w, "final.files", "final.dirs")
           \/ SyncDirectories(w, "final.dirs", "durable.measure")
  <2>1. CASE v = w
    <3>1. CASE SyncFiles(w, "final.files", "final.dirs")
      BY <1>1, <2>1, <3>1, SyncFilesSettled
    <3>2. CASE SyncDirectories(w, "final.dirs", "durable.measure")
      BY <1>1, <2>1, <3>2, SyncDirectoriesSettled
    <3>3. CASE WriteFile(w) \/ FinishFile(w) \/ ReopenStaged(w)
      <4>1. pc'[w] \in Early
        BY <3>3 DEF WriteFile, FinishFile, ReopenStaged, Goto, TypeOK, BeforeRename, Early
      <4>2. QED
        BY <2>1, <4>1, EarlySettled
    <3>4. CASE SyncFiles(w, "sync.files", "sync.dirs")
               \/ SyncDirectories(w, "sync.dirs", "rename.check")
      <4>1. pc'[w] \in Early
        BY <3>4 DEF SyncFiles, SyncDirectories, Goto, TypeOK, BeforeRename, Early
      <4>2. QED
        BY <2>1, <4>1, EarlySettled
    <3>5. QED
      BY <1>5, <3>1, <3>2, <3>3, <3>4
  <2>2. CASE v # w
    <3>1. pc'[v] = pc[v] /\ cursor'[v] = cursor[v]
      BY <1>5, <2>2 DEF WriteFile, FinishFile, ReopenStaged, SyncFiles, SyncDirectories,
        Goto, TypeOK
    <3>2. data'[v] = data[v] /\ dataKept'[v] = dataKept[v]
      BY <1>5, <2>2 DEF WriteFile, WriteData, FinishFile, SyncFile, ReopenStaged, SyncFiles,
        SyncDirectories, TypeOK, fsVars
    <3>3. entry'[v] = entry[v] /\ entryKept'[v] = entryKept[v]
      BY <1>5, <2>2, SyncDirectoryType DEF WriteFile, FinishFile, ReopenStaged, SyncFiles,
        SyncDirectories, TypeOK, fsVars
    <3>4. TreeHolds(v) /\ FinalNameHolds
      BY <1>5, <3>2, <3>3 DEF WriteFile, FinishFile, ReopenStaged, SyncFiles, SyncDirectories,
        fsVars, TreeHolds, FinalNameHolds
    <3>5. QED
      BY <1>1, <3>1, <3>4, OtherSettled
  <2>3. QED
    BY <2>1, <2>2
<1>6. CASE Rename(w)
  <2>1. CASE v = w
    BY <1>6, <2>1, GotoType, EarlySettled DEF Rename, Running, AfterRename, Early
  <2>2. CASE v # w
    <3>1. ~NamesAreSettled(v) /\ pc'[v] = pc[v]
      BY <1>6, <2>2 DEF Rename, Goto, TypeOK
    <3>2. pc'[v] \in Early
      BY <3>1 DEF NamesAreSettled, TypeOK, Running, Early
    <3>3. QED
      BY <3>2, EarlySettled
  <2>3. QED
    BY <2>1, <2>2
<1>7. CASE SyncParent(w)
  <2>1. CASE v = w
    <3>1. pc'[w] = "final.open"
      BY <1>7, GotoType DEF SyncParent, Running, AfterRename
    <3>2. (\A b \in namesKept : b["final"] = names["final"])'
      BY <1>7 DEF SyncParent
    <3>3. QED
      BY <2>1, <3>1, <3>2 DEF Settled, DataIsSettled, EntryIsSettled
  <2>2. CASE v # w
    <3>1. pc'[v] = pc[v] /\ cursor'[v] = cursor[v] /\ TreeHolds(v) /\ FinalNameHolds
      BY <1>7, <2>2 DEF SyncParent, Goto, TypeOK, TreeHolds, FinalNameHolds
    <3>2. QED
      BY <1>1, <3>1, OtherSettled
  <2>3. QED
    BY <2>1, <2>2
<1>8. QED
  BY <1>2, <1>3, <1>4, <1>5, <1>6, <1>7, StepKinds

\* An intervention that touches something settled makes the publisher late.
LEMMA OutsideSettled ==
  ASSUME TypeOK, SettledInv, Outside
  PROVE  SettledInv'
<1> SUFFICES ASSUME NEW v \in Publishers, v \notin late' PROVE Settled(v)'
  BY DEF SettledInv
<1>0. pc'[v] = pc[v] /\ cursor'[v] = cursor[v]
  BY DEF Outside, Meddle, Unmoved, MeddleData, MeddlePacket, MeddleEntry, MeddleExtra,
    MeddleName, MeddleParent
<1>1. /\ NamesAreSettled(v)' = NamesAreSettled(v)
      /\ \A f \in File : DataIsSettled(v, f)' = DataIsSettled(v, f)
      /\ \A e \in Entry : EntryIsSettled(v, e)' = EntryIsSettled(v, e)
  BY <1>0 DEF NamesAreSettled, DataIsSettled, EntryIsSettled
<1>2. /\ pc[v] = "returned" => \A f \in File : DataIsSettled(v, f)
      /\ pc[v] = "returned" => \A e \in Entry : EntryIsSettled(v, e)
      /\ pc[v] = "returned" => NamesAreSettled(v)
      /\ "manifest" \in File /\ "manifest" \in Entry
  BY DEF DataIsSettled, EntryIsSettled, NamesAreSettled, File, Entry
<1>3. ASSUME NEW w \in Publishers, NEW f \in File, NEW d \in Data, MeddleData(w, f, d)
      PROVE  Settled(v)'
  <2>1. v \notin late /\ Settled(v) /\ FinalNameHolds
    BY <1>3 DEF MeddleData, SettledInv, FinalNameHolds
  <2>2. CASE v # w
    <3>1. TreeHolds(v)
      BY <1>3, <2>2 DEF MeddleData, WriteData, TypeOK, TreeHolds
    <3>2. QED
      BY <1>0, <2>1, <3>1, OtherSettled
  <2>3. CASE v = w
    <3>1. ~DataIsSettled(v, f)
      BY <1>3, <2>3 DEF MeddleData
    <3>2. pc'[v] # "returned"
      BY <1>0, <1>2, <3>1
    <3>3. \A g \in File \ {f} : data'[v][g] = data[v][g] /\ dataKept'[v][g] = dataKept[v][g]
      BY <1>3 DEF MeddleData, WriteData, TypeOK
    <3>4. (\A g \in File : DataIsSettled(v, g) => dataKept[v][g] = {data[v][g]})'
      BY <1>1, <2>1, <3>1, <3>3 DEF Settled
    <3>5. UNCHANGED <<entry, entryKept, names, namesKept>>
      BY <1>3 DEF MeddleData
    <3>6. QED
      BY <1>1, <2>1, <3>2, <3>4, <3>5 DEF Settled
  <2>4. QED
    BY <2>2, <2>3
<1>4. ASSUME NEW w \in Publishers, NEW d \in {"good", "other"}, MeddlePacket(w, d)
      PROVE  Settled(v)'
  <2>1. v \notin late /\ Settled(v) /\ FinalNameHolds
    BY <1>4 DEF MeddlePacket, SettledInv, FinalNameHolds
  <2>2. CASE v # w
    <3>1. TreeHolds(v)
      BY <1>4, <2>2 DEF MeddlePacket, TypeOK, TreeHolds
    <3>2. QED
      BY <1>0, <2>1, <3>1, OtherSettled
  <2>3. CASE v = w
    <3>1. \A f \in File : ~DataIsSettled(v, f)
      BY <1>4, <2>3 DEF MeddlePacket
    <3>2. pc'[v] # "returned"
      BY <1>0, <1>2, <3>1
    <3>3. UNCHANGED <<entry, entryKept, names, namesKept>>
      BY <1>4 DEF MeddlePacket
    <3>4. QED
      BY <1>1, <2>1, <3>1, <3>2, <3>3 DEF Settled
  <2>4. QED
    BY <2>2, <2>3
<1>5. ASSUME NEW w \in Publishers, NEW e \in Entry, NEW b \in Binding, MeddleEntry(w, e, b)
      PROVE  Settled(v)'
  <2>1. v \notin late /\ Settled(v) /\ FinalNameHolds
    BY <1>5 DEF MeddleEntry, SettledInv, FinalNameHolds
  <2>2. CASE v # w
    <3>1. TreeHolds(v)
      BY <1>5, <2>2 DEF MeddleEntry, BindEntry, TypeOK, TreeHolds
    <3>2. QED
      BY <1>0, <2>1, <3>1, OtherSettled
  <2>3. CASE v = w
    <3>1. ~EntryIsSettled(v, e)
      BY <1>5, <2>3 DEF MeddleEntry
    <3>2. pc'[v] # "returned"
      BY <1>0, <1>2, <3>1
    <3>3. \A g \in Entry \ {e} : entry'[v][g] = entry[v][g] /\ entryKept'[v][g] = entryKept[v][g]
      BY <1>5 DEF MeddleEntry, BindEntry, TypeOK
    <3>4. (\A g \in Entry : EntryIsSettled(v, g) => entryKept[v][g] = {entry[v][g]})'
      BY <1>1, <2>1, <3>1, <3>3 DEF Settled
    <3>5. UNCHANGED <<data, dataKept, names, namesKept>>
      BY <1>5 DEF MeddleEntry
    <3>6. QED
      BY <1>1, <2>1, <3>2, <3>4, <3>5 DEF Settled
  <2>4. QED
    BY <2>2, <2>3
<1>6. ASSUME NEW w \in Publishers, MeddleExtra(w)
      PROVE  Settled(v)'
  <2>1. v \notin late /\ Settled(v) /\ FinalNameHolds
    BY <1>6 DEF MeddleExtra, SettledInv, FinalNameHolds
  <2>2. CASE v # w
    <3>1. TreeHolds(v)
      BY <1>6, <2>2 DEF MeddleExtra, TreeHolds
    <3>2. QED
      BY <1>0, <2>1, <3>1, OtherSettled
  <2>3. CASE v = w
    <3>1. pc'[v] # "returned"
      BY <1>0, <1>2, <1>6, <2>3 DEF MeddleExtra
    <3>2. UNCHANGED <<entry, entryKept, data, dataKept, names, namesKept>>
      BY <1>6 DEF MeddleExtra
    <3>3. QED
      BY <1>1, <2>1, <3>1, <3>2 DEF Settled
  <2>4. QED
    BY <2>2, <2>3
<1>7. ASSUME NEW n \in {"staging", "final"}, NEW r \in Root, MeddleName(n, r)
      PROVE  Settled(v)'
  <2>1. ~NamesAreSettled(v)
    BY <1>7 DEF MeddleName
  <2>2. pc'[v] \in Early
    BY <1>0, <2>1 DEF NamesAreSettled, TypeOK, Running, Early
  <2>3. QED
    BY <2>2, EarlySettled
<1>8. CASE MeddleParent
  <2>1. v \notin late /\ Settled(v) /\ FinalNameHolds /\ TreeHolds(v)
    BY <1>8 DEF MeddleParent, SettledInv, FinalNameHolds, TreeHolds
  <2>2. QED
    BY <1>0, <2>1, OtherSettled
<1>9. QED
  BY <1>3, <1>4, <1>5, <1>6, <1>7, <1>8 DEF Outside

\* A crash leaves what a publisher has returned as it was.
LEMMA CrashSettled ==
  ASSUME TypeOK, SettledInv, Crash
  PROVE  SettledInv'
<1> SUFFICES ASSUME NEW v \in Publishers, v \notin late' PROVE Settled(v)'
  BY DEF SettledInv
<1>1. v \notin late /\ Settled(v)
  BY DEF Crash, SettledInv
<1>2. CASE pc[v] # "returned"
  <2>1. pc'[v] \in Early
    BY <1>2 DEF Crash, TypeOK, Early, Running, BeforeRename
  <2>2. QED
    BY <2>1, EarlySettled
<1>3. CASE pc[v] = "returned"
  <2>1. pc'[v] = "returned"
    BY <1>3 DEF Crash, Running, BeforeRename, AfterRename
  <2>2. /\ NamesAreSettled(v)
        /\ \A f \in File : DataIsSettled(v, f)
        /\ \A e \in Entry : EntryIsSettled(v, e)
    BY <1>3 DEF NamesAreSettled, DataIsSettled, EntryIsSettled
  <2>3. \A e \in Entry : entry'[v][e] = entry[v][e]
    BY <1>1, <2>2, CrashKeeps DEF Settled
  <2>4. \A f \in File : data'[v][f] = data[v][f]
    BY <1>1, <2>2, CrashKeeps DEF Settled
  <2>5. names'["final"] = v /\ \A b \in namesKept' : b["final"] = v
    BY <1>1, <1>3, <2>2 DEF Settled, Crash
  <2>6. /\ \A e \in Entry : entryKept'[v][e] = {entry'[v][e]}
        /\ \A f \in File : dataKept'[v][f] = {data'[v][f]}
    BY DEF Crash
  <2>7. ClosureIsExact(v)'
    <3>1. "dir" \in Entry /\ File \subseteq Entry
      BY DEF Entry
    <3>2. ClosureIsExact(v) /\ extra' = extra
      BY <1>1, <1>3 DEF Settled, Crash
    <3>3. QED
      BY <2>3, <2>4, <3>1, <3>2 DEF ClosureIsExact, InventoryIsExact
  <2>8. QED
    BY <2>5, <2>6, <2>7 DEF Settled
<1>4. QED
  BY <1>2, <1>3

LEMMA StepSettled == TypeOK /\ SettledInv /\ [Next]_vars => SettledInv'
<1> SUFFICES ASSUME TypeOK, SettledInv, [Next]_vars PROVE SettledInv'
  OBVIOUS
<1>1. CASE \E w \in Publishers : PublisherStep(w)
  BY <1>1, PublisherSettled
<1>2. ASSUME NEW w \in Publishers, Refuse(w) \/ Fault(w)
      PROVE  SettledInv'
  <2>1. UNCHANGED <<fsVars, late, cursor>> /\ Goto(w, "refused")
    BY <1>2 DEF Refuse, Fault, envVars
  <2>2. pc'[w] \in Early /\ \A v \in Publishers \ {w} : pc'[v] = pc[v]
    BY <2>1, GotoType DEF Ending, Early
  <2>3. ASSUME NEW v \in Publishers, v \notin late' PROVE Settled(v)'
    <3>1. CASE v = w
      BY <2>2, <3>1, EarlySettled
    <3>2. CASE v # w
      <4>1. Settled(v) /\ cursor'[v] = cursor[v]
        BY <2>1, <2>3 DEF SettledInv
      <4>2. QED
        BY <2>1, <2>2, <3>2, <4>1, FsHolds, OtherSettled
    <3>3. QED
      BY <3>1, <3>2
  <2>4. QED
    BY <2>3 DEF SettledInv
<1>3. CASE Outside
  BY <1>3, OutsideSettled
<1>4. CASE Crash
  BY <1>4, CrashSettled
<1>5. CASE UNCHANGED vars
  BY <1>5 DEF vars, SettledInv, Settled, NamesAreSettled, DataIsSettled, EntryIsSettled,
    ClosureIsExact, InventoryIsExact
<1>6. QED
  BY <1>1, <1>2, <1>3, <1>4, <1>5 DEF Next, Done

LEMMA InitSettled == Init => SettledInv
<1> SUFFICES ASSUME Init, NEW v \in Publishers PROVE Settled(v)
  BY DEF SettledInv
<1>1. pc[v] = "preflight"
  BY DEF Init
<1>2. QED
  BY <1>1 DEF Settled, NamesAreSettled, AfterRename, DataIsSettled, EntryIsSettled

LEMMA SettledDurable == TypeOK /\ SettledInv => ReturnedIsDurable
<1> SUFFICES ASSUME TypeOK, SettledInv, NEW w \in Publishers, pc[w] = "returned", w \notin late
             PROVE  /\ Whole(w) /\ Durable(w)
                    /\ \A b \in namesKept : b["final"] = w
  BY DEF ReturnedIsDurable
<1>1. Settled(w)
  BY DEF SettledInv
<1>2. /\ NamesAreSettled(w)
      /\ \A f \in File : DataIsSettled(w, f)
      /\ \A e \in Entry : EntryIsSettled(w, e)
  BY DEF NamesAreSettled, DataIsSettled, EntryIsSettled
<1>3. ClosureIsExact(w) /\ names["final"] = w
  BY <1>1 DEF Settled
<1>4. /\ \A f \in File : dataKept[w][f] = {data[w][f]}
      /\ \A e \in Entry : entryKept[w][e] = {entry[w][e]}
      /\ \A b \in namesKept : b["final"] = names["final"]
  BY <1>1, <1>2 DEF Settled
<1>5. QED
  BY <1>3, <1>4 DEF Whole, Durable, ClosureIsExact

\* Whatever the outsider does, however often, and whatever fails: authority is
\* returned only for a packet that is whole, at the final name and safe from a
\* crash, unless something was changed after the last synchronization of it
\* (publish_b4_terminal_evidence_packet's tail: parent, files, directories, and
\* then measure and reauthenticate).
THEOREM ReturnedDurably == Spec => []ReturnedIsDurable
<1>1. Spec => []TypeOK
  BY TypeCorrect
<1>2. Spec => []SettledInv
  BY InitSettled, StepSettled, <1>1, PTL DEF Spec
<1>3. QED
  BY SettledDurable, <1>1, <1>2, PTL

-----------------------------------------------------------------------------
\* While nobody outside interferes

\* Whatever the names denote, a whole durable packet that has been renamed stays
\* whole and durable: nobody but its publisher works on it, and the publisher
\* only synchronizes it once more.
LEMMA SoundStays ==
  ASSUME TypeOK, NEW w \in Publishers, PublisherStep(w), NEW b, Sound(b)
  PROVE  Sound(b)'
<1> DEFINE v == b["final"]
<1> SUFFICES ASSUME v # None
             PROVE  Whole(v)' /\ Durable(v)' /\ pc'[v] \in AfterRename \cup Ending
  BY DEF Sound
<1>0. v \in Publishers /\ Whole(v) /\ Durable(v) /\ pc[v] \in AfterRename \cup Ending
  BY DEF Sound
<1> HIDE DEF v
<1>1. ASSUME pc'[v] \in AfterRename \cup Ending, TreeHolds(v)
      PROVE  Whole(v)' /\ Durable(v)' /\ pc'[v] \in AfterRename \cup Ending
  BY <1>0, <1>1 DEF TreeHolds, Whole, Durable, ClosureIsExact, InventoryIsExact
<1>2. ASSUME NEW s \in Looks, Look(w, s[1], s[2])
      PROVE  Whole(v)' /\ Durable(v)' /\ pc'[v] \in AfterRename \cup Ending
  <2>1. TreeHolds(v)
    BY <1>0, <1>2, FsHolds DEF Look
  <2>2. pc[w] = s[1] /\ pc'[w] = s[2] /\ (v # w => pc'[v] = pc[v])
    BY <1>0, <1>2, LooksType, GotoType DEF Look
  <2>3. s[1] \in AfterRename \cup Ending => s[2] \in AfterRename \cup Ending
    BY DEF Looks, AfterRename, Ending
  <2>4. QED
    BY <1>0, <1>1, <2>1, <2>2, <2>3
<1>3. CASE \/ MakeStaging(w) \/ MakeDirectory(w) \/ PinDirectory(w) \/ OpenFile(w)
           \/ WriteFile(w) \/ FinishFile(w) \/ ReopenStaged(w) \/ Rename(w)
  <2>1. pc[w] \notin AfterRename \cup Ending
    BY <1>3 DEF MakeStaging, MakeDirectory, PinDirectory, OpenFile, WriteFile, FinishFile,
      ReopenStaged, Rename, AfterRename, Ending
  <2>2. v # w
    BY <1>0, <2>1
  <2>3. pc'[v] = pc[v]
    BY <1>0, <1>3, <2>2 DEF MakeStaging, MakeDirectory, PinDirectory, OpenFile, WriteFile,
      FinishFile, ReopenStaged, Rename, Goto, TypeOK
  <2>4. entry'[v] = entry[v] /\ entryKept'[v] = entryKept[v]
    <3>1. CASE MakeDirectory(w) \/ PinDirectory(w) \/ OpenFile(w)
      BY <1>0, <2>2, <3>1 DEF MakeDirectory, PinDirectory, OpenFile, BindEntry, TypeOK
    <3>2. CASE ~(MakeDirectory(w) \/ PinDirectory(w) \/ OpenFile(w))
      BY <1>3, <3>2 DEF MakeStaging, WriteFile, FinishFile, ReopenStaged, Rename, fsVars
    <3>3. QED
      BY <3>1, <3>2
  <2>5. data'[v] = data[v] /\ dataKept'[v] = dataKept[v]
    BY <1>0, <1>3, <2>2 DEF MakeStaging, MakeDirectory, PinDirectory, OpenFile, WriteFile,
      FinishFile, ReopenStaged, Rename, WriteData, SyncFile, TypeOK, fsVars
  <2>6. extra' = extra
    BY <1>3 DEF MakeStaging, MakeDirectory, PinDirectory, OpenFile, WriteFile,
      FinishFile, ReopenStaged, Rename, fsVars
  <2>7. TreeHolds(v)
    BY <2>4, <2>5, <2>6 DEF TreeHolds
  <2>8. pc'[v] \in AfterRename \cup Ending
    BY <1>0, <2>3
  <2>9. QED
    BY <1>1, <2>7, <2>8
<1>4. ASSUME NEW from, NEW to, from # to, SyncFiles(w, from, to), from \notin Ending,
             from \in AfterRename => to \in AfterRename
      PROVE  Whole(v)' /\ Durable(v)' /\ pc'[v] \in AfterRename \cup Ending
  <2>1. CASE v # w
    <3>1. pc'[v] = pc[v] /\ TreeHolds(v)
      BY <1>0, <1>4, <2>1 DEF SyncFiles, SyncFile, Goto, TypeOK, TreeHolds
    <3>2. QED
      BY <1>0, <1>1, <3>1
  <2>2. CASE v = w
    <3>1. /\ pc[w] = from /\ pc'[w] \in {from, to}
          /\ UNCHANGED <<entry, entryKept, data, extra>>
          /\ \A f \in File : dataKept'[w][f] \in {dataKept[w][f], {data[w][f]}}
      BY <1>4, FilesPass
    <3>2. QED
      BY <1>0, <1>4, <2>2, <3>1 DEF Whole, Durable, ClosureIsExact, InventoryIsExact
  <2>3. QED
    BY <2>1, <2>2
<1>5. ASSUME NEW from, NEW to, from # to, SyncDirectories(w, from, to), from \notin Ending,
             from \in AfterRename => to \in AfterRename
      PROVE  Whole(v)' /\ Durable(v)' /\ pc'[v] \in AfterRename \cup Ending
  <2>1. CASE v # w
    <3>1. pc'[v] = pc[v] /\ TreeHolds(v)
      BY <1>0, <1>5, <2>1, SyncDirectoryType DEF SyncDirectories, Goto, TypeOK, TreeHolds
    <3>2. QED
      BY <1>0, <1>1, <3>1
  <2>2. CASE v = w
    <3>1. /\ pc[w] = from /\ pc'[w] \in {from, to}
          /\ UNCHANGED <<entry, data, dataKept, extra>>
          /\ \A e \in Entry : entryKept'[w][e] \in {entryKept[w][e], {entry[w][e]}}
      BY <1>5, DirectoriesPass
    <3>2. QED
      BY <1>0, <1>5, <2>2, <3>1 DEF Whole, Durable, ClosureIsExact, InventoryIsExact
  <2>3. QED
    BY <2>1, <2>2
<1>6. CASE SyncParent(w)
  <2>1. TreeHolds(v)
    BY <1>6 DEF SyncParent, TreeHolds
  <2>2. pc'[w] = "final.open" /\ (v # w => pc'[v] = pc[v])
    BY <1>0, <1>6, GotoType DEF SyncParent, Running, AfterRename
  <2>3. "final.open" \in AfterRename
    BY DEF AfterRename
  <2>4. pc'[v] \in AfterRename \cup Ending
    BY <1>0, <2>2, <2>3
  <2>5. QED
    BY <1>1, <2>1, <2>4
<1>7. /\ {"sync.files", "final.files", "sync.dirs", "final.dirs"} \cap Ending = {}
      /\ {"final.dirs", "durable.measure"} \subseteq AfterRename
      /\ {"sync.files", "sync.dirs"} \cap AfterRename = {}
  BY DEF Ending, AfterRename
<1>8. QED
  BY <1>2, <1>3, <1>4, <1>5, <1>6, <1>7, StepKinds

\* What a name denotes for publisher v, and may denote after a crash, holds.
NamesHold(v) ==
  /\ pc[v] \in Holding => names'["staging"] = names["staging"]
  /\ pc[v] \in AfterRename \cup {"returned"} => names'["final"] = names["final"]
  /\ NamesAreSettled(v) /\ (\A b \in namesKept : b["final"] = v)
       => \A b \in namesKept' : b["final"] = v

LEMMA OtherOnCourse ==
  ASSUME TypeOK, NEW v \in Publishers, OnCourse(v),
         pc'[v] = pc[v], cursor'[v] = cursor[v], NamesHold(v), TreeHolds(v)
  PROVE  OnCourse(v)'
<1>1. NamesAreSettled(v)' = NamesAreSettled(v) /\ Measured(v)' = Measured(v)
  BY DEF NamesAreSettled, Measured
<1>2. \A f \in File : DataIsStaged(v, f)' = DataIsStaged(v, f)
  BY DEF DataIsStaged
<1>3. \A e \in Entry : EntryIsStaged(v, e)' = EntryIsStaged(v, e)
  BY DEF EntryIsStaged
<1>4. Whole(v) => Whole(v)'
  BY DEF Whole, ClosureIsExact, InventoryIsExact, TreeHolds
<1>5. QED
  BY <1>1, <1>2, <1>3, <1>4 DEF OnCourse, TreeHolds, NamesHold

\* A publisher that has measured nothing yet, or that has renamed its packet, is
\* on course if the names are.
LEMMA NamesOnCourse ==
  ASSUME NEW v \in Publishers, ~Measured(v)',
         (pc[v] \in Holding => names["staging"] = v)',
         (pc[v] \in AfterRename \cup {"returned"} => names["final"] = v)',
         (NamesAreSettled(v) => \A b \in namesKept : b["final"] = v)'
  PROVE  OnCourse(v)'
<1>1. (\A f \in File : ~DataIsStaged(v, f))' /\ (\A e \in Entry : ~EntryIsStaged(v, e))'
  BY DEF Measured, DataIsStaged, EntryIsStaged
<1>2. QED
  BY <1>1 DEF OnCourse

LEMMA LookOnCourse ==
  ASSUME TypeOK, NEW w \in Publishers, OnCourse(w), NEW s \in Looks, Look(w, s[1], s[2])
  PROVE  OnCourse(w)'
<1>1. pc[w] = s[1] /\ pc'[w] = s[2] /\ UNCHANGED fsVars /\ cursor'[w] = 1
  <2>1. pc[w] = s[1] /\ Goto(w, s[2]) /\ UNCHANGED fsVars /\ cursor' = [cursor EXCEPT ![w] = 1]
    BY DEF Look
  <2>2. pc'[w] = s[2]
    BY <2>1, LooksType, GotoType
  <2>3. cursor'[w] = 1
    BY <2>1 DEF TypeOK
  <2>4. QED
    BY <2>1, <2>2, <2>3
<1>2. /\ s[2] \in Holding => s[1] \in Holding
      /\ s[2] \in AfterRename \cup {"returned"} => s[1] \in AfterRename
      /\ s[2] \in (AfterRename \ {"renamed", "parent.sync"}) \cup {"returned"}
           => s[1] \in AfterRename \ {"renamed", "parent.sync"}
      /\ s[2] \in {"sync.files", "sync.dirs", "rename.check", "rename"}
           => s = <<"staged.measure", "sync.files">> \/ s = <<"rename.check", "rename">>
  BY DEF Looks, Holding, BeforeRename, AfterRename
<1>3. /\ (pc[w] \in Holding => names["staging"] = w)'
      /\ (pc[w] \in AfterRename \cup {"returned"} => names["final"] = w)'
      /\ (NamesAreSettled(w) => \A b \in namesKept : b["final"] = w)'
  BY <1>1, <1>2 DEF OnCourse, NamesAreSettled, fsVars
<1>4. CASE ~Measured(w)'
  BY <1>3, <1>4, NamesOnCourse
<1>5. CASE s = <<"staged.measure", "sync.files">>
  <2>1. pc[w] = "staged.measure" /\ pc'[w] = "sync.files"
    BY <1>1, <1>5
  <2>2. Whole(w)'
    BY <1>1, <2>1 DEF Look, Admits, Whole, ClosureIsExact, InventoryIsExact, fsVars
  <2>3. \A i \in 1..(1 - 1) : FALSE
    OBVIOUS
  <2>4. (\A f \in File : ~DataIsStaged(w, f))' /\ (\A e \in Entry : ~EntryIsStaged(w, e))'
    BY <1>1, <2>1, <2>3 DEF DataIsStaged, EntryIsStaged
  <2>5. QED
    BY <1>3, <2>2, <2>4 DEF OnCourse
<1>6. CASE s = <<"rename.check", "rename">>
  <2>1. pc[w] = "rename.check" /\ pc'[w] = "rename"
    BY <1>1, <1>6
  <2>2. Whole(w) /\ Whole(w)'
    BY <1>1, <2>1 DEF OnCourse, Measured, Whole, ClosureIsExact, InventoryIsExact, fsVars
  <2>3. /\ \A f \in File : dataKept'[w][f] = {"good"}
        /\ \A e \in Entry : entryKept'[w][e] = {"own"}
    BY <1>1, <2>1 DEF OnCourse, DataIsStaged, EntryIsStaged, fsVars
  <2>4. QED
    BY <1>3, <2>2, <2>3 DEF OnCourse
<1>7. QED
  BY <1>1, <1>2, <1>4, <1>5, <1>6 DEF Measured

LEMMA SyncFilesOnCourse ==
  ASSUME TypeOK, NEW w \in Publishers, OnCourse(w),
         SyncFiles(w, "sync.files", "sync.dirs")
  PROVE  OnCourse(w)'
<1>1. /\ pc[w] = "sync.files"
      /\ pc'[w] = "sync.files" \/ (pc'[w] = "sync.dirs" /\ cursor'[w] = 1)
      /\ UNCHANGED <<names, namesKept, entry, entryKept, data, extra>>
  BY FilesPass
<1>2. Whole(w) /\ Whole(w)'
  BY <1>1 DEF OnCourse, Measured, Whole, ClosureIsExact, InventoryIsExact
<1>3. ASSUME NEW f \in File, DataIsStaged(w, f)'
      PROVE  dataKept'[w][f] = {"good"}
  <2>1. pc'[w] = "sync.files" => FilePassed(w, f)'
    BY <1>3 DEF DataIsStaged, FilePassed
  <2>2. data[w][f] = "good"
    BY <1>2 DEF Whole, ClosureIsExact
  <2>3. FilePassed(w, f) => dataKept[w][f] = {data[w][f]}
    BY <1>1, <2>2 DEF OnCourse, DataIsStaged, FilePassed
  <2>4. QED
    BY <2>1, <2>2, <2>3, FilesPass
<1>4. (\A e \in Entry : ~EntryIsStaged(w, e))'
  <2>1. \A i \in 1..(1 - 1) : FALSE
    OBVIOUS
  <2>2. QED
    BY <1>1, <2>1 DEF EntryIsStaged
<1>5. names'["staging"] = w /\ ~NamesAreSettled(w)' /\ pc'[w] \notin AfterRename \cup {"returned"}
  BY <1>1 DEF OnCourse, Holding, BeforeRename, AfterRename, NamesAreSettled
<1>6. QED
  BY <1>2, <1>3, <1>4, <1>5 DEF OnCourse

LEMMA SyncDirectoriesOnCourse ==
  ASSUME TypeOK, NEW w \in Publishers, OnCourse(w),
         SyncDirectories(w, "sync.dirs", "rename.check")
  PROVE  OnCourse(w)'
<1>1. /\ pc[w] = "sync.dirs" /\ pc'[w] \in {"sync.dirs", "rename.check"}
      /\ UNCHANGED <<names, namesKept, entry, data, dataKept, extra>>
  BY DirectoriesPass
<1>2. Whole(w) /\ Whole(w)'
  BY <1>1 DEF OnCourse, Measured, Whole, ClosureIsExact, InventoryIsExact
<1>3. ASSUME NEW e \in Entry, EntryIsStaged(w, e)'
      PROVE  entryKept'[w][e] = {"own"}
  <2>1. pc'[w] = "sync.dirs" => EntryPassed(w, e)'
    BY <1>3 DEF EntryIsStaged, EntryPassed
  <2>2. entry[w][e] = "own"
    BY <1>2 DEF Whole, ClosureIsExact
  <2>3. EntryPassed(w, e) => entryKept[w][e] = {entry[w][e]}
    BY <1>1, <2>2 DEF OnCourse, EntryIsStaged, EntryPassed
  <2>4. QED
    BY <2>1, <2>2, <2>3, DirectoriesPass
<1>4. \A f \in File : dataKept'[w][f] = {"good"}
  BY <1>1 DEF OnCourse, DataIsStaged
<1>5. names'["staging"] = w /\ ~NamesAreSettled(w)' /\ pc'[w] \notin AfterRename \cup {"returned"}
  BY <1>1 DEF OnCourse, Holding, BeforeRename, AfterRename, NamesAreSettled
<1>6. QED
  BY <1>2, <1>3, <1>4, <1>5 DEF OnCourse

\* The steps that move no name.
LEMMA WorkQuiet ==
  ASSUME TypeOK, Quiet, NEW w \in Publishers, PublisherStep(w),
         ~MakeStaging(w), ~Rename(w), ~SyncParent(w)
  PROVE  Quiet'
<1>1. /\ UNCHANGED <<names, namesKept, extra, renamed, crashes>>
      /\ \A v \in Publishers \ {w} :
           /\ pc'[v] = pc[v] /\ cursor'[v] = cursor[v] /\ TreeHolds(v)
  <2>1. UNCHANGED <<names, namesKept, extra, renamed, crashes>>
    BY StepKinds DEF Look, MakeDirectory, PinDirectory, OpenFile, WriteFile, FinishFile,
      ReopenStaged, SyncFiles, SyncDirectories, fsVars, envVars
  <2> SUFFICES ASSUME NEW v \in Publishers \ {w}
               PROVE  pc'[v] = pc[v] /\ cursor'[v] = cursor[v] /\ TreeHolds(v)
    BY <2>1
  <2>2. ASSUME NEW s \in Looks, Look(w, s[1], s[2])
        PROVE  pc'[v] = pc[v] /\ cursor'[v] = cursor[v] /\ TreeHolds(v)
    BY <2>2, FsHolds DEF Look, Goto, TypeOK
  <2>3. CASE MakeDirectory(w) \/ PinDirectory(w) \/ OpenFile(w)
    <3>1. pc'[v] = pc[v] /\ cursor'[v] = cursor[v]
      BY <2>3 DEF MakeDirectory, PinDirectory, OpenFile, Goto, TypeOK
    <3>2. entry'[v] = entry[v] /\ entryKept'[v] = entryKept[v]
      BY <2>3 DEF MakeDirectory, PinDirectory, OpenFile, BindEntry, TypeOK
    <3>3. QED
      BY <2>3, <3>1, <3>2 DEF MakeDirectory, PinDirectory, OpenFile, TreeHolds
  <2>4. CASE WriteFile(w) \/ FinishFile(w) \/ ReopenStaged(w)
    <3>1. pc'[v] = pc[v] /\ cursor'[v] = cursor[v]
      BY <2>4 DEF WriteFile, FinishFile, ReopenStaged, Goto, TypeOK
    <3>2. data'[v] = data[v] /\ dataKept'[v] = dataKept[v]
      BY <2>4 DEF WriteFile, FinishFile, ReopenStaged, WriteData, SyncFile, TypeOK, fsVars
    <3>3. QED
      BY <2>4, <3>1, <3>2 DEF WriteFile, FinishFile, ReopenStaged, TreeHolds, fsVars
  <2>5. ASSUME NEW from, NEW to, SyncFiles(w, from, to)
        PROVE  pc'[v] = pc[v] /\ cursor'[v] = cursor[v] /\ TreeHolds(v)
    BY <2>5 DEF SyncFiles, SyncFile, Goto, TypeOK, TreeHolds
  <2>6. ASSUME NEW from, NEW to, SyncDirectories(w, from, to)
        PROVE  pc'[v] = pc[v] /\ cursor'[v] = cursor[v] /\ TreeHolds(v)
    BY <2>6, SyncDirectoryType DEF SyncDirectories, Goto, TypeOK, TreeHolds
  <2>7. QED
    BY <2>2, <2>3, <2>4, <2>5, <2>6, StepKinds
<1>2. NamesAreSound'
  BY <1>1, SoundStays DEF Quiet, NamesAreSound
<1>3. RenamedStays'
  BY <1>1 DEF Quiet, RenamedStays
<1>4. ASSUME NEW v \in Publishers PROVE OnCourse(v)'
  <2>1. CASE v # w
    <3>1. OnCourse(v) /\ NamesHold(v)
      BY <1>1 DEF Quiet, NamesHold
    <3>2. QED
      BY <1>1, <2>1, <3>1, OtherOnCourse
  <2>2. CASE v = w
    <3> SUFFICES OnCourse(w)'
      BY <2>2
    <3>0. OnCourse(w)
      BY DEF Quiet
    <3>1. ASSUME NEW s \in Looks, Look(w, s[1], s[2])
          PROVE  OnCourse(w)'
      BY <3>0, <3>1, LookOnCourse
    <3>2. CASE \/ MakeDirectory(w) \/ PinDirectory(w) \/ OpenFile(w)
               \/ WriteFile(w) \/ FinishFile(w) \/ ReopenStaged(w)
      <4>1. /\ pc[w] \in Holding
            /\ pc'[w] \in {"dir.pin", "file.open", "file.write", "file.sync",
                          "staged.reopen", "staged.measure"}
        BY <3>2 DEF MakeDirectory, PinDirectory, OpenFile, WriteFile, FinishFile,
          ReopenStaged, Goto, TypeOK, Holding, BeforeRename
      <4>2. ~Measured(w)' /\ ~NamesAreSettled(w)' /\ pc'[w] \notin AfterRename \cup {"returned"}
        BY <4>1 DEF Measured, NamesAreSettled, AfterRename
      <4>3. names'["staging"] = w
        BY <1>1, <3>0, <4>1 DEF OnCourse
      <4>4. QED
        BY <4>2, <4>3, NamesOnCourse
    <3>3. CASE SyncFiles(w, "sync.files", "sync.dirs")
      BY <3>0, <3>3, SyncFilesOnCourse
    <3>4. CASE SyncDirectories(w, "sync.dirs", "rename.check")
      BY <3>0, <3>4, SyncDirectoriesOnCourse
    <3>5. CASE SyncFiles(w, "final.files", "final.dirs")
               \/ SyncDirectories(w, "final.dirs", "durable.measure")
      <4>1. /\ pc[w] \in {"final.files", "final.dirs"}
            /\ pc'[w] \in {"final.files", "final.dirs", "durable.measure"}
        BY <3>5, FilesPass, DirectoriesPass
      <4>2. NamesAreSettled(w) /\ pc[w] \in AfterRename /\ ~Measured(w)' /\ pc'[w] \notin Holding
        BY <4>1 DEF NamesAreSettled, AfterRename, Measured, Holding, BeforeRename
      <4>3. names'["final"] = w /\ \A b \in namesKept' : b["final"] = w
        BY <1>1, <3>0, <4>2 DEF OnCourse
      <4>4. QED
        BY <4>2, <4>3, NamesOnCourse
    <3>6. QED
      BY <3>1, <3>2, <3>3, <3>4, <3>5, StepKinds
  <2>3. QED
    BY <2>1, <2>2
<1>5. QED
  BY <1>2, <1>3, <1>4 DEF Quiet

\* A staging directory is made only where nobody holds one.
LEMMA MakeStagingQuiet ==
  ASSUME TypeOK, Quiet, NEW w \in Publishers, MakeStaging(w)
  PROVE  Quiet'
<1>1. /\ pc[w] = "mkdir" /\ names["staging"] = None
      /\ names' = [names EXCEPT !["staging"] = w] /\ namesKept' = namesKept \cup {names'}
      /\ UNCHANGED <<extra, renamed, crashes>>
  BY DEF MakeStaging, Admits, Rebind, envVars
<1>2. pc'[w] = "pin" /\ \A v \in Publishers \ {w} :
        pc'[v] = pc[v] /\ cursor'[v] = cursor[v] /\ TreeHolds(v)
  BY DEF MakeStaging, Goto, TypeOK, TreeHolds
<1>3. names'["staging"] = w /\ names'["final"] = names["final"]
  BY <1>1 DEF TypeOK, Names
<1>4. NamesAreSound'
  <2>1. \A b \in namesKept : Sound(b)'
    BY SoundStays DEF PublisherStep, Quiet, NamesAreSound
  <2>2. Sound(names) => Sound(names')
    BY <1>3 DEF Sound
  <2>3. Sound(names)'
    <3>1. Sound(names')
      BY <2>2 DEF Quiet, NamesAreSound
    <3>2. ASSUME NEW b, b = names', Sound(b) PROVE Sound(b)'
      BY <3>2, SoundStays DEF PublisherStep
    <3>3. QED
      BY <3>1, <3>2
  <2>4. QED
    BY <1>1, <1>3, <2>1, <2>3 DEF Quiet, NamesAreSound
<1>5. RenamedStays'
  BY <1>1, <1>3 DEF Quiet, RenamedStays
<1>6. ASSUME NEW v \in Publishers PROVE OnCourse(v)'
  <2>1. CASE v # w
    <3>1. OnCourse(v) /\ NamesHold(v)
      <4>1. OnCourse(v)
        BY DEF Quiet
      <4>2. pc[v] \notin Holding
        BY <1>1, <4>1 DEF OnCourse
      <4>3. NamesAreSettled(v) => names["final"] = v
        BY <4>1 DEF OnCourse, NamesAreSettled
      <4>4. QED
        BY <1>1, <1>3, <4>1, <4>2, <4>3 DEF NamesHold
    <3>2. QED
      BY <1>2, <2>1, <3>1, OtherOnCourse
  <2>2. CASE v = w
    <3>1. ~Measured(w)' /\ ~NamesAreSettled(w)' /\ pc'[w] \notin AfterRename \cup {"returned"}
      BY <1>2 DEF Measured, NamesAreSettled, AfterRename
    <3>2. QED
      BY <1>3, <2>2, <3>1, NamesOnCourse
  <2>3. QED
    BY <2>1, <2>2
<1>7. QED
  BY <1>4, <1>5, <1>6 DEF Quiet

\* The publisher that renames holds the staging name, and what it renames has
\* been measured and synchronized.
LEMMA RenameQuiet ==
  ASSUME TypeOK, Quiet, NEW w \in Publishers, Rename(w)
  PROVE  Quiet'
<1>1. /\ pc[w] = "rename" /\ names["final"] = None
      /\ names' = Moved /\ namesKept' = namesKept \cup {Moved}
      /\ renamed' = renamed \cup {w} /\ UNCHANGED <<extra, crashes>>
  BY DEF Rename, Admits, Rebind
<1>2. OnCourse(w) /\ names["staging"] = w /\ Whole(w) /\ Durable(w)
  <2>1. OnCourse(w)
    BY DEF Quiet
  <2>2. /\ pc[w] \in Holding /\ Measured(w)
        /\ \A f \in File : DataIsStaged(w, f)
        /\ \A e \in Entry : EntryIsStaged(w, e)
    BY <1>1 DEF Holding, BeforeRename, Measured, DataIsStaged, EntryIsStaged
  <2>3. QED
    BY <2>1, <2>2 DEF OnCourse, Durable
<1>3. names'["staging"] = None /\ names'["final"] = w
  BY <1>1, <1>2 DEF Moved, TypeOK, Names
<1>4. pc'[w] = "renamed" /\ \A v \in Publishers \ {w} :
        pc'[v] = pc[v] /\ cursor'[v] = cursor[v]
  BY DEF Rename, Goto, TypeOK
<1>5. \A v \in Publishers : TreeHolds(v)
  BY DEF Rename, TreeHolds
<1>6. NamesAreSound'
  <2>1. \A b \in namesKept : Sound(b)'
    BY SoundStays DEF PublisherStep, Quiet, NamesAreSound
  <2>2. Whole(w)' /\ Durable(w)'
    BY <1>2, <1>5 DEF TreeHolds, Whole, Durable, ClosureIsExact, InventoryIsExact
  <2>3. ASSUME NEW b, b["final"] = w PROVE Sound(b)'
    BY <1>4, <2>2, <2>3 DEF Sound, AfterRename
  <2>4. \A b \in namesKept : b["final"] = None
    BY <1>1 DEF Quiet, NamesAreSound
  <2>5. \A b \in namesKept' : Sound(b)'
    BY <1>1, <1>3, <2>1, <2>3
  <2>6. QED
    BY <1>1, <1>3, <2>4, <2>5 DEF NamesAreSound
<1>7. RenamedStays'
  <2>1. crashes = 0 => renamed = {}
    BY <1>1 DEF Quiet, RenamedStays, TypeOK
  <2>2. QED
    BY <1>1, <1>3, <2>1 DEF RenamedStays
<1>8. ASSUME NEW v \in Publishers PROVE OnCourse(v)'
  <2>1. CASE v # w
    <3>1. OnCourse(v)
      BY DEF Quiet
    <3>2. pc[v] \notin Holding /\ pc[v] \notin AfterRename \cup {"returned"}
      BY <1>1, <1>2, <2>1, <3>1 DEF OnCourse
    <3>3. NamesHold(v)
      BY <3>2 DEF NamesHold, NamesAreSettled
    <3>4. QED
      BY <1>4, <1>5, <2>1, <3>1, <3>3, OtherOnCourse
  <2>2. CASE v = w
    <3>1. ~Measured(w)' /\ ~NamesAreSettled(w)' /\ pc'[w] \notin Holding
      BY <1>4 DEF Measured, NamesAreSettled, Holding, BeforeRename
    <3>2. QED
      BY <1>3, <2>2, <3>1, NamesOnCourse
  <2>3. QED
    BY <2>1, <2>2
<1>9. QED
  BY <1>6, <1>7, <1>8 DEF Quiet

LEMMA SyncParentQuiet ==
  ASSUME TypeOK, Quiet, NEW w \in Publishers, SyncParent(w)
  PROVE  Quiet'
<1>1. /\ pc[w] = "parent.sync" /\ namesKept' = {names}
      /\ UNCHANGED <<names, renamed, crashes>>
  BY DEF SyncParent, envVars
<1>2. pc'[w] = "final.open" /\ \A v \in Publishers \ {w} :
        pc'[v] = pc[v] /\ cursor'[v] = cursor[v] /\ TreeHolds(v)
  BY DEF SyncParent, Goto, TypeOK, TreeHolds
<1>3. NamesAreSound'
  <2>1. \A b \in namesKept : Sound(b)'
    BY SoundStays DEF PublisherStep, Quiet, NamesAreSound
  <2>2. QED
    BY <1>1, <2>1 DEF Quiet, NamesAreSound
<1>4. RenamedStays'
  BY <1>1 DEF Quiet, RenamedStays
<1>5. ASSUME NEW v \in Publishers PROVE OnCourse(v)'
  <2>0. OnCourse(v)
    BY DEF Quiet
  <2>1. CASE v # w
    <3>1. NamesAreSettled(v) => names["final"] = v
      BY <2>0 DEF OnCourse, NamesAreSettled
    <3>2. NamesHold(v)
      BY <1>1, <3>1 DEF NamesHold
    <3>3. QED
      BY <1>2, <2>0, <2>1, <3>2, OtherOnCourse
  <2>2. CASE v = w
    <3>1. names["final"] = w
      BY <1>1, <2>0, <2>2 DEF OnCourse, AfterRename
    <3>2. ~Measured(w)' /\ pc'[w] \notin Holding
      BY <1>2 DEF Measured, Holding, BeforeRename
    <3>3. QED
      BY <1>1, <2>2, <3>1, <3>2, NamesOnCourse
  <2>3. QED
    BY <2>1, <2>2
<1>6. QED
  BY <1>3, <1>4, <1>5 DEF Quiet

\* A publisher that gives up leaves everything as it is.
LEMMA GiveUpQuiet ==
  ASSUME TypeOK, Quiet, NEW w \in Publishers, Refuse(w) \/ Fault(w)
  PROVE  Quiet'
<1>1. /\ pc'[w] = "refused" /\ UNCHANGED <<fsVars, cursor, renamed, crashes>>
      /\ \A v \in Publishers \ {w} : pc'[v] = pc[v]
  BY DEF Refuse, Fault, Goto, TypeOK, envVars
<1>2. UNCHANGED <<names, namesKept>> /\ \A v \in Publishers : TreeHolds(v)
  BY <1>1, FsHolds DEF fsVars
<1>3. ASSUME NEW b, Sound(b) PROVE Sound(b)'
  BY <1>1, <1>3 DEF Sound, Whole, Durable, ClosureIsExact, InventoryIsExact, fsVars, Ending
<1>4. NamesAreSound' /\ RenamedStays'
  BY <1>1, <1>2, <1>3 DEF Quiet, NamesAreSound, RenamedStays
<1>5. ASSUME NEW v \in Publishers PROVE OnCourse(v)'
  <2>1. CASE v # w
    <3>1. OnCourse(v) /\ NamesHold(v) /\ cursor'[v] = cursor[v]
      BY <1>1, <1>2 DEF Quiet, NamesHold
    <3>2. QED
      BY <1>1, <1>2, <2>1, <3>1, OtherOnCourse
  <2>2. CASE v = w
    <3>1. /\ ~Measured(w)' /\ ~NamesAreSettled(w)' /\ pc'[w] \notin Holding
          /\ pc'[w] \notin AfterRename \cup {"returned"}
      BY <1>1 DEF Measured, NamesAreSettled, Holding, BeforeRename, AfterRename
    <3>2. QED
      BY <2>2, <3>1, NamesOnCourse
  <2>3. QED
    BY <2>1, <2>2
<1>6. QED
  BY <1>4, <1>5 DEF Quiet

\* A crash leaves an older binding of the names; what that binding has at the
\* final name was synchronized before it got there.
LEMMA CrashQuiet ==
  ASSUME TypeOK, Quiet, Crash
  PROVE  Quiet'
<1>1. /\ names' \in namesKept /\ namesKept' = {names'} /\ extra' = extra
      /\ crashes' # 0
  BY DEF Crash, TypeOK
<1>2. \A v \in Publishers :
        /\ pc'[v] = (IF pc[v] \in Running \ {"preflight"} THEN "crashed" ELSE pc[v])
        /\ \A e \in Entry : entryKept'[v][e] = {entry'[v][e]}
        /\ \A f \in File : dataKept'[v][f] = {data'[v][f]}
  BY DEF Crash
<1>3. ASSUME NEW b, Sound(b) PROVE Sound(b)'
  <2> DEFINE v == b["final"]
  <2> SUFFICES ASSUME v # None
               PROVE  Whole(v)' /\ Durable(v)' /\ pc'[v] \in AfterRename \cup Ending
    BY <1>3 DEF Sound
  <2>1. v \in Publishers /\ Whole(v) /\ Durable(v) /\ pc[v] \in AfterRename \cup Ending
    BY <1>3 DEF Sound
  <2> HIDE DEF v
  <2>2. /\ \A e \in Entry : entry'[v][e] = "own"
        /\ \A f \in File : data'[v][f] = "good"
    BY <2>1, CrashKeeps DEF Durable
  <2>3. Whole(v)'
    <3>1. "dir" \in Entry
      BY DEF Entry
    <3>2. QED
      BY <1>1, <2>1, <2>2, <3>1 DEF Whole, ClosureIsExact, InventoryIsExact
  <2>4. Durable(v)'
    BY <1>2, <2>1, <2>2 DEF Durable
  <2>5. pc'[v] \in AfterRename \cup Ending
    BY <1>2, <2>1 DEF Ending
  <2>6. QED
    BY <2>3, <2>4, <2>5
<1>4. NamesAreSound' /\ RenamedStays'
  BY <1>1, <1>3 DEF Quiet, NamesAreSound, RenamedStays
<1>5. ASSUME NEW v \in Publishers PROVE OnCourse(v)'
  <2>1. OnCourse(v)
    BY DEF Quiet
  <2>2. pc'[v] \in {"preflight"} \cup Ending /\ (pc'[v] = "returned" => pc[v] = "returned")
    BY <1>2 DEF TypeOK, Ending
  <2>3. ~Measured(v)' /\ pc'[v] \notin Holding /\ pc'[v] \notin AfterRename
    BY <2>2 DEF Measured, Holding, BeforeRename, AfterRename, Ending
  <2>4. pc'[v] = "returned" => names'["final"] = v /\ \A b \in namesKept' : b["final"] = v
    BY <1>1, <2>1, <2>2 DEF OnCourse, NamesAreSettled
  <2>5. NamesAreSettled(v)' => pc'[v] = "returned"
    BY <2>3 DEF NamesAreSettled
  <2>6. QED
    BY <2>3, <2>4, <2>5, NamesOnCourse
<1>6. QED
  BY <1>4, <1>5 DEF Quiet

\* Nothing undoes an intervention.
LEMMA MeddlesGrow ==
  ASSUME TypeOK, [Next]_vars, meddles' = 0
  PROVE  meddles = 0 /\ ~Outside
<1>1. CASE Outside
  <2>1. Meddle
    BY <1>1 DEF Outside, MeddleData, MeddlePacket, MeddleEntry, MeddleExtra, MeddleName,
      MeddleParent
  <2>2. QED
    BY <2>1 DEF Meddle, TypeOK
<1>2. CASE \E w \in Publishers : PublisherStep(w)
  <2>1. PICK w \in Publishers : PublisherStep(w)
    BY <1>2
  <2>2. meddles' = meddles
    BY <2>1, StepKinds DEF Look, MakeStaging, MakeDirectory, PinDirectory, OpenFile, WriteFile,
      FinishFile, ReopenStaged, SyncFiles, SyncDirectories, Rename, SyncParent, envVars
  <2>3. QED
    BY <1>1, <2>2
<1>3. CASE Crash \/ Done \/ UNCHANGED vars \/ \E w \in Publishers : Refuse(w) \/ Fault(w)
  BY <1>1, <1>3 DEF Crash, Done, vars, Refuse, Fault, envVars
<1>4. QED
  BY <1>1, <1>2, <1>3 DEF Next

LEMMA StepQuiet == TypeOK /\ QuietInv /\ [Next]_vars => QuietInv'
<1> SUFFICES ASSUME TypeOK, QuietInv, [Next]_vars, meddles' = 0 PROVE Quiet'
  BY DEF QuietInv
<1>1. Quiet /\ ~Outside
  BY MeddlesGrow DEF QuietInv
<1>2. CASE \E w \in Publishers : PublisherStep(w)
  BY <1>1, <1>2, WorkQuiet, MakeStagingQuiet, RenameQuiet, SyncParentQuiet
<1>3. CASE \E w \in Publishers : Refuse(w) \/ Fault(w)
  BY <1>1, <1>3, GiveUpQuiet
<1>4. CASE Crash
  BY <1>1, <1>4, CrashQuiet
<1>5. CASE UNCHANGED vars
  BY <1>1, <1>5 DEF vars, Quiet, NamesAreSound, Sound, OnCourse, RenamedStays, Whole, Durable,
    ClosureIsExact, InventoryIsExact, NamesAreSettled, Measured, DataIsStaged, EntryIsStaged
<1>6. QED
  BY <1>1, <1>2, <1>3, <1>4, <1>5 DEF Next, Done

LEMMA InitQuiet == Init => QuietInv
<1> SUFFICES ASSUME Init PROVE Quiet
  BY DEF QuietInv
<1>1. names["final"] = None /\ namesKept = {names} /\ renamed = {}
  BY DEF Init
<1>2. NamesAreSound /\ RenamedStays
  BY <1>1 DEF NamesAreSound, Sound, RenamedStays
<1>3. ASSUME NEW v \in Publishers PROVE OnCourse(v)
  <2>1. pc[v] = "preflight"
    BY DEF Init
  <2>2. QED
    BY <2>1 DEF OnCourse, Holding, AfterRename, NamesAreSettled, Measured, DataIsStaged,
      EntryIsStaged
<1>4. QED
  BY <1>2, <1>3 DEF Quiet

LEMMA QuietAlways == Spec => []QuietInv
<1>1. QED
  BY InitQuiet, StepQuiet, TypeCorrect, PTL DEF Spec

\* While nobody outside interferes, the final name never shows anything but one
\* publisher's whole and durable packet, through every interleaving of the
\* publishers and every crash: publish_prepared_b4_terminal_evidence_transaction
\* measures and synchronizes the staged tree before the rename.
THEOREM FinalWhole == Spec => []FinalIsWhole
<1>1. QuietInv => FinalIsWhole
  BY DEF QuietInv, Quiet, NamesAreSound, Sound, FinalIsWhole
<1>2. QED
  BY <1>1, QuietAlways, PTL

\* Until a crash, every publisher whose rename went through still has its whole
\* packet at the final name, also if it failed after the rename.
THEOREM RenamedPublished == Spec => []RenamedIsPublished
<1>1. TypeOK /\ QuietInv => RenamedIsPublished
  <2> SUFFICES ASSUME TypeOK, Quiet, crashes = 0, NEW w \in renamed
               PROVE  names["final"] = w /\ Whole(w)
    BY DEF QuietInv, RenamedIsPublished
  <2>1. names["final"] = w /\ w # None
    BY DEF Quiet, RenamedStays, TypeOK
  <2>2. QED
    BY <2>1 DEF Quiet, NamesAreSound, Sound
<1>2. QED
  BY <1>1, QuietAlways, TypeCorrect, PTL

-----------------------------------------------------------------------------
\* The publisher implements CreateOnce

\* What each publisher was told: CreateOnce's variable outcome.
Told == [w \in Publishers |->
           CASE pc[w] = "returned" -> "won"
             [] pc[w] \in {"refused", "crashed"} -> "lost"
             [] OTHER -> "open"]

LEMMA ToldIs ==
  ASSUME TypeOK, NEW w \in Publishers
  PROVE  /\ pc[w] = "returned" => Told[w] = "won"
         /\ pc[w] \in {"refused", "crashed"} => Told[w] = "lost"
         /\ pc[w] \in Running => Told[w] = "open"
<1>1. pc[w] \in Running => pc[w] \notin Ending
  BY DEF Running, BeforeRename, AfterRename, Ending
<1>2. QED
  BY <1>1 DEF Told, Ending

\* A step of the publishers that tells nobody anything.
LEMMA ToldSame ==
  ASSUME TypeOK, TypeOK',
         \A v \in Publishers : pc'[v] = pc[v] \/ (pc[v] \in Running /\ pc'[v] \in Running)
  PROVE  Told' = Told
<1>1. ASSUME NEW v \in Publishers PROVE Told'[v] = Told[v]
  <2>1. CASE pc'[v] = pc[v]
    BY <2>1 DEF Told
  <2>2. CASE pc[v] \in Running /\ pc'[v] \in Running
    <3>1. Told[v] = "open"
      BY <2>2, ToldIs
    <3>2. Told'[v] = "open"
      <4>1. pc'[v] \notin Ending
        BY <2>2 DEF Running, BeforeRename, AfterRename, Ending
      <4>2. QED
        BY <4>1 DEF Told, Ending
    <3>3. QED
      BY <3>1, <3>2
  <2>3. QED
    BY <1>1, <2>1, <2>2
<1>2. QED
  BY <1>1 DEF Told

\* Those of S are told x, and nobody else anything.
LEMMA ToldNow ==
  ASSUME TypeOK, NEW S \in SUBSET Publishers, NEW x,
         \A v \in S : pc'[v] \in Ending /\ x = (IF pc'[v] = "returned" THEN "won" ELSE "lost"),
         \A v \in Publishers \ S : pc'[v] = pc[v]
  PROVE  Told' = [v \in Publishers |-> IF v \in S THEN x ELSE Told[v]]
<1>1. ASSUME NEW v \in Publishers
      PROVE  Told'[v] = IF v \in S THEN x ELSE Told[v]
  BY DEF Told, Ending
<1>2. QED
  BY <1>1 DEF Told

LEMMA OneToldNow ==
  ASSUME TypeOK, NEW w \in Publishers, NEW x, pc'[w] \in Ending,
         x = (IF pc'[w] = "returned" THEN "won" ELSE "lost"),
         \A v \in Publishers \ {w} : pc'[v] = pc[v]
  PROVE  Told' = [Told EXCEPT ![w] = x]
<1>1. \A v \in Publishers : Told'[v] = IF v = w THEN x ELSE Told[v]
  BY DEF Told, Ending
<1>2. QED
  BY <1>1 DEF Told

LEMMA PublisherImplements ==
  ASSUME TypeOK, TypeOK', Quiet, NEW w \in Publishers, PublisherStep(w)
  PROVE  [Once!OnceNext]_(Once!onceVars)
<1>1. ASSUME names'["final"] = names["final"], Told' = Told
      PROVE  UNCHANGED Once!onceVars
  BY <1>1 DEF Once!onceVars, Told
<1>2. CASE Rename(w)
  <2>1. names["final"] = None /\ names["staging"] = w /\ names' = Moved /\ pc[w] = "rename"
    <3>1. pc[w] = "rename" /\ names["final"] = None /\ names' = Moved
      BY <1>2 DEF Rename, Admits, Rebind
    <3>2. QED
      BY <3>1 DEF Quiet, OnCourse, Holding, BeforeRename
  <2>2. names'["final"] = w
    BY <2>1 DEF Moved, TypeOK, Names
  <2>3. Told' = Told /\ Told[w] = "open"
    <3>1. pc'[w] = "renamed" /\ \A v \in Publishers \ {w} : pc'[v] = pc[v]
      BY <1>2 DEF Rename, Goto, TypeOK
    <3>2. pc[w] \in Running /\ pc'[w] \in Running
      BY <2>1, <3>1 DEF Running, BeforeRename, AfterRename
    <3>3. QED
      BY <3>1, <3>2, ToldSame, ToldIs
  <2>4. Once!Publish(w)
    BY <2>1, <2>2, <2>3 DEF Once!Publish, Told
  <2>5. QED
    BY <2>4 DEF Once!OnceNext
<1>3. CASE Look(w, "authority", "returned")
  <2>1. /\ pc[w] = "authority" /\ names["final"] = w /\ names' = names
        /\ pc'[w] = "returned" /\ \A v \in Publishers \ {w} : pc'[v] = pc[v]
    BY <1>3 DEF Look, Admits, Goto, TypeOK, fsVars
  <2>3. Told' = [Told EXCEPT ![w] = "won"]
    BY <2>1, OneToldNow DEF Ending
  <2>4. Told[w] = "open"
    BY <2>1, ToldIs DEF Running, AfterRename
  <2>5. Once!Win(w)
    BY <2>1, <2>3, <2>4 DEF Once!Win, Told
  <2>6. QED
    BY <2>5 DEF Once!OnceNext
<1>4. ASSUME ~Rename(w), ~Look(w, "authority", "returned")
      PROVE  UNCHANGED Once!onceVars
  <2>1. names'["final"] = names["final"]
    BY <1>4, StepKinds DEF Look, MakeStaging, MakeDirectory, PinDirectory, OpenFile, WriteFile,
      FinishFile, ReopenStaged, SyncFiles, SyncDirectories, SyncParent, Rebind, fsVars,
      TypeOK, Names
  <2>2. pc[w] \in Running /\ pc'[w] \in Running /\ \A v \in Publishers \ {w} : pc'[v] = pc[v]
    <3>1. ASSUME NEW s \in Looks, Look(w, s[1], s[2])
          PROVE  pc[w] \in Running /\ pc'[w] \in Running
                 /\ \A v \in Publishers \ {w} : pc'[v] = pc[v]
      <4>1. s # <<"authority", "returned">>
        BY <1>4, <3>1
      <4>2. s[1] \in Running /\ s[2] \in Running
        BY <4>1 DEF Looks, Running, BeforeRename, AfterRename
      <4>3. QED
        BY <3>1, <4>2 DEF Look, Goto, TypeOK
    <3>2. CASE \/ MakeStaging(w) \/ MakeDirectory(w) \/ PinDirectory(w) \/ OpenFile(w)
               \/ WriteFile(w) \/ FinishFile(w) \/ ReopenStaged(w) \/ SyncParent(w)
      BY <3>2 DEF MakeStaging, MakeDirectory, PinDirectory, OpenFile, WriteFile,
        FinishFile, ReopenStaged, SyncParent, Goto, TypeOK, Running, BeforeRename, AfterRename
    <3>3. ASSUME NEW from \in Running, NEW to \in Running,
                 SyncFiles(w, from, to) \/ SyncDirectories(w, from, to)
          PROVE  pc[w] \in Running /\ pc'[w] \in Running
                 /\ \A v \in Publishers \ {w} : pc'[v] = pc[v]
      BY <3>3 DEF SyncFiles, SyncDirectories, Goto, TypeOK
    <3>4. {"sync.files", "sync.dirs", "final.files", "final.dirs", "rename.check",
           "durable.measure"} \subseteq Running
      BY DEF Running, BeforeRename, AfterRename
    <3>5. QED
      BY <1>4, <3>1, <3>2, <3>3, <3>4, StepKinds
  <2>3. Told' = Told
    BY <2>2, ToldSame
  <2>4. QED
    BY <1>1, <2>1, <2>3
<1>5. QED
  BY <1>2, <1>3, <1>4

LEMMA GiveUpImplements ==
  ASSUME TypeOK, NEW w \in Publishers, Refuse(w) \/ Fault(w)
  PROVE  Once!OnceNext
<1>1. /\ pc[w] \in Running /\ names' = names
      /\ pc'[w] = "refused" /\ \A v \in Publishers \ {w} : pc'[v] = pc[v]
  BY DEF Refuse, Fault, Goto, TypeOK, fsVars
<1>3. Told' = [Told EXCEPT ![w] = "lost"]
  BY <1>1, OneToldNow DEF Ending
<1>4. Told[w] = "open"
  BY <1>1, ToldIs
<1>5. Once!Lose(w)
  BY <1>1, <1>3, <1>4 DEF Once!Lose, Told
<1>6. QED
  BY <1>5 DEF Once!OnceNext

\* A crash takes back at most a publication whose publisher was told nothing.
LEMMA CrashImplements ==
  ASSUME TypeOK, TypeOK', Quiet, Crash
  PROVE  Once!OnceNext
<1>0. PICK S \in SUBSET Publishers :
        S = {w \in Publishers : pc[w] \in Running \ {"preflight"}}
  OBVIOUS
<1>1. /\ \A v \in S : pc'[v] = "crashed" /\ Told[v] = "open"
      /\ \A v \in Publishers \ S : pc'[v] = pc[v]
  BY <1>0, ToldIs DEF Crash
<1>2. Told' = [v \in Publishers |-> IF v \in S THEN "lost" ELSE Told[v]]
  BY <1>1, ToldNow DEF Ending
<1>3. names'["final"] = names["final"]
      \/ /\ names["final"] # None /\ names'["final"] = None
         /\ Told'[names["final"]] = "lost"
  <2>1. names' \in namesKept /\ names'["final"] \in {None, names["final"]}
    BY DEF Crash, Quiet, NamesAreSound
  <2> DEFINE v == names["final"]
  <2> SUFFICES ASSUME v # None, names'["final"] = None
               PROVE  Told'[v] = "lost"
    BY <2>1
  <2>2. v \in Publishers /\ pc[v] \in AfterRename \cup Ending
    BY DEF Quiet, NamesAreSound, Sound
  <2>3. pc[v] # "returned"
    BY <2>1, <2>2 DEF Quiet, OnCourse, NamesAreSettled
  <2> HIDE DEF v
  <2>4. CASE v \in S
    BY <1>2, <2>2, <2>4
  <2>5. CASE v \notin S
    <3>1. pc[v] \in {"refused", "crashed"}
      BY <1>0, <2>2, <2>3, <2>5 DEF Running, AfterRename, Ending
    <3>2. QED
      BY <1>2, <2>2, <2>5, <3>1, ToldIs
  <2>6. QED
    BY <2>4, <2>5
<1>4. Once!Forget(S)
  BY <1>1, <1>2, <1>3 DEF Once!Forget, Told
<1>5. QED
  BY <1>4 DEF Once!OnceNext

LEMMA StepImplements ==
  TypeOK /\ TypeOK' /\ QuietInv /\ [Next]_vars /\ (meddles = 0)'
    => [Once!OnceNext]_(Once!onceVars)
<1> SUFFICES ASSUME TypeOK, TypeOK', QuietInv, [Next]_vars, meddles' = 0
             PROVE  [Once!OnceNext]_(Once!onceVars)
  OBVIOUS
<1>1. Quiet /\ ~Outside
  BY MeddlesGrow DEF QuietInv
<1>2. CASE \E w \in Publishers : PublisherStep(w)
  BY <1>1, <1>2, PublisherImplements
<1>3. CASE \E w \in Publishers : Refuse(w) \/ Fault(w)
  BY <1>3, GiveUpImplements
<1>4. CASE Crash
  BY <1>1, <1>4, CrashImplements
<1>5. CASE UNCHANGED vars
  BY <1>5 DEF vars, Once!onceVars
<1>6. QED
  BY <1>1, <1>2, <1>3, <1>4, <1>5 DEF Next, Done

LEMMA InitImplements == Init => Once!OnceInit
<1> SUFFICES ASSUME Init PROVE Once!OnceInit
  OBVIOUS
<1>1. names["final"] = None
  BY DEF Init
<1>2. Told = [w \in Publishers |-> "open"]
  BY DEF Told, Init
<1>3. QED
  BY <1>1, <1>2 DEF Once!OnceInit, Told

\* A behaviour of the publishers that nobody outside interferes with is one of a
\* write-once destination: the rename publishes, returning authority tells the
\* winner, a refusal or fault the loser, and a crash takes back at most what
\* nobody was told of.
THEOREM PublisherIsCreateOnce ==
  Spec /\ [](meddles = 0) => ImplementsCreateOnce
<1>1. Spec => []TypeOK
  BY TypeCorrect
<1>2. Spec => []QuietInv
  BY QuietAlways
<1>3. QED
  BY <1>1, <1>2, InitImplements, StepImplements, PTL
     DEF Spec, ImplementsCreateOnce, Once!OnceSpec

=============================================================================
