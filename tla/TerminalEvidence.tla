-------------------------- MODULE TerminalEvidence --------------------------
(***************************************************************************)
(* The terminal-evidence packet publisher                                  *)
(* (reproduction/src/b4_terminal_evidence_io.rs): a packet of payloads,    *)
(* manifest and completion is written file by file into a reserved staging *)
(* directory, reopened, measured and synchronized, renamed without         *)
(* replacement to its final name, and then reopened, measured and          *)
(* synchronized once more before the publisher returns its authority.      *)
(*                                                                         *)
(* Several publishers may aim at one destination.  A party outside may     *)
(* rewrite files and restore them, replace entries by equal-looking ones,  *)
(* and move names; any call may fail; a crash keeps of every unsynchronized*)
(* change any or nothing.                                                  *)
(*                                                                         *)
(* A publisher's tree holds one directory with the payloads, and manifest  *)
(* and completion at top level.  "own" is the object the publisher has     *)
(* pinned, "twin" another object that looks the same.  A reopen and a      *)
(* measurement are one step each; PacketReopen models the walk.            *)
(***************************************************************************)
EXTENDS Naturals, Sequences, FiniteSets

CONSTANTS
  Publishers,
  Payloads,     \* the payload files, as a sequence in visitation order
  None,         \* an unbound name
  Outsider,     \* the root directory of somebody else
  ByPath,       \* the parent was pinned by path, not by descriptor
  MaxMeddles,   \* bound: interventions from outside
  MaxFaults,    \* bound: calls that fail
  MaxCrashes    \* bound: crashes

PayloadSet == {Payloads[i] : i \in 1..Len(Payloads)}
FileOrder == Payloads \o <<"manifest", "completion">>
File == PayloadSet \cup {"manifest", "completion"}
Entry == File \cup {"dir"}
Root == Publishers \cup {Outsider, None}
Names == [{"staging", "final"} -> Root]

ASSUME PublisherAssumption ==
  /\ None \notin Publishers /\ Outsider \notin Publishers /\ None # Outsider
  /\ ByPath \in BOOLEAN

ASSUME PayloadAssumption ==
  /\ Payloads \in Seq(STRING)
  /\ Len(Payloads) >= 1
  /\ \A i, j \in 1..Len(Payloads) : Payloads[i] = Payloads[j] => i = j
  /\ PayloadSet \cap {"manifest", "completion", "dir"} = {}

ASSUME BoundAssumption ==
  MaxMeddles \in Nat /\ MaxFaults \in Nat /\ MaxCrashes \in Nat

Binding == {"absent", "own", "twin"}

\* "torn" is anything but the prepared bytes or those of another valid packet.
Data == {"torn", "good", "other"}

\* directory_order reversed, then the root, as sync_directory takes them.
SyncOrder == <<"dir", "root">>

EntriesOf(d) == IF d = "dir" THEN PayloadSet ELSE {"dir", "manifest", "completion"}

BeforeRename ==
  {"preflight", "mkdir", "pin", "dir.make", "dir.pin", "file.open",
   "file.write", "file.sync", "staged.reopen", "staged.measure",
   "sync.files", "sync.dirs", "rename.check", "rename"}

AfterRename ==
  {"renamed", "parent.sync", "final.open", "final.reopen", "final.measure",
   "final.files", "final.dirs", "durable.measure", "authority"}

Running == BeforeRename \cup AfterRename

VARIABLES
  \* the filesystem
  names,       \* the roots at the staging and the final name
  entry,       \* entry[w][e]: what is bound in w's tree
  data,        \* data[w][f]: the bytes of the file w made
  extra,       \* the publishers whose tree has a name nobody compiled
  parentNamed, \* the path still reaches the pinned parent
  \* what a crash may leave of it
  namesKept, entryKept, dataKept,
  \* the publishers
  pc, cursor,
  staged,      \* staged[w]: identity of the packet at the staged reopen
  renamed,     \* the publishers whose flag renamed is up
  \* history and environment
  late,        \* publishers of whose packet something was changed after they
               \* had synchronized it for the last time
  meddles, faults, crashes

fsVars == <<names, entry, data, extra, parentNamed, namesKept, entryKept, dataKept>>
envVars == <<late, meddles, faults, crashes>>
vars == <<names, entry, data, extra, parentNamed, namesKept, entryKept,
          dataKept, pc, cursor, staged, renamed, late, meddles, faults, crashes>>

\* Every variable has its type.
TypeOK ==
  /\ names \in Names
  /\ entry \in [Publishers -> [Entry -> Binding]]
  /\ data \in [Publishers -> [File -> Data]]
  /\ extra \in SUBSET Publishers
  /\ parentNamed \in BOOLEAN
  /\ namesKept \in SUBSET Names
  /\ entryKept \in [Publishers -> [Entry -> SUBSET Binding]]
  /\ dataKept \in [Publishers -> [File -> SUBSET Data]]
  /\ pc \in [Publishers -> Running \cup {"returned", "refused", "crashed"}]
  /\ cursor \in [Publishers -> 1..Len(FileOrder)]
  /\ staged \in [Publishers -> Data]
  /\ renamed \in SUBSET Publishers
  /\ late \in SUBSET Publishers
  /\ meddles \in 0..MaxMeddles
  /\ faults \in 0..MaxFaults
  /\ crashes \in 0..MaxCrashes

Init ==
  /\ names = [n \in {"staging", "final"} |-> None]
  /\ entry = [w \in Publishers |-> [e \in Entry |-> "absent"]]
  /\ data = [w \in Publishers |-> [f \in File |-> "torn"]]
  /\ extra = {}
  /\ parentNamed = TRUE
  /\ namesKept = {names}
  /\ entryKept = [w \in Publishers |-> [e \in Entry |-> {"absent"}]]
  /\ dataKept = [w \in Publishers |-> [f \in File |-> {"torn"}]]
  /\ pc = [w \in Publishers |-> "preflight"]
  /\ cursor = [w \in Publishers |-> 1]
  /\ staged = [w \in Publishers |-> "torn"]
  /\ renamed = {}
  /\ late = {}
  /\ meddles = 0 /\ faults = 0 /\ crashes = 0

-----------------------------------------------------------------------------
\* What the publisher sees

\* PinnedPublicationParent::reauthenticate
Reauthenticated == ByPath => parentNamed

\* The exact inventory; below a replaced directory everything is replaced.
InventoryIsExact(w) ==
  /\ w \notin extra
  /\ \A e \in Entry :
       entry[w][e] # "absent" \/ (e \in PayloadSet /\ entry[w]["dir"] = "twin")

IsOwn(w, f) ==
  /\ entry[w][f] = "own"
  /\ f \in PayloadSet => entry[w]["dir"] = "own"

\* The bytes a reader finds under f; those of a twin are the prepared ones.
Seen(w, f) == IF IsOwn(w, f) THEN data[w][f] ELSE "good"

\* What a reopen accepts: an exact inventory that is one valid packet.
ReopensAs(w, packet) ==
  /\ InventoryIsExact(w)
  /\ packet \in {"good", "other"}
  /\ \A f \in File : Seen(w, f) = packet

\* PublicationPhysicalClosure::measure together with the comparison of the
\* objects and digests with those written (verify_written_physical_closure)
\* or staged (names_the_same_objects_as).
ClosureIsExact(w) ==
  /\ InventoryIsExact(w)
  /\ \A e \in Entry : entry[w][e] = "own"
  /\ \A f \in File : data[w][f] = "good"

-----------------------------------------------------------------------------
\* What the filesystem does

\* A change of a name in the parent may or may not survive a crash.
Rebind(binding) ==
  /\ names' = binding
  /\ namesKept' = namesKept \cup {binding}

BindEntry(w, e, b) ==
  /\ entry' = [entry EXCEPT ![w][e] = b]
  /\ entryKept' = [entryKept EXCEPT ![w][e] = @ \cup {b}]

WriteData(w, f, d) ==
  /\ data' = [data EXCEPT ![w][f] = d]
  /\ dataKept' = [dataKept EXCEPT ![w][f] = @ \cup {d}]

\* Mutant: flush without sync_all.
SyncFileFlushesOnly(w, f) == dataKept' = dataKept

SyncFile(w, f) == dataKept' = [dataKept EXCEPT ![w][f] = {data[w][f]}]

\* Mutant: only the root is synchronized.
SyncDirectoryRootOnly(w, d) ==
  entryKept' = [entryKept EXCEPT ![w] =
    [e \in Entry |-> IF d = "root" /\ e \in EntriesOf(d) THEN {entry[w][e]} ELSE @[e]]]

SyncDirectory(w, d) ==
  entryKept' = [entryKept EXCEPT ![w] =
    [e \in Entry |-> IF e \in EntriesOf(d) THEN {entry[w][e]} ELSE @[e]]]

-----------------------------------------------------------------------------
\* The publisher

Goto(w, step) == pc' = [pc EXCEPT ![w] = step]

\* The steps that reauthenticate the parent before or after what they do.
Reauthenticating ==
  {"preflight", "mkdir", "pin", "staged.reopen", "rename.check", "renamed",
   "final.open", "final.reopen", "final.measure", "authority"}

\* Every ensure! and every call that fails on what it finds.
Admits(w) ==
  /\ pc[w] \in Reauthenticating => Reauthenticated
  /\ pc[w] = "preflight" => names["staging"] = None /\ names["final"] = None
  /\ pc[w] = "mkdir" => names["staging"] = None
  /\ pc[w] \in {"pin", "rename.check"} => names["staging"] = w
  /\ pc[w] = "dir.make" => entry[w]["dir"] = "absent"
  /\ pc[w] = "dir.pin" => entry[w]["dir"] # "absent"
  /\ pc[w] = "file.open" => entry[w][FileOrder[cursor[w]]] = "absent"
  /\ pc[w] = "file.sync" => data[w][FileOrder[cursor[w]]] # "torn"
  /\ pc[w] = "staged.reopen" => \E packet \in Data : ReopensAs(w, packet)
  /\ pc[w] = "final.reopen" => ReopensAs(w, staged[w])
  /\ pc[w] \in {"staged.measure", "final.measure", "durable.measure", "authority"}
       => ClosureIsExact(w)
  /\ pc[w] = "rename" => names["staging"] # None /\ names["final"] = None
  /\ pc[w] \in {"final.open", "authority"} => names["staging"] = None
  /\ pc[w] \in {"final.open", "final.measure", "authority"} => names["final"] = w

\* A step that only looks.
Look(w, from, to) ==
  /\ pc[w] = from
  /\ Admits(w)
  /\ Goto(w, to)
  /\ cursor' = [cursor EXCEPT ![w] = 1]
  /\ UNCHANGED <<fsVars, envVars, staged, renamed>>

\* preflight_pinned_b4_terminal_evidence_publication, and the preparation of
\* the image, which touches nothing.
Preflight(w) == Look(w, "preflight", "mkdir")

MakeStaging(w) ==
  /\ pc[w] = "mkdir"
  /\ Admits(w)
  /\ Rebind([names EXCEPT !["staging"] = w])
  /\ Goto(w, "pin")
  /\ UNCHANGED <<entry, data, extra, parentNamed, entryKept, dataKept,
                 envVars, cursor, staged, renamed>>

\* The directory opened must be the one named; it is the publisher's root from
\* here on, whoever put it there.
PinStaging(w) == Look(w, "pin", "dir.make")

\* create_payload_parent_directories
MakeDirectory(w) ==
  /\ pc[w] = "dir.make"
  /\ Admits(w)
  /\ BindEntry(w, "dir", "own")
  /\ Goto(w, "dir.pin")
  /\ UNCHANGED <<names, data, extra, parentNamed, namesKept, dataKept,
                 envVars, cursor, staged, renamed>>

\* openat after mkdirat pins whatever is there now.
PinDirectory(w) ==
  /\ pc[w] = "dir.pin"
  /\ Admits(w)
  /\ entry' = [entry EXCEPT ![w]["dir"] = "own"]
  /\ entryKept' = [entryKept EXCEPT ![w]["dir"] = {"absent", "own"}]
  /\ Goto(w, "file.open")
  /\ UNCHANGED <<names, data, extra, parentNamed, namesKept, dataKept,
                 envVars, cursor, staged, renamed>>

\* write_and_sync_publication_file: openat(O_CREAT|O_EXCL), write_all, sync_all
\* and the length of what was synchronized.
OpenFile(w) ==
  /\ pc[w] = "file.open"
  /\ Admits(w)
  /\ BindEntry(w, FileOrder[cursor[w]], "own")
  /\ Goto(w, "file.write")
  /\ UNCHANGED <<names, data, extra, parentNamed, namesKept, dataKept,
                 envVars, cursor, staged, renamed>>

WriteFile(w) ==
  /\ pc[w] = "file.write"
  /\ WriteData(w, FileOrder[cursor[w]], "good")
  /\ Goto(w, "file.sync")
  /\ UNCHANGED <<names, entry, extra, parentNamed, namesKept, entryKept,
                 envVars, cursor, staged, renamed>>

\* Mutant: the index runs past the last file.
FinishFileOverrun(w) ==
  /\ pc[w] = "file.sync"
  /\ Admits(w)
  /\ SyncFile(w, FileOrder[cursor[w]])
  /\ cursor' = [cursor EXCEPT ![w] = @ + 1]
  /\ Goto(w, IF cursor[w] < Len(FileOrder) THEN "file.open" ELSE "staged.reopen")
  /\ UNCHANGED <<names, entry, data, extra, parentNamed, namesKept, entryKept,
                 envVars, staged, renamed>>

FinishFile(w) ==
  /\ pc[w] = "file.sync"
  /\ Admits(w)
  /\ SyncFile(w, FileOrder[cursor[w]])
  /\ \/ /\ cursor[w] < Len(FileOrder)
        /\ cursor' = [cursor EXCEPT ![w] = @ + 1]
        /\ Goto(w, "file.open")
     \/ /\ cursor[w] = Len(FileOrder)
        /\ cursor' = [cursor EXCEPT ![w] = 1]
        /\ Goto(w, "staged.reopen")
  /\ UNCHANGED <<names, entry, data, extra, parentNamed, namesKept, entryKept,
                 envVars, staged, renamed>>

ReopenStaged(w) ==
  /\ pc[w] = "staged.reopen"
  /\ Admits(w)
  /\ \E packet \in Data :
       /\ ReopensAs(w, packet)
       /\ staged' = [staged EXCEPT ![w] = packet]
  /\ Goto(w, "staged.measure")
  /\ UNCHANGED <<fsVars, envVars, cursor, renamed>>

MeasureStaged(w) == Look(w, "staged.measure", "sync.files")

\* sync_retained_files and sync_retained_files_for_final_durability: the handle
\* of every file the publisher wrote, wherever its name is now.
SyncFiles(w, from, to) ==
  /\ pc[w] = from
  /\ SyncFile(w, FileOrder[cursor[w]])
  /\ \/ /\ cursor[w] < Len(FileOrder)
        /\ cursor' = [cursor EXCEPT ![w] = @ + 1]
        /\ UNCHANGED pc
     \/ /\ cursor[w] = Len(FileOrder)
        /\ cursor' = [cursor EXCEPT ![w] = 1]
        /\ Goto(w, to)
  /\ UNCHANGED <<names, entry, data, extra, parentNamed, namesKept, entryKept,
                 envVars, staged, renamed>>

\* The directories in reverse order of creation, then the root.
SyncDirectories(w, from, to) ==
  /\ pc[w] = from
  /\ SyncDirectory(w, SyncOrder[cursor[w]])
  /\ \/ /\ cursor[w] < Len(SyncOrder)
        /\ cursor' = [cursor EXCEPT ![w] = @ + 1]
        /\ UNCHANGED pc
     \/ /\ cursor[w] = Len(SyncOrder)
        /\ cursor' = [cursor EXCEPT ![w] = 1]
        /\ Goto(w, to)
  /\ UNCHANGED <<names, entry, data, extra, parentNamed, namesKept, dataKept,
                 envVars, staged, renamed>>

CheckRename(w) == Look(w, "rename.check", "rename")

\* The publisher has synchronized the parent for the last time.
NamesAreSettled(w) ==
  pc[w] \in (AfterRename \ {"renamed", "parent.sync"}) \cup {"returned"}

\* rename_publication_create_only: whatever is at the staging name by now.
Moved == [names EXCEPT !["staging"] = None, !["final"] = names["staging"]]

\* Mutant: rename without NOREPLACE.
RenameReplacing(w) ==
  /\ pc[w] = "rename"
  /\ names["staging"] # None
  /\ Rebind(Moved)
  /\ renamed' = renamed \cup {w}
  /\ Goto(w, "renamed")
  /\ UNCHANGED <<entry, data, extra, parentNamed, entryKept, dataKept,
                 envVars, cursor, staged>>

\* If the staging name was tampered with, that may be the tree of somebody who
\* has synchronized the parent before.
Rename(w) ==
  /\ pc[w] = "rename"
  /\ Admits(w)
  /\ Rebind(Moved)
  /\ renamed' = renamed \cup {w}
  /\ late' = late \cup {v \in Publishers : NamesAreSettled(v)}
  /\ Goto(w, "renamed")
  /\ UNCHANGED <<entry, data, extra, parentNamed, entryKept, dataKept,
                 meddles, faults, crashes, cursor, staged>>

CheckRenamed(w) == Look(w, "renamed", "parent.sync")

\* Mutant: the parent is not synchronized.
SkipParent(w) ==
  /\ pc[w] = "parent.sync"
  /\ Goto(w, "final.open")
  /\ UNCHANGED <<fsVars, envVars, cursor, staged, renamed>>

SyncParent(w) ==
  /\ pc[w] = "parent.sync"
  /\ namesKept' = {names}
  /\ Goto(w, "final.open")
  /\ UNCHANGED <<names, entry, data, extra, parentNamed, entryKept, dataKept,
                 envVars, cursor, staged, renamed>>

OpenFinal(w) == Look(w, "final.open", "final.reopen")
ReopenFinal(w) == Look(w, "final.reopen", "final.measure")
MeasureFinal(w) == Look(w, "final.measure", "final.files")
MeasureDurable(w) == Look(w, "durable.measure", "authority")
ReturnAuthority(w) == Look(w, "authority", "returned")

PublisherStep(w) ==
  \/ Preflight(w) \/ MakeStaging(w) \/ PinStaging(w)
  \/ MakeDirectory(w) \/ PinDirectory(w)
  \/ OpenFile(w) \/ WriteFile(w) \/ FinishFile(w)
  \/ ReopenStaged(w) \/ MeasureStaged(w)
  \/ SyncFiles(w, "sync.files", "sync.dirs")
  \/ SyncDirectories(w, "sync.dirs", "rename.check")
  \/ CheckRename(w) \/ Rename(w) \/ CheckRenamed(w) \/ SyncParent(w)
  \/ OpenFinal(w) \/ ReopenFinal(w) \/ MeasureFinal(w)
  \/ SyncFiles(w, "final.files", "final.dirs")
  \/ SyncDirectories(w, "final.dirs", "durable.measure")
  \/ MeasureDurable(w) \/ ReturnAuthority(w)

\* A check or call fails on what it finds: the staging tree stays as it is.
Refuse(w) ==
  /\ pc[w] \in Running
  /\ ~Admits(w)
  /\ Goto(w, "refused")
  /\ UNCHANGED <<fsVars, envVars, cursor, staged, renamed>>

\* A system call fails for a reason of its own.
Fault(w) ==
  /\ pc[w] \in Running
  /\ faults < MaxFaults
  /\ faults' = faults + 1
  /\ Goto(w, "refused")
  /\ UNCHANGED <<fsVars, cursor, staged, renamed, late, meddles, crashes>>

-----------------------------------------------------------------------------
\* The outsider

Unmoved == <<pc, cursor, staged, renamed, faults, crashes>>

\* The publisher has synchronized it for the last time.
DataIsSettled(w, f) ==
  \/ pc[w] \in {"final.dirs", "durable.measure", "authority", "returned"}
  \/ pc[w] = "final.files" /\ \E i \in 1..(cursor[w] - 1) : FileOrder[i] = f

EntryIsSettled(w, e) ==
  \/ pc[w] \in {"durable.measure", "authority", "returned"}
  \/ pc[w] = "final.dirs"
     /\ \E i \in 1..(cursor[w] - 1) : e \in EntriesOf(SyncOrder[i])

Meddle ==
  /\ meddles < MaxMeddles
  /\ meddles' = meddles + 1
  /\ UNCHANGED Unmoved

MeddleData(w, f, d) ==
  /\ Meddle
  /\ entry[w][f] = "own"
  /\ d # data[w][f]
  /\ WriteData(w, f, d)
  /\ late' = IF DataIsSettled(w, f) THEN late \cup {w} ELSE late
  /\ UNCHANGED <<names, entry, extra, parentNamed, namesKept, entryKept>>

\* Every file is rewritten in place: another valid packet, or the first again.
MeddlePacket(w, d) ==
  /\ Meddle
  /\ \A e \in Entry : entry[w][e] = "own"
  /\ data' = [data EXCEPT ![w] = [f \in File |-> d]]
  /\ dataKept' = [dataKept EXCEPT ![w] = [f \in File |-> @[f] \cup {d}]]
  /\ late' = IF \E f \in File : DataIsSettled(w, f) THEN late \cup {w} ELSE late
  /\ UNCHANGED <<names, entry, extra, parentNamed, namesKept, entryKept>>

\* An entry is removed, replaced by a look-alike, or put back.
MeddleEntry(w, e, b) ==
  /\ Meddle
  /\ w \in {names["staging"], names["final"]}
  /\ b # entry[w][e]
  /\ b = "own" => "own" \in entryKept[w][e]
  /\ BindEntry(w, e, b)
  /\ late' = IF EntryIsSettled(w, e) THEN late \cup {w} ELSE late
  /\ UNCHANGED <<names, data, extra, parentNamed, namesKept, dataKept>>

MeddleExtra(w) ==
  /\ Meddle
  /\ w \in {names["staging"], names["final"]}
  /\ extra' = IF w \in extra THEN extra \ {w} ELSE extra \cup {w}
  /\ late' = IF EntryIsSettled(w, "manifest") THEN late \cup {w} ELSE late
  /\ UNCHANGED <<names, entry, data, parentNamed, namesKept, entryKept, dataKept>>

\* A name is freed, taken, or given back to a tree moved away before.
MeddleName(n, r) ==
  /\ Meddle
  /\ r # names[n]
  /\ r \in Publishers => /\ r \notin {names["staging"], names["final"]}
                         /\ \E b \in namesKept : r \in {b["staging"], b["final"]}
  /\ Rebind([names EXCEPT ![n] = r])
  /\ late' = late \cup {w \in Publishers : NamesAreSettled(w)}
  /\ UNCHANGED <<entry, data, extra, parentNamed, entryKept, dataKept>>

MeddleParent ==
  /\ Meddle
  /\ parentNamed' = ~parentNamed
  /\ UNCHANGED <<names, entry, data, extra, namesKept, entryKept, dataKept, late>>

Outside ==
  \/ \E w \in Publishers, f \in File, d \in Data : MeddleData(w, f, d)
  \/ \E w \in Publishers, d \in {"good", "other"} : MeddlePacket(w, d)
  \/ \E w \in Publishers, e \in Entry, b \in Binding : MeddleEntry(w, e, b)
  \/ \E w \in Publishers : MeddleExtra(w)
  \/ \E n \in {"staging", "final"}, r \in Root : MeddleName(n, r)
  \/ MeddleParent

-----------------------------------------------------------------------------
\* A crash

Survivors(w, kept, D, V) == {g \in [D -> V] : \A x \in D : g[x] \in kept[w][x]}

Crash ==
  /\ crashes < MaxCrashes
  /\ crashes' = crashes + 1
  /\ names' \in namesKept
  /\ LET entries(w) == Survivors(w, entryKept, Entry, Binding)
         contents(w) == Survivors(w, dataKept, File, Data)
     IN /\ entry' \in {g \in [Publishers -> UNION {entries(w) : w \in Publishers}] :
                         \A w \in Publishers : g[w] \in entries(w)}
        /\ data' \in {g \in [Publishers -> UNION {contents(w) : w \in Publishers}] :
                        \A w \in Publishers : g[w] \in contents(w)}
  /\ namesKept' = {names'}
  /\ entryKept' = [w \in Publishers |-> [e \in Entry |-> {entry'[w][e]}]]
  /\ dataKept' = [w \in Publishers |-> [f \in File |-> {data'[w][f]}]]
  /\ pc' = [w \in Publishers |->
              IF pc[w] \in Running \ {"preflight"} THEN "crashed" ELSE pc[w]]
  /\ UNCHANGED <<extra, parentNamed, cursor, staged, renamed, late, meddles, faults>>

Ended == \A w \in Publishers : pc[w] \in {"returned", "refused", "crashed"}

Done == Ended /\ UNCHANGED vars

Next ==
  \/ \E w \in Publishers : PublisherStep(w) \/ Refuse(w) \/ Fault(w)
  \/ Outside
  \/ Crash
  \/ Done

Spec == Init /\ [][Next]_vars

-----------------------------------------------------------------------------
\* Properties

Whole(w) == ClosureIsExact(w)

Durable(w) ==
  /\ \A e \in Entry : entryKept[w][e] = {"own"}
  /\ \A f \in File : dataKept[w][f] = {"good"}

\* While nobody outside interferes, what the final name denotes is one
\* publisher's whole packet, and no crash can tear it any more: everything is
\* synchronized before the rename (sync_retained_files, sync_directory).
FinalIsWhole ==
  meddles = 0 /\ names["final"] # None
    => Whole(names["final"]) /\ Durable(names["final"])

\* Authority is returned only for a packet that is whole, published and cannot
\* be lost in a crash, even if it was altered, replaced or renamed and put
\* back, by an outsider or by the rename of a deceived publisher, at any time
\* before the publisher synchronized it for the last time.
ReturnedIsDurable ==
  \A w \in Publishers :
    pc[w] = "returned" /\ w \notin late
      => /\ Whole(w) /\ Durable(w)
         /\ \A b \in namesKept : b["final"] = w

\* A failure after the rename leaves one complete packet at the final name: the
\* caller gets an error, and no other publisher can take the destination.
RenamedIsPublished ==
  meddles = 0 /\ crashes = 0
    => \A w \in renamed : names["final"] = w /\ Whole(w)

\* The packet publisher implements a write-once destination.
Once == INSTANCE CreateOnce WITH
  Writers <- Publishers,
  None <- None,
  published <- names["final"],
  outcome <- [w \in Publishers |->
                CASE pc[w] = "returned" -> "won"
                  [] pc[w] \in {"refused", "crashed"} -> "lost"
                  [] OTHER -> "open"]

ImplementsCreateOnce == Once!OnceSpec

\* publication_two_writer_barrier_has_exactly_one_winner_and_immutable_bytes:
\* of two undisturbed publishers one returns.
SomePublisherWins ==
  (\A w \in Publishers : pc[w] \in {"returned", "refused"})
    => \E w \in Publishers : pc[w] = "returned"
=============================================================================
