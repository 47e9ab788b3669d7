--------------------------- MODULE RootfsPhysical ---------------------------
(***************************************************************************)
(* One private physical OCI root filesystem                                *)
(* (oci_image_layout_import/rootfs/physical.rs): the finalizer makes a     *)
(* staging directory beside the destination, materializes the projected    *)
(* tree entry by entry, seals it from the leaves up, retains it, and at    *)
(* last reopens and unlinks it again.  Every failure after the first named *)
(* effect leads into the same cleanup, and a cleanup that cannot finish    *)
(* hands back custody with which it may be retried.                        *)
(*                                                                         *)
(* The journal (phase, ident, created) says what the finalizer believes;   *)
(* name, look and extra are the filesystem.  A party outside may change    *)
(* the filesystem between any two steps and any call may fail, so the two  *)
(* can come apart.                                                         *)
(*                                                                         *)
(* The finalizer makes at most one object for each journal position: the   *)
(* object p is the one it made for position p, and objects beyond N are    *)
(* the outsider's.  Inode numbers are not reused.                          *)
(***************************************************************************)
EXTENDS Naturals, FiniteSets

CONSTANTS
  N,          \* entries of the authenticated live projection
  Kind,       \* Kind[p]: "dir", "file" or "link"
  Parent,     \* Parent[p]: the position of its directory, 0 for the root
  NumDirs,    \* directories among the entries
  SealOrder,  \* directory_seal_order: those directories, deepest first
  None,       \* no object
  MaxMeddles, \* bound: interventions from outside
  MaxFaults   \* bound: calls that fail

Entry == 1..N
Node == 0..N
Object == 0..(N + MaxMeddles)
Dirs == {p \in Entry : Kind[p] = "dir"}

ASSUME SizeAssumption ==
  N \in Nat /\ NumDirs \in Nat /\ MaxMeddles \in Nat /\ MaxFaults \in Nat

ASSUME PlanAssumption ==
  /\ Kind \in [Entry -> {"dir", "file", "link"}]
  /\ Parent \in [Entry -> Node]
  /\ \A p \in Entry :
       Parent[p] < p /\ (Parent[p] # 0 => Kind[Parent[p]] = "dir")

ASSUME SealOrderAssumption ==
  /\ SealOrder \in [1..NumDirs -> Entry]
  /\ {SealOrder[i] : i \in 1..NumDirs} = Dirs
  /\ \A i, j \in 1..NumDirs :
       /\ SealOrder[i] = SealOrder[j] => i = j
       /\ Parent[SealOrder[i]] = SealOrder[j] => i < j

ASSUME NoneAssumption == None \notin Nat

\* MaterializedEntryPhaseV1.  "creator" is RegularCreatorFd; "identified" and
\* "complete" are Identified with the flag sealed or complete down or up.
EntryPhase == {"planned", "named", "creator", "identified", "complete"}

Pinned == {"identified", "complete"}

\* What the code can see of an object.  Of a directory: "rough" mode 0700,
\* "whole" mode 0555 and zero mtime, "tainted" mode 0555 and another mtime,
\* "odd" another mode.  Of a file or link: "whole" is exactly as projected,
\* "rough" not yet and "tainted" no longer (bytes, mode or mtime), "odd" has a
\* second link and "unlinked" none.
Look == {"rough", "whole", "tainted", "odd", "unlinked"}

BeforeEffect == {"preflight", "root.mkdir"}

Building ==
  {"root.open", "entry.make", "entry.pin", "entry.fill", "entry.settle",
   "seal", "seal.check", "root.seal", "root.seal.check", "final.check",
   "materialized"}

Cleaning ==
  {"cleanup.start", "cleanup.reconcile", "cleanup.validate", "cleanup.root",
   "cleanup.root.check", "cleanup.dirs", "cleanup.dirs.check",
   "cleanup.revalidate", "cleanup.entry", "cleanup.unlink", "cleanup.absent",
   "cleanup.rmroot.check", "cleanup.rmroot", "cleanup.finish",
   "cleanup.refinish", "abandon"}

\* No custody is left: discarded before the first named effect, cleaned up, or
\* cleaned up with a failure of the logical abandonment.
Released == {"discarded", "closed", "terminal"}

Running == BeforeEffect \cup {"root.pin"} \cup Building \cup Cleaning

Step == Running \cup Released \cup {"held", "recoverable", "quarantined"}

VARIABLES
  \* the filesystem
  name,         \* name[p]: the object at position p below the retained root;
                \* name[0]: the object at the staging name
  look,         \* look[o]: what can be seen of object o
  extra,        \* the directories with a name nobody projected
  parentNamed,  \* the absolute path still reaches the pinned parent
  finalTaken,   \* the final name is occupied
  \* the finalizer
  pc,
  cursor,       \* position of the loop in progress
  phase,        \* phase[p]; phase[0] is the staging root's
  ident,        \* ident[p]: the object whose identity the journal holds
  created,      \* created_child_count of the root and of every directory
  cleanupStarted,
  rootUnlinked, \* staging_root_unlinked
  parentFd,     \* the directory cleanup_owned_entry has open
  \* history and environment
  slipped,      \* outside objects put under a name in an unguarded window
  spoiled,      \* a pinned entry was changed while a validation was to come
  meddles, faults

fsVars == <<name, look, extra, parentNamed, finalTaken>>
journalVars == <<phase, ident, created, cleanupStarted, rootUnlinked>>
historyVars == <<slipped, spoiled, meddles, faults>>
vars == <<name, look, extra, parentNamed, finalTaken, pc, cursor, phase,
          ident, created, cleanupStarted, rootUnlinked, parentFd, slipped,
          spoiled, meddles, faults>>

\* Every variable has its type.
TypeOK ==
  /\ name \in [Node -> Object \cup {None}]
  /\ look \in [Object -> Look]
  /\ extra \in SUBSET Node
  /\ parentNamed \in BOOLEAN
  /\ finalTaken \in BOOLEAN
  /\ pc \in Step
  /\ cursor \in Nat
  /\ phase \in [Node -> EntryPhase]
  /\ ident \in [Node -> Object \cup {None}]
  /\ created \in [Node -> Nat]
  /\ cleanupStarted \in BOOLEAN
  /\ rootUnlinked \in BOOLEAN
  /\ parentFd \in Object \cup {None}
  /\ slipped \in SUBSET Object
  /\ spoiled \in BOOLEAN
  /\ meddles \in 0..MaxMeddles
  /\ faults \in 0..MaxFaults

Init ==
  /\ name = [p \in Node |-> None]
  /\ look = [o \in Object |-> "rough"]
  /\ extra = {}
  /\ parentNamed = TRUE
  /\ finalTaken = FALSE
  /\ pc = "preflight"
  /\ cursor = 0
  /\ phase = [p \in Node |-> "planned"]
  /\ ident = [p \in Node |-> None]
  /\ created = [p \in Node |-> 0]
  /\ cleanupStarted = FALSE
  /\ rootUnlinked = FALSE
  /\ parentFd = None
  /\ slipped = {}
  /\ spoiled = FALSE
  /\ meddles = 0
  /\ faults = 0

-----------------------------------------------------------------------------
(***************************************************************************)
(* What the code observes.                                                 *)
(***************************************************************************)
Children(d) == {c \in Entry : Parent[c] = d}

\* expected_child_count and root_expected_child_count
Expected(d) == Cardinality(Children(d))

\* directory_entry_count
Count(d) ==
  Cardinality({c \in Children(d) : name[c] # None})
    + (IF d \in extra THEN 1 ELSE 0)

\* The directory that the descriptor of the root, or the path of d, reaches.
DirAt(d) == IF d = 0 THEN ident[0] ELSE name[d]

\* Whether the owner may add and remove names in directory object o.
Writable(o) == o # None /\ look[o] \in {"rough", "odd"}

\* validate_materialized_directory and validate_private_staging_root: the
\* retained identity, the mode its seal says, and the recorded cardinality.
DirectoryValid(d) ==
  /\ DirAt(d) = ident[d]
  /\ look[ident[d]] = IF phase[d] = "complete" THEN "whole" ELSE "rough"
  /\ Count(d) = created[d]

\* validate_owned_materialized_regular and ..._symbolic_link: the retained
\* identity with one link.
OwnedValid(p) == name[p] = ident[p] /\ look[ident[p]] \notin {"odd", "unlinked"}

\* validate_retained_entry, for Identified entries
PinnedEntryValid(p) ==
  IF Kind[p] = "dir"
  THEN DirectoryValid(p)
  ELSE OwnedValid(p) /\ (phase[p] = "complete" => look[ident[p]] = "whole")

\* validate_retained_entry
EntryValid(p, complete) ==
  /\ phase[p] \in Pinned \cup {"planned"}
  /\ phase[p] \in Pinned => PinnedEntryValid(p)
  /\ complete =>
       /\ phase[p] \in Pinned
       /\ Kind[p] # "dir" => phase[p] = "complete"
       /\ Kind[p] = "dir" => created[p] = Expected(p)

\* validate_retained_tree without the comparison of directory cardinalities.
TreeValidUncounted(complete) ==
  /\ parentNamed
  /\ ~finalTaken
  /\ name[0] = ident[0]
  /\ look[ident[0]] = IF phase[0] = "complete" THEN "whole" ELSE "rough"
  /\ complete => phase[0] = "complete" /\ created[0] = Expected(0)
  /\ \A p \in Entry :
       /\ phase[p] \in Pinned \cup {"planned"}
       /\ phase[p] \in Pinned => OwnedValid(p)

\* validate_retained_tree(require_complete)
TreeValid(complete) ==
  /\ parentNamed
  /\ ~finalTaken
  /\ name[0] = ident[0]
  /\ DirectoryValid(0)
  /\ complete => phase[0] = "complete" /\ created[0] = Expected(0)
  /\ \A p \in Entry : EntryValid(p, complete)

\* Where an error leads: fail_before_named_effect, quarantined_root,
\* fail_after_named_effect, or a recoverable cleanup failure.
AfterError ==
  CASE pc \in BeforeEffect -> "discarded"
    [] pc = "root.pin" -> "quarantined"
    [] pc \in Building -> "cleanup.start"
    [] OTHER -> "recoverable"

Fail ==
  /\ pc' = AfterError
  /\ cursor' = 0
  /\ parentFd' = None
  /\ UNCHANGED <<fsVars, journalVars, historyVars>>

-----------------------------------------------------------------------------
(***************************************************************************)
(* materialize_private: the staging root.                                  *)
(***************************************************************************)
\* The pre_effect closure.
Preflight ==
  /\ pc = "preflight"
  /\ IF parentNamed /\ name[0] = None
     THEN /\ pc' = "root.mkdir"
          /\ UNCHANGED <<fsVars, journalVars, historyVars, cursor, parentFd>>
     ELSE Fail

\* mkdirat of the staging name, recorded at once as NamedUnidentified.
MakeRoot ==
  /\ pc = "root.mkdir"
  /\ IF name[0] = None
     THEN /\ name' = [name EXCEPT ![0] = 0]
          /\ phase' = [phase EXCEPT ![0] = "named"]
          /\ pc' = "root.pin"
          /\ UNCHANGED <<look, extra, parentNamed, finalTaken, ident, created,
                         cleanupStarted, rootUnlinked, historyVars, cursor,
                         parentFd>>
     ELSE Fail

\* openat2 and the first observation capture the root's identity by name.
PinRoot ==
  /\ pc = "root.pin"
  /\ IF name[0] # None
     THEN /\ ident' = [ident EXCEPT ![0] = name[0]]
          /\ phase' = [phase EXCEPT ![0] = "identified"]
          /\ pc' = "root.open"
          /\ UNCHANGED <<fsVars, created, cleanupStarted, rootUnlinked,
                         historyVars, cursor, parentFd>>
     ELSE Fail

\* finish_private_materialization: fchmod and validate the empty root.
OpenRoot ==
  /\ pc = "root.open"
  /\ look' = [look EXCEPT ![ident[0]] = "rough"]
  /\ IF Count(0) = 0
     THEN pc' = "entry.make" /\ cursor' = 1
     ELSE pc' = AfterError /\ cursor' = 0
  /\ UNCHANGED <<name, extra, parentNamed, finalTaken, journalVars,
                 historyVars, parentFd>>

-----------------------------------------------------------------------------
(***************************************************************************)
(* materialize_live_tree: the entries in canonical order.                  *)
(***************************************************************************)
\* preflight_named_entry_effect, and what mkdirat, symlinkat or an exclusive
\* openat2 need.
MayMake(p) ==
  /\ phase[p] = "planned"
  /\ phase[Parent[p]] \in Pinned
  /\ created[Parent[p]] < Expected(Parent[p])
  /\ Writable(DirAt(Parent[p]))
  /\ name[p] = None

\* The named effect and record_named_entry_infallibly.
MakeEntry ==
  /\ pc = "entry.make"
  /\ cursor \in Entry
  /\ LET p == cursor IN
       IF MayMake(p)
       THEN /\ name' = [name EXCEPT ![p] = p]
            /\ phase' = [phase EXCEPT
                 ![p] = IF Kind[p] = "file" THEN "creator" ELSE "named"]
            /\ created' = [created EXCEPT ![Parent[p]] = @ + 1]
            /\ pc' = "entry.pin"
            /\ UNCHANGED <<look, extra, parentNamed, finalTaken, ident,
                           cleanupStarted, rootUnlinked, historyVars, cursor,
                           parentFd>>
       ELSE Fail

\* Every entry was made: the loop ends.
EntriesMade ==
  /\ pc = "entry.make"
  /\ cursor \notin Entry
  /\ pc' = "seal"
  /\ cursor' = 1
  /\ UNCHANGED <<fsVars, journalVars, historyVars, parentFd>>

\* The entry's identity: of a file from its creator descriptor, of a directory
\* or link by its name.
PinEntry ==
  /\ pc = "entry.pin"
  /\ LET p == cursor
         seen == IF Kind[p] = "file" THEN p ELSE name[p]
     IN
       IF /\ seen # None
          /\ Kind[p] = "file" => look[p] \notin {"odd", "unlinked"}
       THEN /\ ident' = [ident EXCEPT ![p] = seen]
            /\ phase' = [phase EXCEPT ![p] = "identified"]
            /\ pc' = "entry.fill"
            /\ UNCHANGED <<fsVars, created, cleanupStarted, rootUnlinked,
                           historyVars, cursor, parentFd>>
       ELSE Fail

\* What normalizing does to an object: it cannot mend a second link, nor the
\* bytes somebody else put there.
Normalized(l) == IF l = "rough" THEN "whole" ELSE l

\* materialize_directory: fchmod and validate the empty directory by descriptor.
FillDirectory ==
  /\ pc = "entry.fill"
  /\ Kind[cursor] = "dir"
  /\ look' = [look EXCEPT ![ident[cursor]] = "rough"]
  /\ IF name[cursor] = ident[cursor] => Count(cursor) = 0
     THEN pc' = "entry.make" /\ cursor' = cursor + 1
     ELSE pc' = AfterError /\ cursor' = 0
  /\ UNCHANGED <<name, extra, parentNamed, finalTaken, journalVars,
                 historyVars, parentFd>>

\* copy_and_seal_regular_mode, the mtime and state.complete, by descriptor.
FillRegular ==
  /\ pc = "entry.fill"
  /\ Kind[cursor] = "file"
  /\ look' = [look EXCEPT ![ident[cursor]] = Normalized(@)]
  /\ phase' = [phase EXCEPT ![cursor] = "complete"]
  /\ pc' = "entry.settle"
  /\ UNCHANGED <<name, extra, parentNamed, finalTaken, ident, created,
                 cleanupStarted, rootUnlinked, historyVars, cursor, parentFd>>

\* normalize_symbolic_link_mtime goes by name, and so may meet another link.
FillLink ==
  /\ pc = "entry.fill"
  /\ Kind[cursor] = "link"
  /\ IF name[cursor] # None
     THEN /\ look' = [look EXCEPT ![name[cursor]] =
                        IF @ = "tainted" THEN "whole" ELSE Normalized(@)]
          /\ phase' = [phase EXCEPT ![cursor] = "complete"]
          /\ pc' = "entry.settle"
          /\ UNCHANGED <<name, extra, parentNamed, finalTaken, ident, created,
                         cleanupStarted, rootUnlinked, historyVars, cursor,
                         parentFd>>
     ELSE Fail

\* finish_materialized_regular validates the descriptor;
\* materialize_symbolic_link validates the name.
SettleEntry ==
  /\ pc = "entry.settle"
  /\ IF /\ look[ident[cursor]] = "whole"
        /\ Kind[cursor] = "link" => name[cursor] = ident[cursor]
     THEN /\ pc' = "entry.make"
          /\ cursor' = cursor + 1
          /\ UNCHANGED <<fsVars, journalVars, historyVars, parentFd>>
     ELSE Fail

-----------------------------------------------------------------------------
(***************************************************************************)
(* The seals.                                                              *)
(***************************************************************************)
\* seal_directories_deepest_first: one directory's mtime and mode.
SealDirectory ==
  /\ pc = "seal"
  /\ cursor \in 1..NumDirs
  /\ LET d == SealOrder[cursor] IN
       IF phase[d] = "identified" /\ created[d] = Expected(d) /\ DirectoryValid(d)
       THEN /\ look' = [look EXCEPT ![ident[d]] = "whole"]
            /\ phase' = [phase EXCEPT ![d] = "complete"]
            /\ pc' = "seal.check"
            /\ UNCHANGED <<name, extra, parentNamed, finalTaken, ident,
                           created, cleanupStarted, rootUnlinked, historyVars,
                           cursor, parentFd>>
       ELSE Fail

\* The directory is validated again through the same descriptor and flushed.
SealedDirectory ==
  /\ pc = "seal.check"
  /\ LET d == SealOrder[cursor] IN
       IF /\ look[ident[d]] = "whole"
          /\ name[d] = ident[d] => Count(d) = created[d]
       THEN /\ pc' = "seal"
            /\ cursor' = cursor + 1
            /\ UNCHANGED <<fsVars, journalVars, historyVars, parentFd>>
       ELSE Fail

DirectoriesSealed ==
  /\ pc = "seal"
  /\ cursor \notin 1..NumDirs
  /\ pc' = "root.seal"
  /\ cursor' = 0
  /\ UNCHANGED <<fsVars, journalVars, historyVars, parentFd>>

\* seal_staging_root up to the recorded effect
SealRoot ==
  /\ pc = "root.seal"
  /\ IF created[0] = Expected(0) /\ DirectoryValid(0)
     THEN /\ look' = [look EXCEPT ![ident[0]] = "whole"]
          /\ phase' = [phase EXCEPT ![0] = "complete"]
          /\ pc' = "root.seal.check"
          /\ UNCHANGED <<name, extra, parentNamed, finalTaken, ident, created,
                         cleanupStarted, rootUnlinked, historyVars, cursor,
                         parentFd>>
     ELSE Fail

SealedRoot ==
  /\ pc = "root.seal.check"
  /\ IF DirectoryValid(0)
     THEN /\ pc' = "final.check"
          /\ UNCHANGED <<fsVars, journalVars, historyVars, cursor, parentFd>>
     ELSE Fail

\* validate_retained_tree(true) and the two fsyncs: materialize_private returns.
Materialized ==
  /\ pc = "final.check"
  /\ IF TreeValid(TRUE)
     THEN /\ pc' = "materialized"
          /\ UNCHANGED <<fsVars, journalVars, historyVars, cursor, parentFd>>
     ELSE Fail

\* authenticate_physical_rootfs_and_retain: the tree is valid and is the one
\* the gate expects, or it is not.
Authenticate ==
  /\ pc = "materialized"
  /\ \/ /\ TreeValid(TRUE)
        /\ pc' = "held"
        /\ UNCHANGED <<fsVars, journalVars, historyVars, cursor, parentFd>>
     \/ Fail

-----------------------------------------------------------------------------
(***************************************************************************)
(* Cleanup and its retries.                                                *)
(***************************************************************************)
\* cleanup, called on the retained rootfs or by retry_cleanup
Cleanup ==
  /\ pc \in {"held", "recoverable"}
  /\ pc' = IF cleanupStarted \/ TreeValid(TRUE)
           THEN "cleanup.start" ELSE "recoverable"
  /\ UNCHANGED <<fsVars, journalVars, historyVars, cursor, parentFd>>

\* cleanup_named_tree up to refuse_unidentified_entry_custody
StartCleanup ==
  /\ pc = "cleanup.start"
  /\ cleanupStarted' = TRUE
  /\ pc' = CASE rootUnlinked -> "cleanup.refinish"
             [] ~rootUnlinked /\ \E p \in Entry : phase[p] = "named" ->
                  "recoverable"
             [] OTHER -> "cleanup.reconcile"
  /\ UNCHANGED <<fsVars, phase, ident, created, rootUnlinked, historyVars,
                 cursor, parentFd>>

\* reconcile_regular_creator_descriptors: a creator descriptor is identified
\* with its name.  At most one entry is in that phase.
Reconcile ==
  /\ pc = "cleanup.reconcile"
  /\ LET open == {p \in Entry : phase[p] = "creator"} IN
       IF \A p \in open : name[p] = p /\ look[p] \notin {"odd", "unlinked"}
       THEN /\ phase' = [p \in Node |->
                           IF p \in open THEN "identified" ELSE phase[p]]
            /\ ident' = [p \in Node |-> IF p \in open THEN p ELSE ident[p]]
            /\ pc' = "cleanup.validate"
            /\ UNCHANGED <<fsVars, created, cleanupStarted, rootUnlinked,
                           historyVars, cursor, parentFd>>
       ELSE Fail

\* validate_retained_tree(false)
ValidateRemaining ==
  /\ pc = "cleanup.validate"
  /\ IF TreeValid(FALSE)
     THEN /\ pc' = "cleanup.root"
          /\ UNCHANGED <<fsVars, journalVars, historyVars, cursor, parentFd>>
     ELSE Fail

\* reopen_staging_root_for_cleanup
ReopenRoot ==
  /\ pc = "cleanup.root"
  /\ IF DirectoryValid(0)
     THEN /\ look' = [look EXCEPT ![ident[0]] = "rough"]
          /\ phase' = [phase EXCEPT ![0] = "identified"]
          /\ pc' = IF phase[0] = "complete"
                   THEN "cleanup.root.check" ELSE "cleanup.dirs"
          /\ cursor' = NumDirs
          /\ UNCHANGED <<name, extra, parentNamed, finalTaken, ident, created,
                         cleanupStarted, rootUnlinked, historyVars, parentFd>>
     ELSE Fail

ReopenedRoot ==
  /\ pc = "cleanup.root.check"
  /\ IF DirectoryValid(0)
     THEN /\ pc' = "cleanup.dirs"
          /\ UNCHANGED <<fsVars, journalVars, historyVars, cursor, parentFd>>
     ELSE Fail

\* ReopenDirectory that leaves the recorded seal up.
ReopenDirectoryUnrecorded ==
  /\ pc = "cleanup.dirs"
  /\ cursor \in 1..NumDirs
  /\ LET d == SealOrder[cursor] IN
       CASE \/ phase[d] \notin Pinned
            \/ phase[d] = "identified" /\ DirectoryValid(d) ->
              /\ cursor' = cursor - 1
              /\ UNCHANGED <<fsVars, journalVars, historyVars, pc, parentFd>>
         [] phase[d] = "complete" /\ DirectoryValid(d) ->
              /\ look' = [look EXCEPT ![ident[d]] = "rough"]
              /\ pc' = "cleanup.dirs.check"
              /\ UNCHANGED <<name, extra, parentNamed, finalTaken,
                             journalVars, historyVars, cursor, parentFd>>
         [] OTHER -> Fail

\* reopen_directories_for_cleanup: one directory, from the root downward.
ReopenDirectory ==
  /\ pc = "cleanup.dirs"
  /\ cursor \in 1..NumDirs
  /\ LET d == SealOrder[cursor] IN
       CASE \/ phase[d] \notin Pinned
            \/ phase[d] = "identified" /\ DirectoryValid(d) ->
              /\ cursor' = cursor - 1
              /\ UNCHANGED <<fsVars, journalVars, historyVars, pc, parentFd>>
         [] phase[d] = "complete" /\ DirectoryValid(d) ->
              /\ look' = [look EXCEPT ![ident[d]] = "rough"]
              /\ phase' = [phase EXCEPT ![d] = "identified"]
              /\ pc' = "cleanup.dirs.check"
              /\ UNCHANGED <<name, extra, parentNamed, finalTaken, ident,
                             created, cleanupStarted, rootUnlinked,
                             historyVars, cursor, parentFd>>
         [] OTHER -> Fail

\* The postcondition of one reopened directory, through its descriptor.
ReopenedDirectory ==
  /\ pc = "cleanup.dirs.check"
  /\ LET d == SealOrder[cursor] IN
       IF /\ look[ident[d]] = "rough"
          /\ name[d] = ident[d] => Count(d) = created[d]
       THEN /\ pc' = "cleanup.dirs"
            /\ cursor' = cursor - 1
            /\ UNCHANGED <<fsVars, journalVars, historyVars, parentFd>>
       ELSE Fail

DirectoriesReopened ==
  /\ pc = "cleanup.dirs"
  /\ cursor \notin 1..NumDirs
  /\ pc' = "cleanup.revalidate"
  /\ UNCHANGED <<fsVars, journalVars, historyVars, cursor, parentFd>>

\* RevalidateRemaining left out.
RevalidateNothing ==
  /\ pc = "cleanup.revalidate"
  /\ pc' = "cleanup.entry"
  /\ cursor' = N
  /\ UNCHANGED <<fsVars, journalVars, historyVars, parentFd>>

\* validate_retained_tree(false) again, before the first unlink.
RevalidateRemaining ==
  /\ pc = "cleanup.revalidate"
  /\ IF TreeValid(FALSE)
     THEN /\ pc' = "cleanup.entry"
          /\ cursor' = N
          /\ UNCHANGED <<fsVars, journalVars, historyVars, parentFd>>
     ELSE Fail

\* MayUnlink by name alone.
MayUnlinkByName(p) == name[p] # None /\ (Kind[p] = "dir" => Count(p) = 0)

\* validated_cleanup_unlink_flags
MayUnlink(p) ==
  IF Kind[p] = "dir"
  THEN /\ created[p] = 0
       /\ name[p] = ident[p] /\ look[ident[p]] = "rough"
       /\ Count(p) = 0
  ELSE OwnedValid(p)

\* CheckEntry that does not go on from an entry it need not unlink.
CheckEntryInPlace ==
  /\ pc = "cleanup.entry"
  /\ cursor \in Entry
  /\ LET p == cursor IN
       CASE phase[p] = "planned" ->
              UNCHANGED <<fsVars, journalVars, historyVars, pc, cursor, parentFd>>
         [] phase[p] \in Pinned /\ DirAt(Parent[p]) # None /\ MayUnlink(p) ->
              /\ pc' = "cleanup.unlink"
              /\ parentFd' = DirAt(Parent[p])
              /\ UNCHANGED <<fsVars, journalVars, historyVars, cursor>>
         [] OTHER -> Fail

\* cleanup_owned_entries_postorder and cleanup_owned_entry up to the unlink.
CheckEntry ==
  /\ pc = "cleanup.entry"
  /\ cursor \in Entry
  /\ LET p == cursor IN
       CASE phase[p] = "planned" ->
              /\ cursor' = p - 1
              /\ UNCHANGED <<fsVars, journalVars, historyVars, pc, parentFd>>
         [] phase[p] \in Pinned /\ DirAt(Parent[p]) # None /\ MayUnlink(p) ->
              /\ pc' = "cleanup.unlink"
              /\ parentFd' = DirAt(Parent[p])
              /\ UNCHANGED <<fsVars, journalVars, historyVars, cursor>>
         [] OTHER -> Fail

\* ForgetEntry that takes the position for its parent's.
ForgetEntryOwnCount(p) ==
  /\ phase' = [phase EXCEPT ![p] = "planned"]
  /\ created' = [created EXCEPT ![p] = @ - 1]
  /\ UNCHANGED <<ident, cleanupStarted, rootUnlinked>>

\* The journal of p's removal: Planned again, and one child less.
ForgetEntry(p) ==
  /\ phase' = [phase EXCEPT ![p] = "planned"]
  /\ created' = [created EXCEPT ![Parent[p]] = @ - 1]
  /\ UNCHANGED <<ident, cleanupStarted, rootUnlinked>>

\* unlinkat in the directory held open.  When the path no longer leads there,
\* the entry goes from wherever that directory is now.
UnlinkEntry ==
  /\ pc = "cleanup.unlink"
  /\ LET p == cursor
         here == DirAt(Parent[p]) = parentFd
     IN
       IF here => /\ name[p] # None
                  /\ Writable(parentFd)
                  /\ Kind[p] = "dir" => Count(p) = 0
       THEN /\ name' = IF here THEN [name EXCEPT ![p] = None] ELSE name
            /\ ForgetEntry(p)
            /\ pc' = "cleanup.absent"
            /\ UNCHANGED <<look, extra, parentNamed, finalTaken, historyVars,
                           cursor, parentFd>>
       ELSE Fail

\* ensure_absent in the same directory
EntryAbsent ==
  /\ pc = "cleanup.absent"
  /\ IF DirAt(Parent[cursor]) = parentFd => name[cursor] = None
     THEN /\ pc' = "cleanup.entry"
          /\ cursor' = cursor - 1
          /\ parentFd' = None
          /\ UNCHANGED <<fsVars, journalVars, historyVars>>
     ELSE Fail

EntriesUnlinked ==
  /\ pc = "cleanup.entry"
  /\ cursor \notin Entry
  /\ pc' = "cleanup.rmroot.check"
  /\ UNCHANGED <<fsVars, journalVars, historyVars, cursor, parentFd>>

\* cleanup_empty_staging_root up to the unlink
CheckEmptyRoot ==
  /\ pc = "cleanup.rmroot.check"
  /\ IF /\ created[0] = 0 /\ Count(0) = 0
        /\ parentNamed /\ ~finalTaken
        /\ name[0] = ident[0] /\ look[ident[0]] = "rough"
     THEN /\ pc' = "cleanup.rmroot"
          /\ UNCHANGED <<fsVars, journalVars, historyVars, cursor, parentFd>>
     ELSE Fail

\* unlinkat(REMOVEDIR) of the staging name; an outsider's directory there is
\* empty.
UnlinkRoot ==
  /\ pc = "cleanup.rmroot"
  /\ IF name[0] # None /\ (name[0] = ident[0] => Count(0) = 0)
     THEN /\ name' = [name EXCEPT ![0] = None]
          /\ rootUnlinked' = TRUE
          /\ pc' = "cleanup.finish"
          /\ UNCHANGED <<look, extra, parentNamed, finalTaken, phase, ident,
                         created, cleanupStarted, historyVars, cursor,
                         parentFd>>
     ELSE Fail

\* The end of cleanup_empty_staging_root: the staging name is seen absent and
\* the parent is flushed.
FinishCleanup ==
  /\ pc = "cleanup.finish"
  /\ IF name[0] = None
     THEN /\ pc' = "abandon"
          /\ UNCHANGED <<fsVars, journalVars, historyVars, cursor, parentFd>>
     ELSE Fail

\* RefinishCleanup that trusts staging_root_unlinked.
RefinishCleanupUnseen ==
  /\ pc = "cleanup.refinish"
  /\ pc' = "abandon"
  /\ UNCHANGED <<fsVars, journalVars, historyVars, cursor, parentFd>>

\* finish_unlinked_staging_cleanup_retry: observe, and never unlink again.
RefinishCleanup ==
  /\ pc = "cleanup.refinish"
  /\ IF parentNamed /\ name[0] = None
     THEN /\ pc' = "abandon"
          /\ UNCHANGED <<fsVars, journalVars, historyVars, cursor, parentFd>>
     ELSE Fail

\* finish_logical_abandonment on the unlinked spool.  It may fail, and then no
\* custody is kept.
Abandon ==
  /\ pc = "abandon"
  /\ pc' \in {"closed", "terminal"}
  /\ UNCHANGED <<fsVars, journalVars, historyVars, cursor, parentFd>>

\* retry_cleanup_preserving_error refuses a root that was never identified, and
\* a failure without custody; a closed rootfs has no operation left.
Refused ==
  /\ pc \in Released \cup {"quarantined"}
  /\ UNCHANGED vars

-----------------------------------------------------------------------------
(***************************************************************************)
(* The environment.                                                        *)
(***************************************************************************)
\* A call of the step in progress fails and has no effect.
Fault ==
  /\ pc \in (Running \cup {"held"}) \ {"abandon"}
  /\ faults < MaxFaults
  /\ faults' = faults + 1
  /\ pc' = AfterError
  /\ cursor' = 0
  /\ parentFd' = None
  /\ cleanupStarted' = (cleanupStarted \/ pc = "cleanup.start")
  /\ UNCHANGED <<fsVars, phase, ident, created, rootUnlinked, slipped, spoiled,
                 meddles>>

\* The directories above an entry: the least set with its parent and, with each
\* member, that one's parent.  The root is not among them.
AncestorsOf ==
  [c \in Entry |->
     {a \in Entry : \A S \in SUBSET Entry :
        (\A k \in S \cup {c} : Parent[k] \in S \cup {0}) => a \in S}]

\* The positions below directory p.
Below(p) == {c \in Entry : p \in AncestorsOf[c]}

\* The object an intervention brings along.
Outsider == N + meddles + 1

\* The windows in which position p is named but nobody compares identities:
\* from mkdirat or symlinkat to the pin, and from the last check to unlinkat.
Unguarded(p) ==
  \/ p = 0 /\ pc \in {"root.pin", "cleanup.rmroot"}
  \/ p # 0 /\ p = cursor /\ pc = "entry.pin" /\ Kind[p] # "file"
  \/ p # 0 /\ p = cursor /\ pc = "cleanup.unlink"

\* A whole validation of the tree comes before anything is unlinked.
ValidationAhead ==
  pc \notin {"cleanup.entry", "cleanup.unlink", "cleanup.absent",
             "cleanup.rmroot.check", "cleanup.rmroot", "cleanup.finish",
             "cleanup.refinish", "abandon"}

Meddle ==
  /\ meddles < MaxMeddles
  /\ meddles' = meddles + 1
  /\ UNCHANGED <<pc, cursor, journalVars, parentFd, faults>>

\* Position p is moved away or unlinked, with what is below it, and perhaps
\* another object of its looks takes the name.
Displace ==
  \E p \in Node, new \in {None, Outsider}, gone \in BOOLEAN :
    /\ name[p] # None
    /\ gone => p # 0 /\ Kind[p] = "file"
    /\ name' = [c \in Node |->
                  IF c = p THEN new
                  ELSE IF c \in Below(p) THEN None ELSE name[c]]
    /\ look' = [o \in Object |->
                  IF o = new THEN look[name[p]]
                  ELSE IF gone /\ o = name[p] THEN "unlinked" ELSE look[o]]
    /\ extra' = IF p = 0 THEN extra ELSE extra \ ({p} \cup Below(p))
    /\ slipped' = IF new # None /\ Unguarded(p)
                  THEN slipped \cup {new} ELSE slipped
    /\ spoiled' = (spoiled \/ (p # 0 /\ phase[p] \in Pinned /\ ValidationAhead))
    /\ UNCHANGED <<parentNamed, finalTaken>>

\* Somebody takes an unused name of the tree, or the staging name.
Plant ==
  \E p \in Node, l \in {"rough", "whole"} :
    /\ name[p] = None
    /\ p # 0 => DirAt(Parent[p]) # None
    /\ name' = [name EXCEPT ![p] = Outsider]
    /\ look' = [look EXCEPT ![Outsider] = l]
    /\ slipped' = IF Unguarded(p) THEN slipped \cup {Outsider} ELSE slipped
    /\ UNCHANGED <<extra, parentNamed, finalTaken, spoiled>>

\* Bytes, mode, mtime or links of an object change.
Alter ==
  \E p \in Node, l \in {"tainted", "odd"} :
    /\ name[p] # None
    /\ look[name[p]] # "odd"
    /\ look' = [look EXCEPT ![name[p]] = l]
    /\ spoiled' =
         (spoiled \/
            /\ p # 0 /\ phase[p] \in Pinned /\ ValidationAhead
            /\ phase[p] = "complete" \/ Kind[p] = "dir" \/ l = "odd"
            /\ ~(Kind[p] = "dir" /\ pc = "entry.fill" /\ cursor = p))
    /\ UNCHANGED <<name, extra, parentNamed, finalTaken, slipped>>

\* A name nobody projected comes to a directory or goes again, the directory's
\* mtime being put back.
Litter ==
  \E d \in Dirs \cup {0} :
    /\ DirAt(d) # None
    /\ extra' = IF d \in extra THEN extra \ {d} ELSE extra \cup {d}
    /\ UNCHANGED <<name, look, parentNamed, finalTaken, slipped, spoiled>>

\* The retained root, moved away before, comes back under the staging name.
RestoreRoot ==
  /\ name[0] = None /\ ident[0] # None
  /\ name' = [name EXCEPT ![0] = ident[0]]
  /\ UNCHANGED <<look, extra, parentNamed, finalTaken, slipped, spoiled>>

\* The parent's path or the final name changes.
MoveParent ==
  /\ parentNamed' = ~parentNamed
  /\ UNCHANGED <<name, look, extra, finalTaken, slipped, spoiled>>

TakeFinal ==
  /\ finalTaken' = ~finalTaken
  /\ UNCHANGED <<name, look, extra, parentNamed, slipped, spoiled>>

Interfere ==
  /\ Meddle
  /\ Displace \/ Plant \/ Alter \/ Litter \/ RestoreRoot \/ MoveParent
       \/ TakeFinal

-----------------------------------------------------------------------------
Build ==
  \/ Preflight \/ MakeRoot \/ PinRoot \/ OpenRoot
  \/ MakeEntry \/ EntriesMade \/ PinEntry
  \/ FillDirectory \/ FillRegular \/ FillLink \/ SettleEntry
  \/ SealDirectory \/ SealedDirectory \/ DirectoriesSealed
  \/ SealRoot \/ SealedRoot \/ Materialized \/ Authenticate

CleanUp ==
  \/ StartCleanup \/ Reconcile \/ ValidateRemaining
  \/ ReopenRoot \/ ReopenedRoot
  \/ ReopenDirectory \/ ReopenedDirectory \/ DirectoriesReopened
  \/ RevalidateRemaining \/ CheckEntry \/ UnlinkEntry \/ EntryAbsent
  \/ EntriesUnlinked \/ CheckEmptyRoot \/ UnlinkRoot
  \/ FinishCleanup \/ RefinishCleanup \/ Abandon

Next == Build \/ Cleanup \/ CleanUp \/ Refused \/ Fault \/ Interfere

Spec == Init /\ [][Next]_vars

\* A call, once made, keeps running; nothing obliges anybody to call cleanup.
FairSpec == Spec /\ WF_vars(Build) /\ WF_vars(CleanUp)

-----------------------------------------------------------------------------
(***************************************************************************)
(* Properties.                                                             *)
(***************************************************************************)
\* A step of the finalizer, not of the outsider, takes an object from position
\* p or from the staging name.
Unlinks(p) == meddles' = meddles /\ name[p] # None /\ name'[p] = None

\* created_child_count of every directory is the number of its entries that the
\* journal holds as named, through every failure, cleanup and retry: the
\* checked_sub of cleanup_owned_entry cannot underflow, and cardinality
\* comparisons compare with the right number.
CountsAgree ==
  \A d \in Node :
    created[d] = Cardinality({c \in Children(d) : phase[c] # "planned"})

\* The position or seal-order index of a step in the middle of a loop body.
CursorInRange ==
  /\ pc \in {"entry.pin", "entry.fill", "entry.settle", "cleanup.unlink",
             "cleanup.absent"} => cursor \in Entry
  /\ pc \in {"seal.check", "cleanup.dirs.check"} => cursor \in 1..NumDirs

\* How far the entry in hand has come.
PhaseFollowsStep ==
  /\ pc = "entry.pin" => phase[cursor] \in {"named", "creator"}
  /\ pc \in {"entry.fill", "entry.settle", "cleanup.unlink"} =>
       phase[cursor] \in Pinned

\* Only the step that made it, a cleanup about to refuse, or refused custody has
\* an unidentified name; and a root once unlinked leaves none.
UnidentifiedIsStuck ==
  /\ phase[0] = "named" => pc \in {"root.pin", "quarantined"}
  /\ \A p \in Entry : phase[p] = "named" =>
       /\ ~rootUnlinked
       /\ \/ pc = "entry.pin" /\ cursor = p
          \/ pc \in {"cleanup.start", "recoverable"}
  /\ rootUnlinked =>
       pc \in {"cleanup.start", "cleanup.finish", "cleanup.refinish",
               "recoverable", "abandon", "closed", "terminal"}

\* Every retained identity is the finalizer's own object or one slipped in, and
\* so is what an unguarded name denotes.
IdentityIsOwn ==
  /\ \A p \in Node : ident[p] \in {p, None} \cup slipped
  /\ pc \in {"root.pin", "cleanup.rmroot"} => name[0] \in {0, None} \cup slipped
  /\ pc = "entry.pin" /\ Kind[cursor] # "file" =>
       name[cursor] \in {cursor, None} \cup slipped
  /\ pc = "cleanup.unlink" => name[cursor] \in {cursor, None} \cup slipped

\* The journal is consistent with the step in progress and with the identities
\* on disk, whatever failed before and whoever interfered.
JournalIsSound ==
  /\ CursorInRange
  /\ PhaseFollowsStep
  /\ CountsAgree
  /\ UnidentifiedIsStuck
  /\ IdentityIsOwn

\* materialize_private returns only a tree that is exactly the projection: every
\* entry there, whole and under its retained identity, every directory sealed,
\* and no name beyond the projection although only cardinalities are compared.
MaterializedIsExact ==
  [][pc = "final.check" /\ pc' = "materialized" =>
       /\ name[0] = ident[0]
       /\ extra = {}
       /\ \A p \in Entry : name[p] = ident[p] /\ name[p] # None
       /\ \A p \in Node : look[ident[p]] = "whole"]_vars

\* Cleanup unlinks only objects the finalizer made, except what an outsider put
\* under a name in the two unguarded windows: before the pin of a directory or
\* link, and between the last check and unlinkat.
OnlyOwnIsUnlinked ==
  [][\A p \in Node : Unlinks(p) => name[p] = p \/ name[p] \in slipped]_vars

\* Once a pinned entry was displaced or altered while a validation was still to
\* come, no cleanup and no retry ever unlinks anything of the tree.
SpoiledIsLeftAlone ==
  [][spoiled => \A p \in Node : ~Unlinks(p)]_vars

\* A position left named but not identified stays so for ever, and nothing of
\* the tree is unlinked any more: the name is quarantined, not adopted.
UnidentifiedIsKept ==
  [][\A p \in Node :
       phase[p] = "named" /\ pc \notin {"root.pin", "entry.pin"} =>
         phase'[p] = "named" /\ \A q \in Node : ~Unlinks(q)]_vars

\* After the staging root was unlinked no retry unlinks the name again, whatever
\* stands there now.
RootIsUnlinkedOnce == [][rootUnlinked => \A p \in Node : ~Unlinks(p)]_vars

\* Custody is given up only before the first named effect, or when the staging
\* name is free and nothing the finalizer made is left anywhere in the tree.
CustodyUntilGone ==
  [][pc' \in Released \cup {"abandon"} /\ pc \notin Released \cup {"abandon"} =>
       \/ phase[0] = "planned"
       \/ name[0] = None /\ \A p \in Entry : name[p] # p /\ phase[p] = "planned"
    ]_vars

\* A cleanup is refused only for a cause: a call that failed in that very step,
\* an outsider, or an entry never identified.  The journal always describes the
\* tree well enough to finish, whichever call failed before.
RefusalHasACause ==
  [][pc' = "recoverable" /\ pc # "recoverable" =>
       \/ faults' # faults
       \/ meddles > 0
       \/ \E p \in Entry : phase[p] = "named"]_vars

\* Every call of the finalizer returns.
EveryCallReturns == pc \in Running ~> pc \notin Running
=============================================================================
