----------------------------- MODULE CreateOnly -----------------------------
(***************************************************************************)
(* The create-only directory transaction of the campaign executor          *)
(* (generator/src/b4_campaign_executor/create_only.rs): several writers     *)
(* publish one directory tree at one destination.  Each builds the tree    *)
(* under the reserved staging name, reauthenticates it by name and by      *)
(* retained descriptor around every effect, synchronizes it and renames it *)
(* exclusively to the final name.                                          *)
(*                                                                         *)
(* The filesystem is shared.  A party outside the protocol may meddle with *)
(* it between any two system calls, a system call may fail, and the        *)
(* machine may crash and lose whatever was not synchronized.               *)
(*                                                                         *)
(* Inode metadata (identity, links, mode, owner, mtime, ctime) is kept     *)
(* only as what the code asks of it: how the object now differs from the   *)
(* observation a writer retained.                                          *)
(***************************************************************************)
EXTENDS Naturals, FiniteSets

CONSTANTS
  Writers,      \* processes that run a transaction for this destination
  Dirs,         \* portable relative paths that name directories
  Files,        \* portable relative paths that name regular files
  Plan,         \* the paths the projected inventory lets a writer create
  Root,         \* the relative path "" of the tree root itself
  Parent,       \* Parent[p]: the directory path (or Root) that holds p
  None,         \* no tree
  MaxEntries,   \* MAX_CREATE_ONLY_ENTRIES
  MaxBytes,     \* MAX_CREATE_ONLY_TOTAL_BYTES, every file one unit long
  MaxTrees,     \* bound: directory trees ever made beside the destination
  MaxMeddles,   \* bound: interventions from outside the protocol
  MaxFaults,    \* bound: failing system calls
  MaxCrashes    \* bound: machine crashes

Path == Dirs \cup Files
Node == Path \cup {Root}
Tree == 1..MaxTrees

\* A portable relative path is bounded in length and in depth
\* (MAX_PORTABLE_RELATIVE_PATH_BYTES, MAX_CREATE_ONLY_DEPTH): there are finitely
\* many, and no path lies beneath itself.
ASSUME PathAssumption ==
  /\ Dirs \cap Files = {}
  /\ Root \notin Path
  /\ Plan \subseteq Path
  /\ Parent \in [Path -> Dirs \cup {Root}]
  /\ IsFiniteSet(Path)
  /\ \A S \in SUBSET Path : S # {} => \E p \in S : Parent[p] \notin S

ASSUME NoneAssumption == None \notin Nat

ASSUME BoundAssumption ==
  /\ MaxEntries \in Nat /\ MaxBytes \in Nat
  /\ MaxTrees \in Nat /\ MaxMeddles \in Nat
  /\ MaxFaults \in Nat /\ MaxCrashes \in Nat

\* required_top_level_entries, and the kinds required_top_level_directories fix
Required == {p \in Plan : Parent[p] = Root}

\* What stands at a path of a tree.  "partial": a file without all its bytes;
\* "foreign": bytes of the same length that no writer wrote; "odd": an object
\* with a second link or a mode that is not owner-only.
Content == {"absent", "dir", "partial", "bytes", "foreign", "odd"}

\* How a retained object differs from its retained observation: not at all, in
\* its timestamps only, also in links or mode, or it was unlinked and its name
\* leads to nothing or to another object.
Drift == {"same", "stamp", "other", "gone"}

Slot == {"staging", "final"}

OpPhase ==
  {"dir.mkdir", "dir.open", "dir.check",
   "file.create", "file.check", "file.write", "file.observe", "file.sync",
   "file.seal", "publish", "adopt", "adopt.check"}

BeginPhase == {"begin.mkdir", "begin.open", "begin.check"}

CommitPhase ==
  {"sync.check", "sync.do", "rename.check", "rename", "renamed",
   "parent.sync", "commit.check", "committed", "validate", "post.check"}

\* "rejected": the semantic validator refused the committed tree.
Ended == {"returned", "failed", "rejected", "dead"}

Phase ==
  {"idle", "ready"} \cup Ended
     \cup BeginPhase \cup OpPhase \cup CommitPhase

VARIABLES
  \* the filesystem
  names,        \* what the staging and the final name of the parent denote
  recoverable,  \* the states of those names that a crash now could expose
  born,         \* number of directory trees made so far
  node,         \* node[t][p]: what stands at path p of tree t
  entrySynced,  \* entrySynced[t]: entries durable in their directory
  dataSynced,   \* dataSynced[t]: files whose bytes are durable
  parentNamed,  \* the absolute path still reaches the pinned parent
  custody,      \* what guard.recheck() reauthenticates is unchanged
  \* the transactions
  pc,
  held,         \* the tree staging_root has open
  known,        \* the retained directories and files = expected_entries
  done,         \* the entries counted in entry_count and byte_length
  seal,         \* expected_sha256 of a retained file, as the bytes it names
  drift,        \* drift[w][n]: object n against w's retained observation
  poisoned,
  op,           \* the path of the operation in progress
  left,         \* the nodes commit_inner has yet to synchronize
  \* the environment
  meddles, faults, crashes

fsVars == <<names, recoverable, born, node, entrySynced, dataSynced>>
diskVars == <<names, recoverable, born, node, entrySynced, dataSynced,
              parentNamed, custody>>
envVars == <<meddles, faults, crashes>>
retVars == <<held, known, done, seal, drift>>
vars == <<names, recoverable, born, node, entrySynced, dataSynced,
          parentNamed, custody, pc, held, known, done, seal, drift,
          poisoned, op, left, meddles, faults, crashes>>

NameState == [Slot -> Tree \cup {None}]

\* Every variable has its type.
TypeOK ==
  /\ names \in NameState
  /\ recoverable \in SUBSET NameState
  /\ born \in 0..MaxTrees
  /\ node \in [Tree -> [Path -> Content]]
  /\ entrySynced \in [Tree -> SUBSET Path]
  /\ dataSynced \in [Tree -> SUBSET Path]
  /\ parentNamed \in BOOLEAN
  /\ custody \in BOOLEAN
  /\ pc \in [Writers -> Phase]
  /\ held \in [Writers -> Tree \cup {None}]
  /\ known \in [Writers -> SUBSET Path]
  /\ done \in [Writers -> SUBSET Path]
  /\ seal \in [Writers -> [Path -> Content]]
  /\ drift \in [Writers -> [Node -> Drift]]
  /\ poisoned \in [Writers -> BOOLEAN]
  /\ op \in [Writers -> Node]
  /\ left \in [Writers -> SUBSET Node]
  /\ meddles \in 0..MaxMeddles
  /\ faults \in 0..MaxFaults
  /\ crashes \in 0..MaxCrashes

EmptyTree == [p \in Path |-> "absent"]

Init ==
  /\ names = [s \in Slot |-> None]
  /\ recoverable = {[s \in Slot |-> None]}
  /\ born = 0
  /\ node = [t \in Tree |-> EmptyTree]
  /\ entrySynced = [t \in Tree |-> {}]
  /\ dataSynced = [t \in Tree |-> {}]
  /\ parentNamed = TRUE
  /\ custody = TRUE
  /\ pc = [w \in Writers |-> "idle"]
  /\ held = [w \in Writers |-> None]
  /\ known = [w \in Writers |-> {}]
  /\ done = [w \in Writers |-> {}]
  /\ seal = [w \in Writers |-> EmptyTree]
  /\ drift = [w \in Writers |-> [n \in Node |-> "same"]]
  /\ poisoned = [w \in Writers |-> FALSE]
  /\ op = [w \in Writers |-> Root]
  /\ left = [w \in Writers |-> {}]
  /\ meddles = 0 /\ faults = 0 /\ crashes = 0

(***************************************************************************)
(* Filesystem primitives.                                                  *)
(***************************************************************************)

Present(t) == {p \in Path : node[t][p] # "absent"}
ChildrenOf(d) == {p \in Path : Parent[p] = d}

\* A change of the parent directory becomes durable at its next fsync; until
\* then a crash exposes the state after any prefix of the changes.
Rebind(binding) ==
  /\ names' = binding
  /\ recoverable' = recoverable \cup {binding}

\* The drift of the objects N of tree t after a change, for every holder.
Stamped(t, N) ==
  [v \in Writers |->
     [n \in Node |->
        IF held[v] = t /\ n \in N /\ drift[v][n] = "same"
        THEN "stamp" ELSE drift[v][n]]]

\* Mutant: the refreshed metadata replaces the whole map.
ObservedForgetsTheRest(d, w, N) == [d EXCEPT ![w] = [n \in N |-> "same"]]

\* Reading the metadata of N again and retaining it.
Observed(d, w, N) ==
  [d EXCEPT ![w] = [n \in Node |-> IF n \in N THEN "same" ELSE @[n]]]

(***************************************************************************)
(* Reauthentication.                                                       *)
(***************************************************************************)

\* Mutant: metadata and inventory are compared, bytes are not remeasured.
TreeVerifiedWithoutDigests(t, dr, kn, sl) ==
  /\ \A n \in kn \cup {Root} : dr[n] = "same"
  /\ Present(t) = kn

\* verify_tree_named_from: every retained handle still has the retained
\* metadata and its sealed bytes, the reopened names lead to the same objects,
\* and the directories hold exactly the expected entries.  dr and kn are the
\* drift and the expected entries at the time of the check, sl the digests.
TreeVerified(t, dr, kn, sl) ==
  /\ \A n \in kn \cup {Root} : dr[n] = "same"
  /\ Present(t) = kn
  /\ \A f \in kn \cap Files : sl[f] # "absent" => node[t][f] = sl[f]

ReauthenticateStaging(w, dr, kn, sl) ==
  /\ parentNamed
  /\ names["final"] = None
  /\ names["staging"] = held[w]
  /\ TreeVerified(held[w], dr, kn, sl)

ReauthenticateFinal(w, dr) ==
  /\ parentNamed
  /\ names["staging"] = None
  /\ names["final"] = held[w]
  /\ TreeVerified(held[w], dr, known[w], seal[w])

Goto(w, phase) == pc' = [pc EXCEPT ![w] = phase]

\* The outer operation returns its error and poisons the transaction.
Poison(w) ==
  /\ Goto(w, "ready")
  /\ poisoned' = [poisoned EXCEPT ![w] = TRUE]

\* begin and commit consume the transaction: their error ends it.
Abandon(w) == Goto(w, "failed") /\ UNCHANGED poisoned

(***************************************************************************)
(* begin                                                                   *)
(***************************************************************************)

\* guard.recheck, inventory validation, and the preflight of the pinned
\* parent: both names absent.
BeginPreflight(w) ==
  /\ pc[w] = "idle"
  /\ IF custody /\ parentNamed /\ names = [s \in Slot |-> None]
     THEN Goto(w, "begin.mkdir") /\ UNCHANGED poisoned
     ELSE Abandon(w)
  /\ UNCHANGED <<diskVars, retVars, op, left, envVars>>

\* mkdirat of the reserved staging name; EEXIST when it is occupied.
BeginMkdir(w) ==
  /\ pc[w] = "begin.mkdir"
  /\ \/ /\ names["staging"] = None
        /\ born < MaxTrees
        /\ born' = born + 1
        /\ Rebind([names EXCEPT !["staging"] = born + 1])
        /\ Goto(w, "begin.open")
        /\ UNCHANGED poisoned
     \/ /\ names["staging"] # None
        /\ Abandon(w)
        /\ UNCHANGED <<names, recoverable, born>>
  /\ UNCHANGED <<node, entrySynced, dataSynced, parentNamed, custody,
                 retVars, op, left, envVars>>

\* openat2 of whatever the staging name denotes now, fchmod, and the check
\* that it is empty; the descriptor and its observation are retained.
BeginOpen(w) ==
  /\ pc[w] = "begin.open"
  /\ LET t == names["staging"] IN
     IF t # None /\ Present(t) = {}
     THEN /\ held' = [held EXCEPT ![w] = t]
          /\ drift' = Observed(Stamped(t, {Root}), w, {Root})
          /\ Goto(w, "begin.check")
          /\ UNCHANGED poisoned
     ELSE Abandon(w) /\ UNCHANGED <<held, drift>>
  /\ UNCHANGED <<diskVars, known, done, seal, op, left, envVars>>

BeginCheck(w) ==
  /\ pc[w] = "begin.check"
  /\ IF ReauthenticateStaging(w, drift[w], known[w], seal[w]) /\ custody
     THEN Goto(w, "ready") /\ UNCHANGED poisoned
     ELSE Abandon(w)
  /\ UNCHANGED <<diskVars, retVars, op, left, envVars>>

(***************************************************************************)
(* create_directory and create_file                                        *)
(***************************************************************************)

\* Mutant: the entry bound is off by one.
ValidateNewEntryOffByOne(w, p) ==
  /\ p \in Plan
  /\ Cardinality(done[w]) <= MaxEntries
  /\ p \in Files => Cardinality(done[w] \cap Files) + 1 <= MaxBytes
  /\ p \notin known[w]
  /\ Parent[p] \in known[w] \cup {Root}

\* validate_new_entry and its two callers.  Kinds are disjoint by name here,
\* so the kind check is that p is in the projected inventory at all.
ValidateNewEntry(w, p) ==
  /\ p \in Plan
  /\ Cardinality(done[w]) < MaxEntries
  /\ p \in Files => Cardinality(done[w] \cap Files) + 1 <= MaxBytes
  /\ p \notin known[w]
  /\ Parent[p] \in known[w] \cup {Root}

\* The custody precheck and the inner precheck of one operation on p.  On a
\* poisoned transaction the operation is refused and nothing changes.
StartCreate(w, p, phase) ==
  /\ pc[w] = "ready"
  /\ ~poisoned[w]
  /\ IF /\ custody
        /\ ValidateNewEntry(w, p)
        /\ ReauthenticateStaging(w, drift[w], known[w], seal[w])
     THEN Goto(w, phase) /\ op' = [op EXCEPT ![w] = p] /\ UNCHANGED poisoned
     ELSE Poison(w) /\ UNCHANGED op
  /\ UNCHANGED <<diskVars, retVars, left, envVars>>

CreateDirectory(w, p) == p \in Dirs /\ StartCreate(w, p, "dir.mkdir")
CreateFile(w, p) == p \in Files /\ StartCreate(w, p, "file.create")

\* An exclusive creation beneath the retained parent descriptor: p appears,
\* not yet durable, and the parent's timestamps move for every holder.  The
\* parent descriptor of a removed directory accepts no new entry.
PutEntry(w, p, content) ==
  LET t == held[w] IN
  /\ node[t][p] = "absent"
  /\ drift[w][Parent[p]] # "gone"
  /\ node' = [node EXCEPT ![t][p] = content]
  /\ entrySynced' = [entrySynced EXCEPT ![t] = @ \ {p}]
  /\ dataSynced' = [dataSynced EXCEPT ![t] = @ \ {p}]

DirMkdir(w) ==
  /\ pc[w] = "dir.mkdir"
  /\ \/ /\ PutEntry(w, op[w], "dir")
        /\ drift' = Stamped(held[w], {Parent[op[w]]})
        /\ Goto(w, "dir.open")
        /\ UNCHANGED poisoned
     \/ /\ \/ node[held[w]][op[w]] # "absent"
           \/ drift[w][Parent[op[w]]] = "gone"
        /\ Poison(w)
        /\ UNCHANGED <<node, entrySynced, dataSynced, drift>>
  /\ UNCHANGED <<names, recoverable, born, parentNamed, custody, held, known,
                 done, seal, op, left, envVars>>

\* openat2 of the name just made, fchmod, emptiness check; then the
\* directory is retained and recorded in the expected inventory.
DirOpen(w) ==
  /\ pc[w] = "dir.open"
  /\ LET t == held[w]
         p == op[w] IN
     IF node[t][p] \in {"dir", "odd"} /\ ChildrenOf(p) \cap Present(t) = {}
     THEN /\ known' = [known EXCEPT ![w] = @ \cup {p}]
          /\ drift' = Observed(Stamped(t, {p}), w, {p})
          /\ node' = [node EXCEPT ![t][p] = "dir"]
          /\ Goto(w, "dir.check")
          /\ UNCHANGED poisoned
     ELSE Poison(w) /\ UNCHANGED <<known, drift, node>>
  /\ UNCHANGED <<names, recoverable, born, entrySynced, dataSynced,
                 parentNamed, custody, held, done, seal, op, left, envVars>>

\* refresh_directory_observation: only the timestamps of a directory may have
\* moved during the writer's own effect.  (A changed link count shows up as a
\* changed inventory in the reauthentication that always follows.)
Refreshable(w, n) == drift[w][n] \in {"same", "stamp"}

\* finish_guarded_outcome of an operation whose effect succeeded.
FinishOperation(w) ==
  /\ Goto(w, "ready")
  /\ poisoned' = [poisoned EXCEPT ![w] = ~custody]

\* The parent's observation is refreshed, the tree reauthenticated, the entry
\* counted, and custody rechecked.
DirCheck(w) ==
  /\ pc[w] = "dir.check"
  /\ LET refreshed == Observed(drift, w, {Parent[op[w]]}) IN
     IF /\ Refreshable(w, Parent[op[w]])
        /\ ReauthenticateStaging(w, refreshed[w], known[w], seal[w])
     THEN /\ drift' = refreshed
          /\ done' = [done EXCEPT ![w] = @ \cup {op[w]}]
          /\ FinishOperation(w)
     ELSE Poison(w) /\ UNCHANGED <<drift, done>>
  /\ UNCHANGED <<diskVars, held, known, seal, op, left, envVars>>

\* openat2(O_CREAT|O_EXCL), fchmod and the check of an empty, singly linked
\* file; the open file is retained without a digest and recorded.
FileCreate(w) ==
  /\ pc[w] = "file.create"
  /\ \/ /\ PutEntry(w, op[w], "partial")
        /\ drift' = Observed(Stamped(held[w], {Parent[op[w]]}), w, {op[w]})
        /\ known' = [known EXCEPT ![w] = @ \cup {op[w]}]
        /\ Goto(w, "file.check")
        /\ UNCHANGED poisoned
     \/ /\ \/ node[held[w]][op[w]] # "absent"
           \/ drift[w][Parent[op[w]]] = "gone"
        /\ Poison(w)
        /\ UNCHANGED <<node, entrySynced, dataSynced, drift, known>>
  /\ UNCHANGED <<names, recoverable, born, parentNamed, custody, held, done,
                 seal, op, left, envVars>>

\* The parent's observation is refreshed and the tree reauthenticated.
FileCheck(w) ==
  /\ pc[w] = "file.check"
  /\ LET refreshed == Observed(drift, w, {Parent[op[w]]}) IN
     IF /\ Refreshable(w, Parent[op[w]])
        /\ ReauthenticateStaging(w, refreshed[w], known[w], seal[w])
     THEN drift' = refreshed /\ Goto(w, "file.write") /\ UNCHANGED poisoned
     ELSE Poison(w) /\ UNCHANGED drift
  /\ UNCHANGED <<diskVars, held, known, done, seal, op, left, envVars>>

\* write_all through the retained handle.  Bytes put there by someone else
\* meanwhile are overwritten or, past the writer's length, remain.
FileWrite(w) ==
  /\ pc[w] = "file.write"
  /\ LET t == held[w]
         p == op[w] IN
     /\ \E c \in IF drift[w][p] = "gone" \/ node[t][p] = "odd" THEN {node[t][p]}
                 ELSE IF node[t][p] = "foreign" THEN {"bytes", "foreign"}
                 ELSE {"bytes"} :
          node' = [node EXCEPT ![t][p] = c]
     /\ dataSynced' = [dataSynced EXCEPT
          ![t] = IF drift[w][p] = "gone" THEN @ ELSE @ \ {p}]
     /\ drift' = Stamped(t, {p})
  /\ Goto(w, "file.observe")
  /\ UNCHANGED <<names, recoverable, born, entrySynced, parentNamed, custody,
                 held, known, done, seal, poisoned, op, left, envVars>>

\* The file's new metadata is retained when only length and timestamps moved;
\* then reauthentication, flush, reauthentication.
FileObserve(w) ==
  /\ pc[w] = "file.observe"
  /\ LET observed == Observed(drift, w, {op[w]}) IN
     IF /\ Refreshable(w, op[w])
        /\ ReauthenticateStaging(w, observed[w], known[w], seal[w])
     THEN drift' = observed /\ Goto(w, "file.sync") /\ UNCHANGED poisoned
     ELSE Poison(w) /\ UNCHANGED drift
  /\ UNCHANGED <<diskVars, held, known, done, seal, op, left, envVars>>

\* Mutant: the file is flushed, never synchronized.
SyncFileFlushesOnly(w, p) == UNCHANGED dataSynced

\* sync_all makes the bytes of the retained file durable, whatever they are.
SyncFile(w, p) ==
  dataSynced' = [dataSynced EXCEPT
    ![held[w]] = IF drift[w][p] = "gone" THEN @ ELSE @ \cup {p}]

FileSync(w) ==
  /\ pc[w] = "file.sync"
  /\ SyncFile(w, op[w])
  /\ Goto(w, "file.seal")
  /\ UNCHANGED <<names, recoverable, born, node, entrySynced, parentNamed,
                 custody, retVars, poisoned, op, left, envVars>>

\* The metadata must be exactly what it was; the digest of the intended bytes
\* is retained and the whole tree, this file's bytes included, verified.
FileSeal(w) ==
  /\ pc[w] = "file.seal"
  /\ LET sealed == [seal[w] EXCEPT ![op[w]] = "bytes"] IN
     IF ReauthenticateStaging(w, drift[w], known[w], sealed)
     THEN /\ seal' = [seal EXCEPT ![w] = sealed]
          /\ done' = [done EXCEPT ![w] = @ \cup {op[w]}]
          /\ FinishOperation(w)
     ELSE Poison(w) /\ UNCHANGED <<seal, done>>
  /\ UNCHANGED <<diskVars, held, known, drift, op, left, envVars>>

\* The custody recheck right after the publisher's callback.
FinishCallback(w) ==
  IF custody THEN Goto(w, "adopt") /\ UNCHANGED poisoned ELSE Poison(w)

(***************************************************************************)
(* publish_and_adopt_directory_tree                                        *)
(***************************************************************************)

\* Only the first effect of a transaction may be a descriptor-rooted
\* publication, into an empty staging root.
StartPublish(w, d) ==
  /\ d \in Dirs
  /\ pc[w] = "ready"
  /\ ~poisoned[w]
  /\ IF /\ custody
        /\ ValidateNewEntry(w, d)
        /\ Parent[d] = Root
        /\ known[w] = {}
        /\ ReauthenticateStaging(w, drift[w], known[w], seal[w])
     THEN Goto(w, "publish") /\ op' = [op EXCEPT ![w] = d] /\ UNCHANGED poisoned
     ELSE Poison(w) /\ UNCHANGED op
  /\ UNCHANGED <<diskVars, retVars, left, envVars>>

\* The publisher's callback (external): through the borrowed root descriptor
\* it makes the directory and some of its files.  It synchronizes nothing that
\* the transaction relies on.
PublishCallback(w) ==
  /\ pc[w] = "publish"
  /\ LET t == held[w]
         d == op[w] IN
     \/ /\ node[t][d] = "absent"
        /\ \E files \in SUBSET (ChildrenOf(d) \cap Files \cap Plan) :
             node' = [node EXCEPT ![t] =
               [p \in Path |-> IF p = d THEN "dir"
                               ELSE IF p \in files THEN "bytes" ELSE @[p]]]
        /\ entrySynced' = [entrySynced EXCEPT ![t] = @ \ ({d} \cup ChildrenOf(d))]
        /\ dataSynced' = [dataSynced EXCEPT ![t] = @ \ ChildrenOf(d)]
        /\ drift' = Stamped(t, {Root, d} \cup ChildrenOf(d))
        /\ FinishCallback(w)
     \/ /\ node[t][d] # "absent"
        /\ Poison(w)
        /\ UNCHANGED <<node, entrySynced, dataSynced, drift>>
  /\ UNCHANGED <<names, recoverable, born, parentNamed, custody, held, known,
                 done, seal, op, left, envVars>>

\* Everything beneath the one published directory is opened, checked for a
\* private mode and a single link, digested and retained as it now stands.
Adopt(w) ==
  /\ pc[w] = "adopt"
  /\ LET t == held[w]
         there == Present(t) IN
     IF /\ there \cap ChildrenOf(Root) = {op[w]}
        /\ Refreshable(w, Root)
        /\ parentNamed
        /\ names = [staging |-> t, final |-> None]
        /\ \A p \in there : node[t][p] # "odd"
        /\ Cardinality(there) <= MaxEntries
        /\ Cardinality(there \cap Files) <= MaxBytes
     THEN /\ known' = [known EXCEPT ![w] = there]
          /\ done' = [done EXCEPT ![w] = there]
          /\ seal' = [seal EXCEPT ![w] =
               [p \in Path |-> IF p \in Files THEN node[t][p] ELSE "absent"]]
          /\ drift' = Observed(drift, w, there \cup {Root})
          /\ Goto(w, "adopt.check")
          /\ UNCHANGED poisoned
     ELSE Poison(w) /\ UNCHANGED <<known, done, seal, drift>>
  /\ UNCHANGED <<diskVars, held, op, left, envVars>>

AdoptCheck(w) ==
  /\ pc[w] = "adopt.check"
  /\ IF ReauthenticateStaging(w, drift[w], known[w], seal[w])
     THEN FinishOperation(w)
     ELSE Poison(w)
  /\ UNCHANGED <<diskVars, retVars, op, left, envVars>>

(***************************************************************************)
(* commit_durable, and the postcommit reopen                               *)
(***************************************************************************)

\* Mutant: nested directories are not synchronized before the rename.
StartCommitSkipsDirectories(w) ==
  /\ pc[w] = "ready"
  /\ IF /\ ~poisoned[w]
        /\ custody
        /\ known[w] \cap ChildrenOf(Root) = Required
        /\ Cardinality(done[w]) = Cardinality(known[w])
     THEN /\ left' = [left EXCEPT ![w] = (known[w] \cap Files) \cup {Root}]
          /\ Goto(w, "sync.check")
          /\ UNCHANGED poisoned
     ELSE Abandon(w) /\ UNCHANGED left
  /\ UNCHANGED <<diskVars, retVars, op, envVars>>

\* The root closure, the kinds and the entry accounting must match.  The
\* transaction is consumed: from here every error ends it.
StartCommit(w) ==
  /\ pc[w] = "ready"
  /\ IF /\ ~poisoned[w]
        /\ custody
        /\ known[w] \cap ChildrenOf(Root) = Required
        /\ Cardinality(done[w]) = Cardinality(known[w])
     THEN /\ left' = [left EXCEPT ![w] = known[w] \cup {Root}]
          /\ Goto(w, "sync.check")
          /\ UNCHANGED poisoned
     ELSE Abandon(w) /\ UNCHANGED left
  /\ UNCHANGED <<diskVars, retVars, op, envVars>>

\* Files first, then directories, each after the directories made inside it,
\* then the root: what may be synchronized next.
SyncNext(w) ==
  LET files == left[w] \cap Files
      dirs  == left[w] \cap Dirs IN
  IF files # {} THEN files
  ELSE IF dirs # {} THEN {d \in dirs : ChildrenOf(d) \cap dirs = {}}
  ELSE {Root}

SyncCheck(w) ==
  /\ pc[w] = "sync.check"
  /\ IF ReauthenticateStaging(w, drift[w], known[w], seal[w])
     THEN /\ \E n \in SyncNext(w) : op' = [op EXCEPT ![w] = n]
          /\ Goto(w, "sync.do")
          /\ UNCHANGED poisoned
     ELSE Abandon(w) /\ UNCHANGED op
  /\ UNCHANGED <<diskVars, retVars, left, envVars>>

\* Mutant: the synchronized object is not taken off the list.
SyncDoForgetsProgress(w) ==
  /\ pc[w] = "sync.do"
  /\ Goto(w, "sync.check")
  /\ UNCHANGED <<diskVars, retVars, poisoned, op, left, envVars>>

\* sync_all of a file, or fsync of a directory: its current entries become
\* durable.
SyncDo(w) ==
  /\ pc[w] = "sync.do"
  /\ LET t == held[w] IN
     IF op[w] \in Files
     THEN SyncFile(w, op[w]) /\ UNCHANGED entrySynced
     ELSE /\ entrySynced' = [entrySynced EXCEPT ![t] =
               IF drift[w][op[w]] = "gone" THEN @
               ELSE @ \cup (ChildrenOf(op[w]) \cap Present(t))]
          /\ UNCHANGED dataSynced
  /\ left' = [left EXCEPT ![w] = @ \ {op[w]}]
  /\ Goto(w, IF left[w] = {op[w]} THEN "rename.check" ELSE "sync.check")
  /\ UNCHANGED <<names, recoverable, born, node, parentNamed, custody,
                 retVars, poisoned, op, envVars>>

RenameCheck(w) ==
  /\ pc[w] = "rename.check"
  /\ IF ReauthenticateStaging(w, drift[w], known[w], seal[w])
     THEN Goto(w, "rename") /\ UNCHANGED poisoned
     ELSE Abandon(w)
  /\ UNCHANGED <<diskVars, retVars, op, left, envVars>>

\* Mutant: a plain rename, which replaces an existing destination.
RenameReplacing(w) ==
  /\ pc[w] = "rename"
  /\ names["staging"] # None
  /\ Rebind([staging |-> None, final |-> names["staging"]])
  /\ drift' = Stamped(names["staging"], {Root})
  /\ Goto(w, "renamed")
  /\ UNCHANGED <<born, node, entrySynced, dataSynced, parentNamed, custody,
                 held, known, done, seal, poisoned, op, left, envVars>>

\* renameat2(RENAME_NOREPLACE) moves whatever the staging name denotes.
Rename(w) ==
  /\ pc[w] = "rename"
  /\ \/ /\ names["final"] = None
        /\ names["staging"] # None
        /\ Rebind([staging |-> None, final |-> names["staging"]])
        /\ drift' = Stamped(names["staging"], {Root})
        /\ Goto(w, "renamed")
        /\ UNCHANGED poisoned
     \/ /\ names["final"] # None \/ names["staging"] = None
        /\ Abandon(w)
        /\ UNCHANGED <<names, recoverable, drift>>
  /\ UNCHANGED <<born, node, entrySynced, dataSynced, parentNamed, custody,
                 held, known, done, seal, op, left, envVars>>

\* The rename moved the root's ctime: its observation is refreshed, then the
\* tree is reauthenticated beneath the final name.
Renamed(w) ==
  /\ pc[w] = "renamed"
  /\ LET refreshed == Observed(drift, w, {Root}) IN
     IF Refreshable(w, Root) /\ ReauthenticateFinal(w, refreshed[w])
     THEN drift' = refreshed /\ Goto(w, "parent.sync") /\ UNCHANGED poisoned
     ELSE Abandon(w) /\ UNCHANGED drift
  /\ UNCHANGED <<diskVars, held, known, done, seal, op, left, envVars>>

\* Mutant: the parent directory is not synchronized.
ParentNotSynced(w) ==
  /\ pc[w] = "parent.sync"
  /\ Goto(w, "commit.check")
  /\ UNCHANGED <<diskVars, retVars, poisoned, op, left, envVars>>

\* fsync of the parent makes the current names durable.
ParentSync(w) ==
  /\ pc[w] = "parent.sync"
  /\ recoverable' = {names}
  /\ Goto(w, "commit.check")
  /\ UNCHANGED <<names, born, node, entrySynced, dataSynced, parentNamed,
                 custody, retVars, poisoned, op, left, envVars>>

\* A reauthentication beneath the final name and a custody recheck, on the way
\* from one phase to the next.
FinalGate(w, from, to) ==
  /\ pc[w] = from
  /\ IF ReauthenticateFinal(w, drift[w]) /\ custody
     THEN Goto(w, to) /\ UNCHANGED poisoned
     ELSE Abandon(w)
  /\ UNCHANGED <<diskVars, retVars, op, left, envVars>>

CommitCheck(w) == FinalGate(w, "commit.check", "committed")
ReopenCheck(w) == FinalGate(w, "committed", "validate")

\* The semantic validator (external) accepts or rejects the committed view.
Validate(w) ==
  /\ pc[w] = "validate"
  /\ \/ Goto(w, "post.check") /\ UNCHANGED poisoned
     \/ Goto(w, "rejected") /\ UNCHANGED poisoned
  /\ UNCHANGED <<diskVars, retVars, op, left, envVars>>

\* The value escapes only after the closing reauthentication.
Return(w) == FinalGate(w, "post.check", "returned")

(***************************************************************************)
(* The environment                                                         *)
(***************************************************************************)

\* A system call of the step in progress reports an error and has no effect.
Fault(w) ==
  /\ pc[w] \notin Ended \cup {"idle", "ready"}
  /\ faults < MaxFaults
  /\ faults' = faults + 1
  /\ IF pc[w] \in OpPhase THEN Poison(w) ELSE Abandon(w)
  /\ UNCHANGED <<diskVars, retVars, op, left, meddles, crashes>>

Meddle ==
  /\ meddles < MaxMeddles
  /\ meddles' = meddles + 1
  /\ UNCHANGED <<pc, held, known, done, seal, poisoned, op, left, faults,
                 crashes>>

\* Someone makes an entry in a tree.
MeddleCreate(t, p) ==
  /\ Meddle
  /\ t <= born
  /\ node[t][p] = "absent"
  /\ Parent[p] # Root => Parent[p] \in Present(t)
  /\ node' = [node EXCEPT ![t][p] = IF p \in Dirs THEN "dir" ELSE "foreign"]
  /\ drift' = Stamped(t, {Parent[p]})
  /\ UNCHANGED <<names, recoverable, born, entrySynced, dataSynced,
                 parentNamed, custody>>

\* Someone overwrites the bytes of a file.
MeddleWrite(t, f) ==
  /\ Meddle
  /\ f \in Files
  /\ node[t][f] \in {"partial", "bytes"}
  /\ node' = [node EXCEPT ![t][f] = "foreign"]
  /\ dataSynced' = [dataSynced EXCEPT ![t] = @ \ {f}]
  /\ drift' = Stamped(t, {f})
  /\ UNCHANGED <<names, recoverable, born, entrySynced, parentNamed, custody>>

\* Someone links a file a second time, or changes a mode.
MeddleAlter(t, p) ==
  /\ Meddle
  /\ node[t][p] \notin {"absent", "odd"}
  /\ node' = [node EXCEPT ![t][p] = "odd"]
  /\ drift' = [v \in Writers |-> [drift[v] EXCEPT ![p] =
                 IF held[v] = t /\ @ # "gone" THEN "other" ELSE @]]
  /\ UNCHANGED <<names, recoverable, born, entrySynced, dataSynced,
                 parentNamed, custody>>

\* Someone removes an entry: its retained handles are orphaned.
MeddleRemove(t, p) ==
  /\ Meddle
  /\ p \in Present(t)
  /\ ChildrenOf(p) \cap Present(t) = {}
  /\ node' = [node EXCEPT ![t][p] = "absent"]
  /\ drift' = [v \in Writers |-> [Stamped(t, {Parent[p]})[v] EXCEPT ![p] =
                 IF held[v] = t THEN "gone" ELSE @]]
  /\ UNCHANGED <<names, recoverable, born, entrySynced, dataSynced,
                 parentNamed, custody>>

\* Someone moves the tree at a name away, ...
MeddleUnplace(s) ==
  /\ Meddle
  /\ names[s] # None
  /\ Rebind([names EXCEPT ![s] = None])
  /\ drift' = Stamped(names[s], {Root})
  /\ UNCHANGED <<born, node, entrySynced, dataSynced, parentNamed, custody>>

\* ... moves a tree to a free name, ...
MeddlePlace(s, t) ==
  /\ Meddle
  /\ names[s] = None
  /\ t <= born
  /\ \A r \in Slot : names[r] # t
  /\ Rebind([names EXCEPT ![s] = t])
  /\ drift' = Stamped(t, {Root})
  /\ UNCHANGED <<born, node, entrySynced, dataSynced, parentNamed, custody>>

\* ... or makes a directory of that name.
MeddleMkdir(s) ==
  /\ Meddle
  /\ names[s] = None
  /\ born < MaxTrees
  /\ born' = born + 1
  /\ Rebind([names EXCEPT ![s] = born + 1])
  /\ UNCHANGED <<node, entrySynced, dataSynced, parentNamed, custody, drift>>

\* Someone swaps a component of the parent path, or puts it back.
MeddleParent ==
  /\ Meddle
  /\ parentNamed' = ~parentNamed
  /\ UNCHANGED <<fsVars, custody, drift>>

\* The campaign root, an immutable root or the executable changes: every later
\* recheck of the mutation capability fails.
MeddleCustody ==
  /\ Meddle
  /\ custody
  /\ custody' = FALSE
  /\ UNCHANGED <<fsVars, parentNamed, drift>>

\* Entries and bytes of tree t that no fsync covers yet, as <<t, p>>.  What
\* stands beneath an entry that is lost is lost with it.
Losable ==
  {e \in Tree \X Path :
     /\ e[2] \in Present(e[1])
     /\ e[2] \notin entrySynced[e[1]] \/ Parent[e[2]] # Root}
Tearable ==
  {e \in Tree \X Files :
     e[2] \in Present(e[1]) /\ e[2] \notin dataSynced[e[1]]}

LossAllowed(lost) ==
  \A t \in Tree : \A p \in Present(t) :
    /\ <<t, p>> \in lost =>
         p \notin entrySynced[t] \/ <<t, Parent[p]>> \in lost
    /\ <<t, Parent[p]>> \in lost => <<t, p>> \in lost

\* The machine stops and comes back.  Running transactions are gone; the lost
\* entries vanish and the torn files are left without all their bytes.
Crash(lost, torn) ==
  /\ crashes < MaxCrashes
  /\ crashes' = crashes + 1
  /\ LossAllowed(lost)
  /\ \E binding \in recoverable : names' = binding /\ recoverable' = {binding}
  /\ node' = [t \in Tree |-> [p \in Path |->
                IF <<t, p>> \in lost THEN "absent"
                ELSE IF <<t, p>> \in torn THEN "partial" ELSE node[t][p]]]
  /\ entrySynced' = [t \in Tree |-> {p \in Present(t) : <<t, p>> \notin lost}]
  /\ dataSynced' = [t \in Tree |-> {p \in Present(t) : <<t, p>> \notin lost}]
  /\ pc' = [w \in Writers |->
              IF pc[w] \in Ended \cup {"idle"} THEN pc[w] ELSE "dead"]
  /\ UNCHANGED <<born, parentNamed, custody, retVars, poisoned, op, left,
                 meddles, faults>>

(***************************************************************************)
(* The specification                                                       *)
(***************************************************************************)

Begin(w) == BeginPreflight(w) \/ BeginMkdir(w) \/ BeginOpen(w) \/ BeginCheck(w)

Create(w) ==
  \/ \E p \in Path : CreateDirectory(w, p) \/ CreateFile(w, p)
  \/ DirMkdir(w) \/ DirOpen(w) \/ DirCheck(w)
  \/ FileCreate(w) \/ FileCheck(w) \/ FileWrite(w) \/ FileObserve(w)
  \/ FileSync(w) \/ FileSeal(w)

PublishAndAdopt(w) ==
  \/ \E d \in Dirs : StartPublish(w, d)
  \/ PublishCallback(w) \/ Adopt(w) \/ AdoptCheck(w)

Commit(w) ==
  \/ StartCommit(w) \/ SyncCheck(w) \/ SyncDo(w) \/ RenameCheck(w)
  \/ Rename(w) \/ Renamed(w) \/ ParentSync(w) \/ CommitCheck(w)
  \/ ReopenCheck(w) \/ Validate(w) \/ Return(w)

WriterStep(w) == Begin(w) \/ Create(w) \/ PublishAndAdopt(w) \/ Commit(w)

MeddleStep ==
  \/ \E t \in Tree, p \in Path :
       MeddleCreate(t, p) \/ MeddleWrite(t, p) \/ MeddleAlter(t, p)
         \/ MeddleRemove(t, p)
  \/ \E s \in Slot : MeddleUnplace(s) \/ MeddleMkdir(s)
  \/ \E s \in Slot, t \in Tree : MeddlePlace(s, t)
  \/ MeddleParent \/ MeddleCustody

CrashStep ==
  \E lost \in SUBSET Losable, torn \in SUBSET Tearable : Crash(lost, torn)

\* Every transaction has ended and no crash or meddling is left: the system
\* rests.
Rest ==
  /\ \A w \in Writers : pc[w] \in Ended
  /\ UNCHANGED vars

Next ==
  \/ \E w \in Writers : WriterStep(w) \/ Fault(w)
  \/ MeddleStep
  \/ CrashStep
  \/ Rest

Spec == Init /\ [][Next]_vars

\* A process that is scheduled keeps taking its own steps; nothing obliges the
\* environment to meddle, fail or crash.
FairSpec == Spec /\ \A w \in Writers : WF_vars(WriterStep(w))

(***************************************************************************)
(* Properties                                                              *)
(***************************************************************************)

\* Tree t holds exactly what writer w put there, bytes and all, durably.
WholeFor(w, t) ==
  /\ held[w] = t
  /\ Present(t) = known[w]
  /\ Required \subseteq known[w]
  /\ \A f \in known[w] \cap Files : node[t][f] = "bytes" /\ f \in dataSynced[t]
  /\ known[w] \subseteq entrySynced[t]

\* Crash-atomic publication (commit_inner's order of file sync, directory sync,
\* root sync and exclusive rename): unless someone outside the protocol
\* interferes, whatever the final name denotes, at any moment and after any
\* crash, is the whole tree of one writer.
FinalIsWhole ==
  meddles = 0 /\ names["final"] # None =>
    \E w \in Writers : WholeFor(w, names["final"])

\* A returned commit is final (fsync of the parent before commit_durable
\* returns): later crashes, and other writers, leave the final name on the
\* tree of the writer that was told it succeeded.
ReturnedSurvives ==
  meddles = 0 =>
    \A w \in Writers : pc[w] = "returned" => names["final"] = held[w]

\* Competing writers (mkdirat of one reserved name, RENAME_NOREPLACE): at most
\* one is ever told that it succeeded, across crashes and restarts.
SingleWinner ==
  meddles = 0 =>
    \A v, w \in Writers :
      pc[v] = "returned" /\ pc[w] = "returned" => v = w

\* The phases in which w owns the staging name, the final name, and a final
\* name that no crash can take back.
StagedPhase ==
  {"begin.check", "ready", "sync.check", "sync.do", "rename.check", "rename"}
     \cup OpPhase
SettledPhase ==
  {"commit.check", "committed", "validate", "post.check", "returned",
   "rejected"}
PlacedPhase == {"renamed", "parent.sync"} \cup SettledPhase

\* Who owns which name (mkdirat, openat2 of the new directory, renameat2 and
\* fsync of the parent): no two writers ever hold one tree; from mkdirat to
\* openat2 the staging name denotes a tree nobody holds; the names denote the
\* tree of the writer that is building or has published, and once the parent is
\* synchronized they do so after any crash.
Ownership ==
  meddles = 0 =>
    /\ \A w \in Writers : held[w] # None => held[w] <= born
    /\ \A v, w \in Writers : held[v] = held[w] /\ held[w] # None => v = w
    /\ \A w \in Writers : pc[w] = "begin.open" =>
         /\ names["staging"] # None /\ names["staging"] <= born
         /\ \A v \in Writers :
              held[v] # names["staging"] /\ (pc[v] = "begin.open" => v = w)
    /\ \A w \in Writers : pc[w] \in StagedPhase =>
         held[w] # None /\ names["staging"] = held[w]
    /\ \A w \in Writers : pc[w] \in PlacedPhase =>
         held[w] # None /\ names["final"] = held[w]
    /\ \A w \in Writers : pc[w] \in SettledPhase =>
         \A binding \in recoverable : binding["final"] = held[w]

\* What success vouches for even when someone interferes: at the step that
\* returns the value, the final name denotes the very tree the writer built,
\* with its sealed bytes, and nothing of it can be lost in a crash.
ReturnIsSound ==
  [][\A w \in Writers :
       pc[w] # "returned" /\ pc'[w] = "returned" =>
         LET t == held[w] IN
         /\ names["final"] = t
         /\ Present(t) = known[w]
         /\ \A f \in known[w] \cap Files :
              f \in done[w] /\ node[t][f] = seal[w][f] /\ f \in dataSynced[t]
         /\ known[w] \subseteq entrySynced[t]
         /\ \A binding \in recoverable : binding["final"] = t]_vars

\* Create-only effects, even when someone interferes between a check and the
\* call it protects: no step of a writer takes the final name from the tree it
\* denotes, or changes an entry other than the file that writer is filling.
NothingIsReplaced ==
  [][meddles' = meddles /\ crashes' = crashes =>
       /\ names["final"] # None => names'["final"] = names["final"]
       /\ \A t \in Tree : \A p \in Present(t) :
            \/ node'[t][p] = node[t][p]
            \/ \E w \in Writers :
                 held[w] = t /\ op[w] = p /\ pc[w] \in {"file.write", "dir.open"}]_vars

\* The compiled bounds hold for what a transaction retains, adopted or created.
WithinCompiledBounds ==
  \A w \in Writers :
    /\ Cardinality(known[w]) <= MaxEntries
    /\ Cardinality(done[w] \cap Files) <= MaxBytes

\* Every transaction ends: no reauthentication loop, nobody waits for anybody.
EveryTransactionEnds == \A w \in Writers : <>(pc[w] \in Ended)

\* The transaction implements a destination that is written at most once.
Once == INSTANCE CreateOnce WITH
  published <-
    IF names["final"] = None THEN None
    ELSE IF \E w \in Writers : WholeFor(w, names["final"])
         THEN CHOOSE w \in Writers : WholeFor(w, names["final"])
         ELSE "torn",
  outcome <-
    [w \in Writers |->
       IF pc[w] = "returned" THEN "won"
       ELSE IF pc[w] \in {"failed", "rejected", "dead"} THEN "lost" ELSE "open"]

\* Unless someone interferes, every step of the writers, every failing call and
\* every crash is a step of CreateOnce or none at all.
ImplementsCreateOnce == Once!OnceSpec
=============================================================================
