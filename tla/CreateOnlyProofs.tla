-------------------------- MODULE CreateOnlyProofs --------------------------
(***************************************************************************)
(* Proofs about the create-only transaction, for any number of writers, any*)
(* inventory and any bounds.  The parts build on one another:              *)
(*                                                                         *)
(*   types         every variable keeps its type;                          *)
(*   the ledger    what a transaction retains and counts stays within the  *)
(*                 compiled bounds;                                        *)
(*   trees         every tree stays closed under parents, and no step of a *)
(*                 writer replaces anything;                               *)
(*   durability    what a commit has synchronized stays so, or the change  *)
(*                 shows in the drift; hence a returned commit is sound;   *)
(*   owners        who owns which name while nobody interferes;            *)
(*   the final     while nobody interferes, the final name denotes the     *)
(*   name          whole tree of one writer;                               *)
(*   CreateOnce    the refinement.                                         *)
(*                                                                         *)
(* The first four hold whatever outsiders do.                              *)
(***************************************************************************)
EXTENDS CreateOnly, FiniteSetTheorems, TLAPS

\* Phases in which the staging root is retained.
Active == {"begin.check", "ready"} \cup OpPhase \cup CommitPhase

(***************************************************************************)
(* Type correctness.  TypeOK is inductive together with what the program   *)
(* counter says of the retained root and of the operation's path.  It is   *)
(* split by who owns the variables, so that a step has to be examined only *)
(* for the parts it touches.                                               *)
(***************************************************************************)

FsOK ==
  /\ names \in NameState
  /\ recoverable \in SUBSET NameState
  /\ born \in 0..MaxTrees
  /\ node \in [Tree -> [Path -> Content]]
  /\ entrySynced \in [Tree -> SUBSET Path]
  /\ dataSynced \in [Tree -> SUBSET Path]
  /\ parentNamed \in BOOLEAN
  /\ custody \in BOOLEAN

RetOK ==
  /\ held \in [Writers -> Tree \cup {None}]
  /\ known \in [Writers -> SUBSET Path]
  /\ done \in [Writers -> SUBSET Path]
  /\ seal \in [Writers -> [Path -> Content]]
  /\ drift \in [Writers -> [Node -> Drift]]

CtlOK ==
  /\ poisoned \in [Writers -> BOOLEAN]
  /\ op \in [Writers -> Node]
  /\ left \in [Writers -> SUBSET Node]

EnvOK ==
  /\ meddles \in 0..MaxMeddles
  /\ faults \in 0..MaxFaults
  /\ crashes \in 0..MaxCrashes

PcOK ==
  /\ pc \in [Writers -> Phase]
  /\ \A w \in Writers :
       /\ pc[w] \in Active => held[w] \in Tree
       /\ pc[w] \in OpPhase => op[w] \in Path

TypeInv == FsOK /\ RetOK /\ CtlOK /\ EnvOK /\ PcOK

LEMMA TypeInvImpliesTypeOK == TypeInv => TypeOK
BY DEF TypeInv, TypeOK, FsOK, RetOK, CtlOK, EnvOK, PcOK

\* How the sets of phases lie.
LEMMA Phases ==
  /\ Active \subseteq Phase /\ Ended \subseteq Phase
  /\ OpPhase \subseteq Active /\ CommitPhase \subseteq Active
  /\ Ended \cap Active = {} /\ OpPhase \cap CommitPhase = {}
  /\ "ready" \in Active \ OpPhase
  /\ "failed" \in Ended
BY DEF Phase, Active, Ended, BeginPhase, OpPhase, CommitPhase

\* A step of w that keeps its root and its path, and moves it between phases
\* that need no more than the phase it leaves.
LEMMA PcStep ==
  ASSUME PcOK, NEW w \in Writers, NEW x \in Phase,
         pc' = [pc EXCEPT ![w] = x], held' = held, op' = op,
         x \in Active => pc[w] \in Active,
         x \in OpPhase => pc[w] \in OpPhase
  PROVE  PcOK'
BY DEF PcOK

\* The same when the step chooses the path of a new operation.
LEMMA PcStepNewOp ==
  ASSUME PcOK, NEW w \in Writers, NEW x \in Phase, NEW p,
         CtlOK, pc' = [pc EXCEPT ![w] = x], held' = held,
         op' = [op EXCEPT ![w] = p],
         x \in Active => pc[w] \in Active,
         x \in OpPhase => p \in Path
  PROVE  PcOK'
BY DEF PcOK, CtlOK

\* A change of timestamps leaves every drift a drift.
LEMMA StampedType ==
  ASSUME RetOK, NEW t, NEW N
  PROVE  Stamped(t, N) \in [Writers -> [Node -> Drift]]
BY DEF RetOK, Stamped, Drift

\* Retaining a fresh observation leaves every drift a drift.
LEMMA ObservedType ==
  ASSUME NEW d \in [Writers -> [Node -> Drift]], NEW w \in Writers, NEW N
  PROVE  Observed(d, w, N) \in [Writers -> [Node -> Drift]]
BY DEF Observed, Drift

\* The paths and the root are the nodes.
LEMMA Nodes == Path \subseteq Node /\ Root \in Node /\ Dirs \subseteq Path /\ Files \subseteq Path
BY DEF Node, Path

\* The poisoned flag stays a flag.
LEMMA PoisonType ==
  ASSUME CtlOK, NEW w \in Writers, FsOK,
         Poison(w) \/ FinishOperation(w) \/ UNCHANGED poisoned,
         op' \in [Writers -> Node], left' \in [Writers -> SUBSET Node]
  PROVE  CtlOK'
BY DEF CtlOK, FsOK, Poison, FinishOperation

\* One step of begin.
LEMMA BeginType ==
  ASSUME TypeInv, NEW w \in Writers, Begin(w)
  PROVE  TypeInv'
<1> USE DEF TypeInv
<1>0. CtlOK' /\ EnvOK'
  BY DEF Begin, BeginPreflight, BeginMkdir, BeginOpen, BeginCheck, Abandon,
         CtlOK, EnvOK, envVars
<1>1. CASE BeginPreflight(w)
  <2>1. FsOK' /\ RetOK' /\ held' = held /\ op' = op
    BY <1>1 DEF BeginPreflight, diskVars, retVars, FsOK, RetOK
  <2>2. PICK x \in {"begin.mkdir", "failed"} : pc' = [pc EXCEPT ![w] = x]
    BY <1>1 DEF BeginPreflight, Goto, Abandon
  <2>3. x \in Phase \ (Active \cup OpPhase)
    BY DEF Phase, Active, Ended, BeginPhase, OpPhase, CommitPhase
  <2>4. QED
    BY <1>0, <2>1, <2>2, <2>3, PcStep
<1>2. CASE BeginMkdir(w)
  <2>1. RetOK' /\ held' = held /\ op' = op
    BY <1>2 DEF BeginMkdir, retVars, RetOK
  <2>2. PICK x \in {"begin.open", "failed"} : pc' = [pc EXCEPT ![w] = x]
    BY <1>2 DEF BeginMkdir, Goto, Abandon
  <2>3. x \in Phase \ (Active \cup OpPhase)
    BY DEF Phase, Active, Ended, BeginPhase, OpPhase, CommitPhase
  <2>4. FsOK'
    <3>1. CASE UNCHANGED <<names, recoverable, born>>
      BY <1>2, <3>1 DEF BeginMkdir, FsOK
    <3>2. CASE /\ born < MaxTrees /\ born' = born + 1
               /\ Rebind([names EXCEPT !["staging"] = born + 1])
      <4>1. born' \in 0..MaxTrees /\ born + 1 \in Tree
        BY <3>2, BoundAssumption DEF Tree, FsOK
      <4>2. names' \in NameState /\ recoverable' \in SUBSET NameState
        BY <3>2, <4>1 DEF Rebind, NameState, Slot, FsOK
      <4>3. QED
        BY <1>2, <4>1, <4>2 DEF BeginMkdir, FsOK
    <3>3. QED
      BY <1>2, <3>1, <3>2 DEF BeginMkdir
  <2>5. QED
    BY <1>0, <2>1, <2>2, <2>3, <2>4, PcStep
<1>3. CASE BeginOpen(w)
  <2> DEFINE t == names["staging"]
  <2>0. FsOK'
    BY <1>3 DEF BeginOpen, diskVars, FsOK
  <2>1. Observed(Stamped(t, {Root}), w, {Root})
          \in [Writers -> [Node -> Drift]]
    BY StampedType, ObservedType
  <2>2. CASE t # None /\ Present(t) = {}
    <3>1. t \in Tree
      BY <2>2 DEF NameState, Slot, FsOK
    <3>2. /\ held' = [held EXCEPT ![w] = t]
          /\ pc' = [pc EXCEPT ![w] = "begin.check"]
          /\ drift' \in [Writers -> [Node -> Drift]]
          /\ UNCHANGED <<known, done, seal, op>>
      BY <1>3, <2>1, <2>2 DEF BeginOpen, Goto
    <3>3. RetOK'
      BY <3>1, <3>2 DEF RetOK
    <3>4. "begin.check" \in Phase \ OpPhase
      BY DEF Phase, BeginPhase, OpPhase
    <3>5. PcOK'
      BY <3>1, <3>2, <3>4 DEF PcOK, RetOK
    <3>6. QED
      BY <1>0, <2>0, <3>3, <3>5
  <2>3. CASE ~(t # None /\ Present(t) = {})
    <3>1. pc' = [pc EXCEPT ![w] = "failed"] /\ UNCHANGED <<retVars, op>>
      BY <1>3, <2>3 DEF BeginOpen, Goto, Abandon, retVars
    <3>2. RetOK' /\ PcOK'
      BY <3>1, Phases, PcStep DEF RetOK, retVars
    <3>3. QED
      BY <1>0, <2>0, <3>2
  <2>4. QED
    BY <2>2, <2>3
<1>4. CASE BeginCheck(w)
  <2>1. FsOK' /\ RetOK' /\ held' = held /\ op' = op
    BY <1>4 DEF BeginCheck, diskVars, retVars, FsOK, RetOK
  <2>2. PICK x \in {"ready", "failed"} : pc' = [pc EXCEPT ![w] = x]
    BY <1>4 DEF BeginCheck, Goto, Abandon
  <2>3. pc[w] \in Active
    BY <1>4 DEF BeginCheck, Active
  <2>4. QED
    BY <1>0, <2>1, <2>2, <2>3, Phases, PcStep
<1>5. QED
  BY <1>1, <1>2, <1>3, <1>4 DEF Begin

\* The start of an operation on a path that its action names.
LEMMA StartType ==
  ASSUME TypeInv, NEW w \in Writers, NEW p \in Path, NEW x \in OpPhase,
         pc[w] = "ready", UNCHANGED <<diskVars, retVars, left, envVars>>,
         \/ Goto(w, x) /\ op' = [op EXCEPT ![w] = p] /\ UNCHANGED poisoned
         \/ Poison(w) /\ UNCHANGED op
  PROVE  TypeInv'
<1> USE DEF TypeInv
<1>1. FsOK' /\ RetOK' /\ EnvOK'
  BY DEF diskVars, retVars, envVars, FsOK, RetOK, EnvOK
<1>2. CtlOK'
  <2>1. op' \in [Writers -> Node] /\ left' \in [Writers -> SUBSET Node]
    BY Nodes DEF CtlOK
  <2>2. QED
    BY <2>1, PoisonType
<1>3. PcOK'
  <2>1. CASE Goto(w, x) /\ op' = [op EXCEPT ![w] = p]
    BY <2>1, Phases, PcStepNewOp DEF Goto, retVars
  <2>2. CASE Poison(w) /\ UNCHANGED op
    BY <2>2, Phases, PcStep DEF Poison, Goto, retVars
  <2>3. QED
    BY <2>1, <2>2
<1>4. QED
  BY <1>1, <1>2, <1>3

\* A step inside an operation: on to its next phase, or out of it.
LEMMA OperationStep ==
  ASSUME TypeInv, NEW w \in Writers, NEW x \in OpPhase, pc[w] \in OpPhase,
         UNCHANGED <<held, op, left, envVars>>, FsOK', RetOK',
         (Goto(w, x) /\ UNCHANGED poisoned) \/ Poison(w) \/ FinishOperation(w)
  PROVE  TypeInv'
<1> USE DEF TypeInv
<1>1. EnvOK'
  BY DEF EnvOK, envVars
<1>2. CtlOK'
  BY PoisonType DEF CtlOK
<1>3. PICK y \in OpPhase \cup {"ready"} : pc' = [pc EXCEPT ![w] = y]
  BY DEF Goto, Poison, FinishOperation
<1>4. PcOK'
  BY <1>3, Phases, PcStep
<1>5. QED
  BY <1>1, <1>2, <1>4

\* Inside an operation the root is retained and the path is one of the tree.
LEMMA OperationHas ==
  ASSUME TypeInv, NEW w \in Writers, pc[w] \in OpPhase
  PROVE  held[w] \in Tree /\ op[w] \in Path
BY Phases DEF TypeInv, PcOK

\* An entry of a tree is given new content.
LEMMA PutType ==
  ASSUME FsOK, NEW t \in Tree, NEW p \in Path, NEW c \in Content
  PROVE  [node EXCEPT ![t][p] = c] \in [Tree -> [Path -> Content]]
BY DEF FsOK

\* A path joins or leaves one of a family of sets.
LEMMA SetType ==
  ASSUME NEW I, NEW E, NEW f \in [I -> SUBSET E], NEW i \in I,
         NEW X \in SUBSET E
  PROVE  [f EXCEPT ![i] = X] \in [I -> SUBSET E]
OBVIOUS

\* An exclusive creation leaves the filesystem well typed.
LEMMA PutEntryType ==
  ASSUME FsOK, NEW w \in Writers, NEW p \in Path, NEW c \in Content,
         held[w] \in Tree, PutEntry(w, p, c),
         UNCHANGED <<names, recoverable, born, parentNamed, custody>>
  PROVE  FsOK'
<1> DEFINE t == held[w]
<1>1. node' \in [Tree -> [Path -> Content]]
  BY PutType DEF PutEntry
<1>2. entrySynced[t] \ {p} \in SUBSET Path /\ dataSynced[t] \ {p} \in SUBSET Path
  BY DEF FsOK
<1>3. entrySynced' = [entrySynced EXCEPT ![t] = entrySynced[t] \ {p}]
  BY DEF PutEntry
<1>4. dataSynced' = [dataSynced EXCEPT ![t] = dataSynced[t] \ {p}]
  BY DEF PutEntry
<1>5. entrySynced' \in [Tree -> SUBSET Path] /\ dataSynced' \in [Tree -> SUBSET Path]
  BY <1>2, <1>3, <1>4, SetType DEF FsOK
<1>6. QED
  BY <1>1, <1>5 DEF FsOK

\* One step of create_directory or create_file.
LEMMA CreateType ==
  ASSUME TypeInv, NEW w \in Writers, Create(w)
  PROVE  TypeInv'
<1> USE DEF TypeInv
<1>1. ASSUME NEW p \in Path, CreateDirectory(w, p) \/ CreateFile(w, p)
      PROVE  TypeInv'
  <2>1. "dir.mkdir" \in OpPhase /\ "file.create" \in OpPhase
    BY DEF OpPhase
  <2>2. PICK x \in {"dir.mkdir", "file.create"} : StartCreate(w, p, x)
    BY <1>1 DEF CreateDirectory, CreateFile
  <2>3. QED
    BY <2>1, <2>2, StartType DEF StartCreate
<1>2. CASE DirMkdir(w)
  <2>1. pc[w] \in OpPhase /\ "dir.open" \in OpPhase
    BY <1>2 DEF DirMkdir, OpPhase
  <2>2. Stamped(held[w], {Parent[op[w]]}) \in [Writers -> [Node -> Drift]]
    BY StampedType
  <2>3. FsOK'
    <3>1. held[w] \in Tree /\ op[w] \in Path /\ "dir" \in Content
      BY <2>1, OperationHas DEF Content
    <3>2. CASE PutEntry(w, op[w], "dir")
      BY <1>2, <3>1, <3>2, PutEntryType DEF DirMkdir
    <3>3. CASE UNCHANGED <<node, entrySynced, dataSynced, drift>>
      BY <1>2, <3>3 DEF DirMkdir, FsOK
    <3>4. QED
      BY <1>2, <3>2, <3>3 DEF DirMkdir
  <2>4. RetOK'
    BY <1>2, <2>2 DEF DirMkdir, RetOK
  <2>5. QED
    BY <1>2, <2>1, <2>3, <2>4, OperationStep DEF DirMkdir
<1>3. CASE DirOpen(w)
  <2>1. pc[w] \in OpPhase /\ "dir.check" \in OpPhase
    BY <1>3 DEF DirOpen, OpPhase
  <2>2. Observed(Stamped(held[w], {op[w]}), w, {op[w]})
          \in [Writers -> [Node -> Drift]]
    BY StampedType, ObservedType
  <2>0. held[w] \in Tree /\ op[w] \in Path /\ "dir" \in Content
    BY <2>1, OperationHas DEF Content
  <2>3. FsOK'
    <3>1. node' = node \/ node' = [node EXCEPT ![held[w]][op[w]] = "dir"]
      BY <1>3 DEF DirOpen
    <3>2. node' \in [Tree -> [Path -> Content]]
      <4>1. [node EXCEPT ![held[w]][op[w]] = "dir"] \in [Tree -> [Path -> Content]]
        BY <2>0, PutType
      <4>2. QED
        BY <3>1, <4>1 DEF FsOK
    <3>3. QED
      BY <1>3, <3>2 DEF DirOpen, FsOK
  <2>4. RetOK'
    <3>1. known[w] \cup {op[w]} \in SUBSET Path
      BY <2>0 DEF RetOK
    <3>2. \/ known' = [known EXCEPT ![w] = known[w] \cup {op[w]}]
          \/ known' = known
      BY <1>3 DEF DirOpen
    <3>3. known' \in [Writers -> SUBSET Path]
      BY <3>1, <3>2, SetType DEF RetOK
    <3>4. drift' \in [Writers -> [Node -> Drift]]
      BY <1>3, <2>2 DEF DirOpen, RetOK
    <3>5. QED
      BY <1>3, <3>3, <3>4 DEF DirOpen, RetOK
  <2>5. QED
    BY <1>3, <2>1, <2>3, <2>4, OperationStep DEF DirOpen
<1>4. CASE DirCheck(w)
  <2>1. pc[w] \in OpPhase /\ OpPhase # {}
    BY <1>4 DEF DirCheck, OpPhase
  <2>2. Observed(drift, w, {Parent[op[w]]}) \in [Writers -> [Node -> Drift]]
    BY ObservedType DEF RetOK
  <2>3. FsOK'
    BY <1>4 DEF DirCheck, diskVars, FsOK
  <2>4. RetOK'
    <3>1. done[w] \cup {op[w]} \in SUBSET Path
      BY <2>1, OperationHas DEF RetOK
    <3>2. \/ done' = [done EXCEPT ![w] = done[w] \cup {op[w]}]
          \/ done' = done
      BY <1>4 DEF DirCheck
    <3>3. done' \in [Writers -> SUBSET Path]
      BY <3>1, <3>2, SetType DEF RetOK
    <3>4. drift' \in [Writers -> [Node -> Drift]]
      BY <1>4, <2>2 DEF DirCheck, RetOK
    <3>5. QED
      BY <1>4, <3>3, <3>4 DEF DirCheck, RetOK
  <2>5. QED
    BY <1>4, <2>1, <2>3, <2>4, OperationStep DEF DirCheck
<1>5. CASE FileCreate(w)
  <2>1. pc[w] \in OpPhase /\ "file.check" \in OpPhase
    BY <1>5 DEF FileCreate, OpPhase
  <2>2. Observed(Stamped(held[w], {Parent[op[w]]}), w, {op[w]})
          \in [Writers -> [Node -> Drift]]
    BY StampedType, ObservedType
  <2>0. held[w] \in Tree /\ op[w] \in Path /\ "partial" \in Content
    BY <2>1, OperationHas DEF Content
  <2>3. FsOK'
    <3>1. CASE PutEntry(w, op[w], "partial")
      BY <1>5, <2>0, <3>1, PutEntryType DEF FileCreate
    <3>2. CASE UNCHANGED <<node, entrySynced, dataSynced, drift, known>>
      BY <1>5, <3>2 DEF FileCreate, FsOK
    <3>3. QED
      BY <1>5, <3>1, <3>2 DEF FileCreate
  <2>4. RetOK'
    <3>1. known[w] \cup {op[w]} \in SUBSET Path
      BY <2>0 DEF RetOK
    <3>2. \/ known' = [known EXCEPT ![w] = known[w] \cup {op[w]}]
          \/ known' = known
      BY <1>5 DEF FileCreate
    <3>3. known' \in [Writers -> SUBSET Path]
      BY <3>1, <3>2, SetType DEF RetOK
    <3>4. drift' \in [Writers -> [Node -> Drift]]
      BY <1>5, <2>2 DEF FileCreate, RetOK
    <3>5. QED
      BY <1>5, <3>3, <3>4 DEF FileCreate, RetOK
  <2>5. QED
    BY <1>5, <2>1, <2>3, <2>4, OperationStep DEF FileCreate
<1>6. CASE FileCheck(w)
  <2>1. pc[w] \in OpPhase /\ "file.write" \in OpPhase
    BY <1>6 DEF FileCheck, OpPhase
  <2>2. Observed(drift, w, {Parent[op[w]]}) \in [Writers -> [Node -> Drift]]
    BY ObservedType DEF RetOK
  <2>3. FsOK' /\ RetOK'
    BY <1>6, <2>2 DEF FileCheck, diskVars, FsOK, RetOK
  <2>4. QED
    BY <1>6, <2>1, <2>3, OperationStep DEF FileCheck
<1>7. CASE FileWrite(w)
  <2>1. pc[w] \in OpPhase /\ "file.observe" \in OpPhase
    BY <1>7 DEF FileWrite, OpPhase
  <2>2. Stamped(held[w], {op[w]}) \in [Writers -> [Node -> Drift]]
    BY StampedType
  <2>3. held[w] \in Tree /\ op[w] \in Path
    BY <2>1, Phases DEF PcOK
  <2>4. node[held[w]][op[w]] \in Content
    BY <2>3 DEF FsOK
  <2>5. node' \in [Tree -> [Path -> Content]]
    <3>1. PICK c \in Content : node' = [node EXCEPT ![held[w]][op[w]] = c]
      BY <1>7, <2>4 DEF FileWrite, Content
    <3>2. QED
      BY <2>3, <3>1, PutType
  <2>6. FsOK'
    <3>1. PICK X \in SUBSET Path : dataSynced' = [dataSynced EXCEPT ![held[w]] = X]
      <4>1. /\ dataSynced[held[w]] \in SUBSET Path
            /\ dataSynced[held[w]] \ {op[w]} \in SUBSET Path
        BY <2>3 DEF FsOK
      <4>2. \/ dataSynced' = [dataSynced EXCEPT ![held[w]] = dataSynced[held[w]]]
            \/ dataSynced' = [dataSynced EXCEPT
                               ![held[w]] = dataSynced[held[w]] \ {op[w]}]
        BY <1>7 DEF FileWrite
      <4>3. QED
        BY <4>1, <4>2
    <3>2. dataSynced' \in [Tree -> SUBSET Path]
      BY <2>3, <3>1, SetType DEF FsOK
    <3>3. QED
      BY <1>7, <2>5, <3>2 DEF FileWrite, FsOK
  <2>7. RetOK'
    BY <1>7, <2>2 DEF FileWrite, RetOK
  <2>8. QED
    BY <1>7, <2>1, <2>6, <2>7, OperationStep DEF FileWrite
<1>8. CASE FileObserve(w)
  <2>1. pc[w] \in OpPhase /\ "file.sync" \in OpPhase
    BY <1>8 DEF FileObserve, OpPhase
  <2>2. Observed(drift, w, {op[w]}) \in [Writers -> [Node -> Drift]]
    BY ObservedType DEF RetOK
  <2>3. FsOK' /\ RetOK'
    BY <1>8, <2>2 DEF FileObserve, diskVars, FsOK, RetOK
  <2>4. QED
    BY <1>8, <2>1, <2>3, OperationStep DEF FileObserve
<1>9. CASE FileSync(w)
  <2>1. pc[w] \in OpPhase /\ "file.seal" \in OpPhase
    BY <1>9 DEF FileSync, OpPhase
  <2>2. FsOK'
    BY <1>9, <2>1 DEF FileSync, SyncFile, FsOK, PcOK
  <2>3. RetOK' /\ held' = held
    BY <1>9 DEF FileSync, retVars, RetOK
  <2>4. QED
    BY <1>9, <2>1, <2>2, <2>3, OperationStep DEF FileSync
<1>10. CASE FileSeal(w)
  <2>1. pc[w] \in OpPhase /\ OpPhase # {}
    BY <1>10 DEF FileSeal, OpPhase
  <2>2. [seal[w] EXCEPT ![op[w]] = "bytes"] \in [Path -> Content]
    BY DEF Content, RetOK
  <2>3. FsOK'
    BY <1>10 DEF FileSeal, diskVars, FsOK
  <2>4. RetOK'
    <3>1. done[w] \cup {op[w]} \in SUBSET Path
      BY <2>1, OperationHas DEF RetOK
    <3>2. \/ done' = [done EXCEPT ![w] = done[w] \cup {op[w]}]
          \/ done' = done
      BY <1>10 DEF FileSeal
    <3>3. done' \in [Writers -> SUBSET Path]
      BY <3>1, <3>2, SetType DEF RetOK
    <3>4. seal' \in [Writers -> [Path -> Content]]
      BY <1>10, <2>2 DEF FileSeal, RetOK
    <3>5. QED
      BY <1>10, <3>3, <3>4 DEF FileSeal, RetOK
  <2>5. QED
    BY <1>10, <2>1, <2>3, <2>4, OperationStep DEF FileSeal
<1>11. QED
  BY <1>1, <1>2, <1>3, <1>4, <1>5, <1>6, <1>7, <1>8, <1>9, <1>10 DEF Create

\* One step of publish_and_adopt_directory_tree.
LEMMA PublishType ==
  ASSUME TypeInv, NEW w \in Writers, PublishAndAdopt(w)
  PROVE  TypeInv'
<1> USE DEF TypeInv
<1>1. ASSUME NEW d \in Dirs, StartPublish(w, d)
      PROVE  TypeInv'
  <2>1. "publish" \in OpPhase /\ d \in Path
    BY Nodes DEF OpPhase
  <2>2. QED
    BY <1>1, <2>1, StartType DEF StartPublish
<1>2. CASE PublishCallback(w)
  <2>1. pc[w] \in OpPhase /\ "adopt" \in OpPhase
    BY <1>2 DEF PublishCallback, OpPhase
  <2>2. Stamped(held[w], {Root, op[w]} \cup ChildrenOf(op[w]))
          \in [Writers -> [Node -> Drift]]
    BY StampedType
  <2>0. held[w] \in Tree /\ op[w] \in Path
    BY <2>1, OperationHas
  <2>3. node' \in [Tree -> [Path -> Content]]
    <3>1. ASSUME NEW X, node' = [node EXCEPT ![held[w]] =
            [p \in Path |-> IF p = op[w] THEN "dir"
                            ELSE IF p \in X THEN "bytes" ELSE @[p]]]
          PROVE  node' \in [Tree -> [Path -> Content]]
      <4>1. [p \in Path |-> IF p = op[w] THEN "dir"
               ELSE IF p \in X THEN "bytes" ELSE node[held[w]][p]]
              \in [Path -> Content]
        BY <2>0 DEF FsOK, Content
      <4>2. QED
        BY <3>1, <4>1 DEF FsOK
    <3>2. CASE node' = node
      BY <3>2 DEF FsOK
    <3>3. QED
      BY <1>2, <3>1, <3>2 DEF PublishCallback
  <2>4. FsOK'
    <3> DEFINE t == held[w]
               E == entrySynced[t] \ ({op[w]} \cup ChildrenOf(op[w]))
               D == dataSynced[t] \ ChildrenOf(op[w])
    <3>1. E \in SUBSET Path /\ D \in SUBSET Path
      BY <2>0 DEF FsOK
    <3>2. /\ entrySynced' = [entrySynced EXCEPT ![t] = E] \/ entrySynced' = entrySynced
          /\ dataSynced' = [dataSynced EXCEPT ![t] = D] \/ dataSynced' = dataSynced
      BY <1>2 DEF PublishCallback
    <3>3. /\ entrySynced' \in [Tree -> SUBSET Path]
          /\ dataSynced' \in [Tree -> SUBSET Path]
      <4> HIDE DEF E, D
      <4>1. QED BY <2>0, <3>1, <3>2, SetType DEF FsOK
    <3>4. QED
      BY <1>2, <2>3, <3>3 DEF PublishCallback, FsOK
  <2>5. RetOK'
    BY <1>2, <2>2 DEF PublishCallback, RetOK
  <2>6. QED
    BY <1>2, <2>1, <2>4, <2>5, OperationStep DEF PublishCallback, FinishCallback
<1>3. CASE Adopt(w)
  <2>1. pc[w] \in OpPhase /\ "adopt.check" \in OpPhase
    BY <1>3 DEF Adopt, OpPhase
  <2>2. Observed(drift, w, Present(held[w]) \cup {Root})
          \in [Writers -> [Node -> Drift]]
    BY ObservedType DEF RetOK
  <2>3. held[w] \in Tree
    BY <2>1, Phases DEF PcOK
  <2>4. [p \in Path |-> IF p \in Files THEN node[held[w]][p] ELSE "absent"]
          \in [Path -> Content]
    BY <2>3 DEF FsOK, Content
  <2>5. Present(held[w]) \in SUBSET Path
    BY DEF Present
  <2>6. FsOK' /\ RetOK'
    <3>1. FsOK'
      BY <1>3 DEF Adopt, diskVars, FsOK
    <3>2. CASE UNCHANGED <<known, done, seal, drift>>
      BY <1>3, <3>1, <3>2 DEF Adopt, RetOK
    <3>3. CASE ~UNCHANGED <<known, done, seal, drift>>
      <4>1. /\ known' = [known EXCEPT ![w] = Present(held[w])]
            /\ done' = [done EXCEPT ![w] = Present(held[w])]
        BY <1>3, <3>3 DEF Adopt
      <4>2. known' \in [Writers -> SUBSET Path] /\ done' \in [Writers -> SUBSET Path]
        BY <2>5, <4>1, SetType DEF RetOK
      <4>3. seal' \in [Writers -> [Path -> Content]]
        BY <1>3, <2>4, <3>3 DEF Adopt, RetOK
      <4>4. drift' \in [Writers -> [Node -> Drift]] /\ held' = held
        BY <1>3, <2>2, <3>3 DEF Adopt
      <4>5. QED
        BY <3>1, <4>2, <4>3, <4>4 DEF RetOK
    <3>4. QED
      BY <3>2, <3>3
  <2>7. QED
    BY <1>3, <2>1, <2>6, OperationStep DEF Adopt
<1>4. CASE AdoptCheck(w)
  <2>1. pc[w] \in OpPhase /\ OpPhase # {}
    BY <1>4 DEF AdoptCheck, OpPhase
  <2>2. FsOK' /\ RetOK' /\ held' = held
    BY <1>4 DEF AdoptCheck, diskVars, retVars, FsOK, RetOK
  <2>3. QED
    BY <1>4, <2>1, <2>2, OperationStep DEF AdoptCheck
<1>5. QED
  BY <1>1, <1>2, <1>3, <1>4 DEF PublishAndAdopt

\* A step that only moves w on within, or out of, the phases that retain a
\* root.
LEMMA ActiveStep ==
  ASSUME TypeInv, NEW w \in Writers, NEW x \in Phase \ OpPhase,
         pc[w] \in Active, pc' = [pc EXCEPT ![w] = x],
         UNCHANGED <<held, op, poisoned, envVars>>, FsOK', RetOK',
         left' \in [Writers -> SUBSET Node]
  PROVE  TypeInv'
<1> USE DEF TypeInv
<1>1. EnvOK'
  BY DEF EnvOK, envVars
<1>2. CtlOK'
  BY DEF CtlOK
<1>3. PcOK'
  BY PcStep
<1>4. QED
  BY <1>1, <1>2, <1>3

\* One step of commit or of the postcommit reopen.
LEMMA CommitType ==
  ASSUME TypeInv, NEW w \in Writers, Commit(w)
  PROVE  TypeInv'
<1> USE DEF TypeInv
<1>0. /\ CommitPhase \cup Ended \subseteq Phase \ OpPhase
      /\ left \in [Writers -> SUBSET Node]
  BY Phases DEF CommitPhase, Ended, OpPhase, CtlOK
<1>1. CASE StartCommit(w)
  <2>1. pc[w] \in Active /\ "sync.check" \in CommitPhase
    BY <1>1, Phases DEF StartCommit, CommitPhase
  <2>2. FsOK' /\ RetOK' /\ held' = held
    BY <1>1 DEF StartCommit, diskVars, retVars, FsOK, RetOK
  <2>3. PICK x \in CommitPhase \cup Ended : pc' = [pc EXCEPT ![w] = x]
    BY <1>1, <2>1, Phases DEF StartCommit, Abandon, Goto
  <2>4. left' \in [Writers -> SUBSET Node]
    <3>1. known[w] \cup {Root} \in SUBSET Node
      BY Nodes DEF RetOK
    <3>2. \/ left' = [left EXCEPT ![w] = known[w] \cup {Root}]
          \/ left' = left
      BY <1>1 DEF StartCommit
    <3>3. QED
      BY <1>0, <3>1, <3>2, SetType
  <2>5. QED
    BY <1>0, <1>1, <2>1, <2>2, <2>3, <2>4, ActiveStep DEF StartCommit, Abandon
<1>2. CASE SyncCheck(w)
  <2>1. pc[w] \in Active /\ "sync.do" \in CommitPhase
    BY <1>2, Phases DEF SyncCheck, CommitPhase
  <2>2. FsOK' /\ RetOK' /\ EnvOK' /\ held' = held
    BY <1>2 DEF SyncCheck, diskVars, retVars, envVars, FsOK, RetOK, EnvOK
  <2>3. PICK x \in CommitPhase \cup Ended : pc' = [pc EXCEPT ![w] = x]
    BY <1>2, <2>1, Phases DEF SyncCheck, Abandon, Goto
  <2>4. PICK n \in Node : op' = [op EXCEPT ![w] = n] \/ op' = op
    <3>1. SyncNext(w) \subseteq Node
      BY <1>0, Nodes DEF SyncNext
    <3>2. QED
      BY <1>2, <3>1, Nodes DEF SyncCheck
  <2>5. CtlOK'
    BY <1>2, <2>4 DEF SyncCheck, Abandon, CtlOK
  <2>6. PcOK'
    <3>1. x \in Phase \ OpPhase
      BY <1>0, <2>3
    <3>2. CASE op' = op
      BY <2>1, <2>2, <2>3, <3>1, <3>2, PcStep
    <3>3. CASE op' = [op EXCEPT ![w] = n]
      BY <2>1, <2>2, <2>3, <3>1, <3>3, PcStepNewOp
    <3>4. QED
      BY <2>4, <3>2, <3>3
  <2>7. QED
    BY <2>2, <2>5, <2>6
<1>3. CASE SyncDo(w)
  <2>1. /\ pc[w] \in Active
        /\ "rename.check" \in CommitPhase /\ "sync.check" \in CommitPhase
    BY <1>3, Phases DEF SyncDo, CommitPhase
  <2>2. held[w] \in Tree
    BY <2>1 DEF PcOK
  <2> DEFINE t == held[w]
             D == dataSynced[t]
             E == entrySynced[t]
             X == ChildrenOf(op[w]) \cap Present(t)
  <2>3. dataSynced' \in [Tree -> SUBSET Path]
    <3>1. CASE op[w] \in Files
      <4>1. D \in SUBSET Path /\ D \cup {op[w]} \in SUBSET Path
        BY <2>2, <3>1, Nodes DEF FsOK
      <4>2. \/ dataSynced' = [dataSynced EXCEPT ![t] = D]
            \/ dataSynced' = [dataSynced EXCEPT ![t] = D \cup {op[w]}]
        BY <1>3, <3>1 DEF SyncDo, SyncFile
      <4> HIDE DEF D
      <4>3. QED
        BY <2>2, <4>1, <4>2, SetType DEF FsOK
    <3>2. CASE op[w] \notin Files
      BY <1>3, <3>2 DEF SyncDo, FsOK
    <3>3. QED
      BY <3>1, <3>2
  <2>4. entrySynced' \in [Tree -> SUBSET Path]
    <3>1. CASE op[w] \notin Files
      <4>1. E \in SUBSET Path /\ E \cup X \in SUBSET Path
        BY <2>2 DEF FsOK, Present
      <4>2. \/ entrySynced' = [entrySynced EXCEPT ![t] = E]
            \/ entrySynced' = [entrySynced EXCEPT ![t] = E \cup X]
        BY <1>3, <3>1 DEF SyncDo
      <4> HIDE DEF E, X
      <4>3. QED
        BY <2>2, <4>1, <4>2, SetType DEF FsOK
    <3>2. CASE op[w] \in Files
      BY <1>3, <3>2 DEF SyncDo, FsOK
    <3>3. QED
      BY <3>1, <3>2
  <2>5. FsOK' /\ RetOK' /\ held' = held
    BY <1>3, <2>3, <2>4 DEF SyncDo, retVars, FsOK, RetOK
  <2>6. left' \in [Writers -> SUBSET Node]
    <3>1. left' = [left EXCEPT ![w] = left[w] \ {op[w]}]
      BY <1>3 DEF SyncDo
    <3>2. QED
      BY <1>0, <3>1, SetType
  <2>7. PICK x \in CommitPhase : pc' = [pc EXCEPT ![w] = x]
    BY <1>3, <2>1 DEF SyncDo, Goto
  <2>8. QED
    BY <1>0, <1>3, <2>1, <2>5, <2>6, <2>7, ActiveStep DEF SyncDo
<1>4. CASE RenameCheck(w)
  <2>1. pc[w] \in Active /\ "rename" \in CommitPhase
    BY <1>4, Phases DEF RenameCheck, CommitPhase
  <2>2. FsOK' /\ RetOK' /\ held' = held
    BY <1>4 DEF RenameCheck, diskVars, retVars, FsOK, RetOK
  <2>3. PICK x \in CommitPhase \cup Ended : pc' = [pc EXCEPT ![w] = x]
    BY <1>4, <2>1, Phases DEF RenameCheck, Abandon, Goto
  <2>4. QED
    BY <1>0, <1>4, <2>1, <2>2, <2>3, ActiveStep DEF RenameCheck, Abandon
<1>5. CASE Rename(w)
  <2>1. pc[w] \in Active /\ "renamed" \in CommitPhase
    BY <1>5, Phases DEF Rename, CommitPhase
  <2>2. PICK x \in CommitPhase \cup Ended : pc' = [pc EXCEPT ![w] = x]
    BY <1>5, <2>1, Phases DEF Rename, Abandon, Goto
  <2>3. Stamped(names["staging"], {Root}) \in [Writers -> [Node -> Drift]]
    BY StampedType
  <2>4. RetOK'
    BY <1>5, <2>3 DEF Rename, RetOK
  <2>5. FsOK'
    <3>1. [staging |-> None, final |-> names["staging"]] \in NameState
      BY DEF FsOK, NameState, Slot
    <3>2. names' \in NameState /\ recoverable' \in SUBSET NameState
      BY <1>5, <3>1 DEF Rename, Rebind, FsOK
    <3>3. QED
      BY <1>5, <3>2 DEF Rename, FsOK
  <2>6. QED
    BY <1>0, <1>5, <2>1, <2>2, <2>4, <2>5, ActiveStep DEF Rename, Abandon
<1>6. CASE Renamed(w)
  <2>1. pc[w] \in Active /\ "parent.sync" \in CommitPhase
    BY <1>6, Phases DEF Renamed, CommitPhase
  <2>2. PICK x \in CommitPhase \cup Ended : pc' = [pc EXCEPT ![w] = x]
    BY <1>6, <2>1, Phases DEF Renamed, Abandon, Goto
  <2>3. Observed(drift, w, {Root}) \in [Writers -> [Node -> Drift]]
    BY ObservedType DEF RetOK
  <2>4. FsOK' /\ RetOK'
    BY <1>6, <2>3 DEF Renamed, diskVars, FsOK, RetOK
  <2>5. QED
    BY <1>0, <1>6, <2>1, <2>2, <2>4, ActiveStep DEF Renamed, Abandon
<1>7. CASE ParentSync(w)
  <2>1. pc[w] \in Active /\ "commit.check" \in CommitPhase
    BY <1>7, Phases DEF ParentSync, CommitPhase
  <2>2. FsOK' /\ RetOK' /\ held' = held
    BY <1>7 DEF ParentSync, retVars, FsOK, RetOK
  <2>3. QED
    BY <1>0, <1>7, <2>1, <2>2, ActiveStep DEF ParentSync, Goto
<1>8. ASSUME NEW from \in CommitPhase, NEW to \in CommitPhase \cup Ended,
             FinalGate(w, from, to)
      PROVE  TypeInv'
  <2>1. FsOK' /\ RetOK' /\ held' = held
    BY <1>8 DEF FinalGate, diskVars, retVars, FsOK, RetOK
  <2>2. PICK x \in CommitPhase \cup Ended : pc' = [pc EXCEPT ![w] = x]
    BY <1>8, Phases DEF FinalGate, Abandon, Goto
  <2>3. QED
    BY <1>0, <1>8, <2>1, <2>2, Phases, ActiveStep DEF FinalGate, Abandon
<1>9. CASE CommitCheck(w) \/ ReopenCheck(w) \/ Return(w)
  <2>1. /\ {"commit.check", "committed", "validate", "post.check"} \subseteq CommitPhase
        /\ "returned" \in Ended
    BY DEF CommitPhase, Ended
  <2>2. QED
    BY <1>8, <1>9, <2>1 DEF CommitCheck, ReopenCheck, Return
<1>10. CASE Validate(w)
  <2>1. /\ pc[w] \in Active /\ "post.check" \in CommitPhase
        /\ "rejected" \in Ended
    BY <1>10, Phases DEF Validate, CommitPhase, Ended
  <2>2. FsOK' /\ RetOK' /\ held' = held
    BY <1>10 DEF Validate, diskVars, retVars, FsOK, RetOK
  <2>3. PICK x \in CommitPhase \cup Ended : pc' = [pc EXCEPT ![w] = x]
    BY <1>10, <2>1 DEF Validate, Goto
  <2>4. QED
    BY <1>0, <1>10, <2>1, <2>2, <2>3, ActiveStep DEF Validate
<1>11. QED
  BY <1>1, <1>2, <1>3, <1>4, <1>5, <1>6, <1>7, <1>9, <1>10 DEF Commit

\* A failing system call.
LEMMA FaultType ==
  ASSUME TypeInv, NEW w \in Writers, Fault(w)
  PROVE  TypeInv'
<1> USE DEF TypeInv
<1>1. FsOK' /\ RetOK' /\ held' = held /\ op' = op
  BY DEF Fault, diskVars, retVars, FsOK, RetOK
<1>2. EnvOK'
  BY BoundAssumption DEF Fault, EnvOK
<1>3. CtlOK'
  BY DEF Fault, Poison, Abandon, CtlOK
<1>4. PICK x \in {"ready", "failed"} :
        /\ pc' = [pc EXCEPT ![w] = x]
        /\ x = "ready" => pc[w] \in OpPhase
  BY DEF Fault, Poison, Abandon, Goto
<1>5. PcOK'
  BY <1>1, <1>4, Phases, PcStep
<1>6. QED
  BY <1>1, <1>2, <1>3, <1>5

\* What every intervention leaves alone.
LEMMA MeddleKeeps ==
  ASSUME TypeInv, Meddle, FsOK', drift' \in [Writers -> [Node -> Drift]]
  PROVE  TypeInv'
<1> USE DEF TypeInv
<1>1. RetOK' /\ CtlOK' /\ PcOK'
  BY DEF Meddle, RetOK, CtlOK, PcOK
<1>2. EnvOK'
  BY BoundAssumption DEF Meddle, EnvOK
<1>3. QED
  BY <1>1, <1>2

\* An intervention inside a tree.
LEMMA MeddleTreeType ==
  ASSUME TypeInv, NEW t \in Tree, NEW p \in Path,
         \/ MeddleCreate(t, p) \/ MeddleWrite(t, p)
         \/ MeddleAlter(t, p) \/ MeddleRemove(t, p)
  PROVE  TypeInv'
<1> USE DEF TypeInv
<1>0. {"dir", "foreign", "odd", "absent"} \subseteq Content
  BY DEF Content
<1>1. CASE MeddleCreate(t, p)
  <2>1. PICK c \in Content : node' = [node EXCEPT ![t][p] = c]
    BY <1>0, <1>1 DEF MeddleCreate
  <2>2. node' \in [Tree -> [Path -> Content]]
    BY <2>1, PutType
  <2>3. FsOK'
    BY <1>1, <2>2 DEF MeddleCreate, FsOK
  <2>4. QED
    BY <1>1, <2>3, StampedType, MeddleKeeps DEF MeddleCreate
<1>2. CASE MeddleWrite(t, p)
  <2>1. node' \in [Tree -> [Path -> Content]]
    BY <1>0, <1>2, PutType DEF MeddleWrite
  <2>2. dataSynced' \in [Tree -> SUBSET Path]
    BY <1>2 DEF MeddleWrite, FsOK
  <2>3. FsOK'
    BY <1>2, <2>1, <2>2 DEF MeddleWrite, FsOK
  <2>4. QED
    BY <1>2, <2>3, StampedType, MeddleKeeps DEF MeddleWrite
<1>3. CASE MeddleAlter(t, p)
  <2>1. node' \in [Tree -> [Path -> Content]]
    BY <1>0, <1>3, PutType DEF MeddleAlter
  <2>2. FsOK'
    BY <1>3, <2>1 DEF MeddleAlter, FsOK
  <2>3. drift' \in [Writers -> [Node -> Drift]]
    BY <1>3 DEF MeddleAlter, RetOK, Drift
  <2>4. QED
    BY <1>3, <2>2, <2>3, MeddleKeeps DEF MeddleAlter
<1>4. CASE MeddleRemove(t, p)
  <2>1. node' \in [Tree -> [Path -> Content]]
    BY <1>0, <1>4, PutType DEF MeddleRemove
  <2>2. FsOK'
    BY <1>4, <2>1 DEF MeddleRemove, FsOK
  <2> DEFINE d == Stamped(t, {Parent[p]})
  <2>3. d \in [Writers -> [Node -> Drift]]
    BY StampedType
  <2>4. drift' = [v \in Writers |-> [d[v] EXCEPT ![p] =
                    IF held[v] = t THEN "gone" ELSE @]]
    BY <1>4 DEF MeddleRemove
  <2>5. drift' \in [Writers -> [Node -> Drift]]
    <3> HIDE DEF d
    <3>1. QED BY <2>3, <2>4 DEF Drift
  <2>6. QED
    BY <1>4, <2>2, <2>5, MeddleKeeps DEF MeddleRemove
<1>5. QED
  BY <1>1, <1>2, <1>3, <1>4

\* An intervention at the parent directory, or against custody.
LEMMA MeddleNameType ==
  ASSUME TypeInv,
         \/ \E s \in Slot : MeddleUnplace(s) \/ MeddleMkdir(s)
         \/ \E s \in Slot, t \in Tree : MeddlePlace(s, t)
         \/ MeddleParent \/ MeddleCustody
  PROVE  TypeInv'
<1> USE DEF TypeInv
<1>1. ASSUME NEW s \in Slot, MeddleUnplace(s)
      PROVE  TypeInv'
  <2>1. names' \in NameState /\ recoverable' \in SUBSET NameState
    BY <1>1 DEF MeddleUnplace, Rebind, NameState, FsOK
  <2>2. FsOK'
    BY <1>1, <2>1 DEF MeddleUnplace, FsOK
  <2>3. QED
    BY <1>1, <2>2, StampedType, MeddleKeeps DEF MeddleUnplace
<1>2. ASSUME NEW s \in Slot, NEW t \in Tree, MeddlePlace(s, t)
      PROVE  TypeInv'
  <2>1. names' \in NameState /\ recoverable' \in SUBSET NameState
    BY <1>2 DEF MeddlePlace, Rebind, NameState, FsOK
  <2>2. FsOK'
    BY <1>2, <2>1 DEF MeddlePlace, FsOK
  <2>3. QED
    BY <1>2, <2>2, StampedType, MeddleKeeps DEF MeddlePlace
<1>3. ASSUME NEW s \in Slot, MeddleMkdir(s)
      PROVE  TypeInv'
  <2>1. born' \in 0..MaxTrees /\ born + 1 \in Tree
    BY <1>3, BoundAssumption DEF MeddleMkdir, Tree, FsOK
  <2>2. names' \in NameState /\ recoverable' \in SUBSET NameState
    BY <1>3, <2>1 DEF MeddleMkdir, Rebind, NameState, FsOK
  <2>3. FsOK' /\ drift' = drift
    BY <1>3, <2>1, <2>2 DEF MeddleMkdir, FsOK
  <2>4. QED
    BY <1>3, <2>3, MeddleKeeps DEF MeddleMkdir, RetOK
<1>4. CASE MeddleParent \/ MeddleCustody
  <2>1. FsOK' /\ drift' = drift
    BY <1>4 DEF MeddleParent, MeddleCustody, fsVars, FsOK
  <2>2. QED
    BY <1>4, <2>1, MeddleKeeps DEF MeddleParent, MeddleCustody, RetOK
<1>5. QED
  BY <1>1, <1>2, <1>3, <1>4

\* A crash.
LEMMA CrashType ==
  ASSUME TypeInv, NEW lost, NEW torn, Crash(lost, torn)
  PROVE  TypeInv'
<1> USE DEF TypeInv
<1>1. names' \in NameState /\ recoverable' \in SUBSET NameState
  BY DEF Crash, FsOK
<1>2. node' \in [Tree -> [Path -> Content]]
  BY DEF Crash, FsOK, Content
<1>3. /\ entrySynced' \in [Tree -> SUBSET Path]
      /\ dataSynced' \in [Tree -> SUBSET Path]
  <2>1. \A t \in Tree : {p \in Present(t) : <<t, p>> \notin lost} \in SUBSET Path
    BY DEF Present
  <2>2. QED
    BY <2>1 DEF Crash
<1>4. FsOK'
  BY <1>1, <1>2, <1>3 DEF Crash, FsOK
<1>5. RetOK' /\ CtlOK' /\ held' = held /\ op' = op
  BY DEF Crash, retVars, RetOK, CtlOK
<1>6. EnvOK'
  BY BoundAssumption DEF Crash, EnvOK
<1>7. PcOK'
  <2>1. "dead" \in Phase \ (Active \cup OpPhase)
    BY Phases DEF Ended
  <2>2. pc' = [w \in Writers |->
                 IF pc[w] \in Ended \cup {"idle"} THEN pc[w] ELSE "dead"]
    BY DEF Crash
  <2>3. QED
    BY <1>5, <2>1, <2>2 DEF PcOK
<1>8. QED
  BY <1>4, <1>5, <1>6, <1>7

LEMMA InitType == Init => TypeInv
<1> SUFFICES ASSUME Init PROVE TypeInv
  OBVIOUS
<1>1. FsOK
  BY BoundAssumption DEF Init, FsOK, NameState, Slot, Tree, EmptyTree, Content
<1>2. RetOK
  BY DEF Init, RetOK, EmptyTree, Content, Drift
<1>3. CtlOK /\ EnvOK
  BY BoundAssumption, Nodes DEF Init, CtlOK, EnvOK
<1>4. PcOK
  <2>1. "idle" \in Phase \ (Active \cup OpPhase)
    BY DEF Phase, Active, OpPhase, CommitPhase
  <2>2. QED
    BY <2>1 DEF Init, PcOK
<1>5. QED
  BY <1>1, <1>2, <1>3, <1>4 DEF TypeInv

LEMMA NextType == TypeInv /\ [Next]_vars => TypeInv'
<1> SUFFICES ASSUME TypeInv, [Next]_vars PROVE TypeInv'
  OBVIOUS
<1>1. ASSUME NEW w \in Writers, WriterStep(w)
      PROVE  TypeInv'
  BY <1>1, BeginType, CreateType, PublishType, CommitType DEF WriterStep
<1>2. ASSUME NEW w \in Writers, Fault(w)
      PROVE  TypeInv'
  BY <1>2, FaultType
<1>3. CASE MeddleStep
  BY <1>3, MeddleTreeType, MeddleNameType DEF MeddleStep
<1>4. CASE CrashStep
  BY <1>4, CrashType DEF CrashStep
<1>5. CASE UNCHANGED vars
  BY <1>5 DEF vars, TypeInv, FsOK, RetOK, CtlOK, EnvOK, PcOK
<1>6. QED
  BY <1>1, <1>2, <1>3, <1>4, <1>5 DEF Next, Rest

\* Every reachable state of the transactions and the filesystem is well typed
\* (the structs of create_only.rs never leave their declared shape), whatever
\* the writers, the inventory and the bounds.
THEOREM TypeCorrect == Spec => []TypeOK
<1>1. Spec => []TypeInv
  BY InitType, NextType, PTL DEF Spec
<1>2. QED
  BY <1>1, TypeInvImpliesTypeOK, PTL

(***************************************************************************)
(* The ledger.  validate_new_entry compares counts with the bounds before  *)
(* an operation, the counts grow only at its end, and what is retained     *)
(* grows in between.  Ledger ties the three together.                      *)
(***************************************************************************)

\* An operation has been admitted, and its entry is not yet, or already, retained.
NewEntryPhase == {"dir.mkdir", "dir.open", "file.create"}
EntryPhase ==
  {"dir.check", "file.check", "file.write", "file.observe", "file.sync",
   "file.seal"}
\* The operations whose path is a directory.
DirPhase == {"dir.mkdir", "dir.open", "dir.check", "publish", "adopt"}

\* How what w retains relates to what it has counted: they agree between two
\* operations, during one they differ by its entry, and the room that
\* validate_new_entry found for that entry is still there when it is counted.
Ledger(w) ==
  /\ pc[w] \in {"idle"} \cup BeginPhase => known[w] = {} /\ done[w] = {}
  /\ pc[w] = "ready" /\ ~poisoned[w] => known[w] = done[w]
  /\ pc[w] \in NewEntryPhase =>
       known[w] = done[w] /\ Parent[op[w]] \in known[w] \cup {Root}
  /\ pc[w] \in EntryPhase => known[w] = done[w] \cup {op[w]}
  /\ pc[w] \in NewEntryPhase \cup EntryPhase =>
       /\ Cardinality(done[w]) < MaxEntries
       /\ op[w] \in Files => Cardinality(done[w] \cap Files) + 1 <= MaxBytes
  /\ pc[w] \in DirPhase => op[w] \in Dirs
  /\ pc[w] \in {"publish", "adopt"} =>
       known[w] = {} /\ done[w] = {} /\ Parent[op[w]] = Root
  /\ pc[w] \in {"adopt.check"} \cup CommitPhase => known[w] = done[w]
  /\ Cardinality(known[w]) <= MaxEntries
  /\ Cardinality(done[w]) <= MaxEntries
  /\ Cardinality(done[w] \cap Files) <= MaxBytes
  /\ \A f \in done[w] \cap Files : seal[w][f] # "absent"

\* A step of w, or a failing call of w, leaves every other transaction's own
\* state alone.
LEMMA OwnStep ==
  ASSUME TypeInv, NEW w \in Writers, WriterStep(w) \/ Fault(w),
         NEW v \in Writers, v # w
  PROVE  /\ pc'[v] = pc[v] /\ held'[v] = held[v] /\ known'[v] = known[v]
         /\ done'[v] = done[v] /\ seal'[v] = seal[v]
         /\ poisoned'[v] = poisoned[v] /\ op'[v] = op[v] /\ left'[v] = left[v]
<1> USE DEF TypeInv, PcOK, RetOK, CtlOK
<1>1. CASE Begin(w)
  BY <1>1 DEF Begin, BeginPreflight, BeginMkdir, BeginOpen, BeginCheck, Goto,
       Abandon, retVars
<1>2. CASE \E p \in Path : CreateDirectory(w, p) \/ CreateFile(w, p)
  BY <1>2 DEF CreateDirectory, CreateFile, StartCreate, Goto, Poison, retVars
<1>3. CASE DirMkdir(w) \/ DirOpen(w) \/ DirCheck(w)
  BY <1>3 DEF DirMkdir, DirOpen, DirCheck, Goto, Poison, FinishOperation
<1>4. CASE FileCreate(w) \/ FileCheck(w) \/ FileWrite(w)
  BY <1>4 DEF FileCreate, FileCheck, FileWrite, Goto, Poison
<1>5. CASE FileObserve(w) \/ FileSync(w) \/ FileSeal(w)
  BY <1>5 DEF FileObserve, FileSync, FileSeal, Goto, Poison, FinishOperation,
       retVars
<1>6. CASE PublishAndAdopt(w)
  BY <1>6 DEF PublishAndAdopt, StartPublish, PublishCallback, Adopt,
       AdoptCheck, FinishCallback, Goto, Poison, FinishOperation, retVars
<1>7. CASE StartCommit(w) \/ SyncCheck(w) \/ SyncDo(w) \/ RenameCheck(w)
  BY <1>7 DEF StartCommit, SyncCheck, SyncDo, RenameCheck, Goto, Abandon,
       retVars
<1>8. CASE Rename(w) \/ Renamed(w) \/ ParentSync(w) \/ CommitCheck(w)
              \/ ReopenCheck(w) \/ Validate(w) \/ Return(w)
  BY <1>8 DEF Rename, Renamed, ParentSync, CommitCheck, ReopenCheck, Validate,
       Return, FinalGate, Goto, Abandon, retVars
<1>9. CASE Fault(w)
  BY <1>9 DEF Fault, Goto, Poison, Abandon, retVars
<1>10. QED
  BY <1>1, <1>2, <1>3, <1>4, <1>5, <1>6, <1>7, <1>8, <1>9
     DEF WriterStep, Create, Commit

\* Counting one more path.
LEMMA CountOneMore ==
  ASSUME NEW S \in SUBSET Path, NEW p \in Path
  PROVE  /\ Cardinality(S) \in Nat /\ Cardinality(S \cup {p}) \in Nat
         /\ Cardinality(S \cup {p}) <= Cardinality(S) + 1
<1>1. IsFiniteSet(S)
  BY PathAssumption, FS_Subset
<1>2. Cardinality(S) \in Nat
  BY <1>1, FS_CardinalityType
<1>3. Cardinality(S \cup {p}) = IF p \in S THEN Cardinality(S)
                                ELSE Cardinality(S) + 1
  BY <1>1, FS_AddElement
<1>4. ASSUME NEW m \in Nat, NEW n, n = IF p \in S THEN m ELSE m + 1
      PROVE  n \in Nat /\ n <= m + 1
  BY <1>4
<1>5. QED
  BY <1>2, <1>3, <1>4

\* The ledger of a writer whose own state a step leaves alone.
LEMMA LedgerFrame ==
  ASSUME NEW w, Ledger(w), known'[w] = known[w], done'[w] = done[w],
         seal'[w] = seal[w], poisoned'[w] = poisoned[w], op'[w] = op[w],
         pc'[w] = pc[w] \/ pc'[w] \in {"failed", "dead"}
  PROVE  Ledger(w)'
<1>1. pc'[w] = pc[w] \/
        pc'[w] \notin {"idle", "ready", "adopt.check"} \cup BeginPhase
           \cup NewEntryPhase \cup EntryPhase \cup DirPhase
           \cup {"publish", "adopt"} \cup CommitPhase
  BY DEF BeginPhase, NewEntryPhase, EntryPhase, DirPhase, CommitPhase
<1>2. QED
  BY <1>1 DEF Ledger

\* The sets of phases the ledger tells apart.
LEMMA LedgerPhases ==
  /\ NewEntryPhase \cup EntryPhase \cup DirPhase \cup {"adopt.check"} \subseteq OpPhase
  /\ "ready" \notin {"idle", "publish", "adopt", "adopt.check"} \cup BeginPhase
       \cup NewEntryPhase \cup EntryPhase \cup DirPhase \cup CommitPhase
BY DEF BeginPhase, NewEntryPhase, EntryPhase, DirPhase, CommitPhase, OpPhase

\* begin retains the root and nothing else.
LEMMA LedgerBegin ==
  ASSUME TypeInv, NEW w \in Writers, Ledger(w), Begin(w)
  PROVE  Ledger(w)'
<1>1. /\ known'[w] = known[w] /\ done'[w] = done[w] /\ seal'[w] = seal[w]
      /\ poisoned'[w] = poisoned[w] /\ op'[w] = op[w]
  BY DEF Begin, BeginPreflight, BeginMkdir, BeginOpen, BeginCheck, Abandon,
       retVars
<1>2. PICK x \in {"begin.mkdir", "begin.open", "begin.check", "ready", "failed"} :
        pc' = [pc EXCEPT ![w] = x]
  BY DEF Begin, BeginPreflight, BeginMkdir, BeginOpen, BeginCheck, Abandon,
       Goto
<1>3. pc[w] \in {"idle"} \cup BeginPhase
  BY DEF Begin, BeginPreflight, BeginMkdir, BeginOpen, BeginCheck, BeginPhase
<1>4. pc'[w] = x
  BY <1>2 DEF TypeInv, PcOK
<1>5. known[w] = {} /\ done[w] = {}
  BY <1>3 DEF Ledger
<1>6. x \notin {"adopt.check", "publish", "adopt"} \cup NewEntryPhase
         \cup EntryPhase \cup DirPhase \cup CommitPhase
  BY DEF NewEntryPhase, EntryPhase, DirPhase, CommitPhase
<1>7. QED
  BY <1>1, <1>4, <1>5, <1>6 DEF Ledger

\* An error of an operation leaves the ledger of a poisoned transaction.
LEMMA LedgerPoison ==
  ASSUME TypeInv, NEW w \in Writers, Ledger(w), Poison(w),
         known'[w] = known[w], done'[w] = done[w], seal'[w] = seal[w]
  PROVE  Ledger(w)'
<1>1. pc'[w] = "ready" /\ poisoned'[w] = TRUE
  BY DEF Poison, Goto, TypeInv, PcOK, CtlOK
<1>2. QED
  BY <1>1, LedgerPhases DEF Ledger

\* The start of an operation on a valid new entry.
LEMMA LedgerStart ==
  ASSUME TypeInv, NEW w \in Writers, Ledger(w), NEW p \in Path,
         NEW x \in NewEntryPhase \cup {"publish"},
         pc[w] = "ready", ~poisoned[w], ValidateNewEntry(w, p),
         Goto(w, x), op' = [op EXCEPT ![w] = p], UNCHANGED retVars,
         x \in DirPhase => p \in Dirs,
         x = "publish" => known[w] = {} /\ Parent[p] = Root
  PROVE  Ledger(w)'
<1>1. pc'[w] = x /\ op'[w] = p
  BY DEF Goto, TypeInv, PcOK, CtlOK
<1>2. known[w] = done[w]
  BY DEF Ledger
<1>3. x \notin {"idle", "ready", "adopt.check", "adopt"} \cup BeginPhase
         \cup CommitPhase \cup EntryPhase
  BY DEF BeginPhase, CommitPhase, EntryPhase, NewEntryPhase
<1>4. known' = known /\ done' = done /\ seal' = seal
  BY DEF retVars
<1>5. "publish" \notin NewEntryPhase
  BY DEF NewEntryPhase
<1>6. QED
  BY <1>1, <1>2, <1>3, <1>4, <1>5 DEF Ledger, ValidateNewEntry

\* An operation moves on and records nothing.
LEMMA LedgerOn ==
  ASSUME TypeInv, NEW w \in Writers, Ledger(w), NEW x, Goto(w, x),
         known'[w] = known[w], done'[w] = done[w], seal'[w] = seal[w], op'[w] = op[w],
         \/ x \in NewEntryPhase /\ pc[w] \in NewEntryPhase
         \/ x \in EntryPhase /\ pc[w] \in EntryPhase
         \/ x = "adopt" /\ pc[w] = "publish",
         x \in DirPhase => pc[w] \in DirPhase
  PROVE  Ledger(w)'
<1>1. pc'[w] = x
  BY DEF Goto, TypeInv, PcOK
<1>2. x \notin {"idle", "ready", "adopt.check"} \cup BeginPhase \cup CommitPhase
  BY DEF BeginPhase, CommitPhase, EntryPhase, NewEntryPhase
<1>3. /\ NewEntryPhase \cap EntryPhase = {}
      /\ "adopt" \notin NewEntryPhase \cup EntryPhase
      /\ "publish" \notin NewEntryPhase \cup EntryPhase
  BY DEF EntryPhase, NewEntryPhase
<1>4. QED
  BY <1>1, <1>2, <1>3 DEF Ledger

\* An entry joins the expected inventory.
LEMMA LedgerRecord ==
  ASSUME TypeInv, NEW w \in Writers, Ledger(w), NEW x \in EntryPhase, Goto(w, x),
         pc[w] \in NewEntryPhase,
         known' = [known EXCEPT ![w] = @ \cup {op[w]}],
         done'[w] = done[w], seal'[w] = seal[w], op'[w] = op[w],
         x \in DirPhase => pc[w] \in DirPhase
  PROVE  Ledger(w)'
<1>1. pc'[w] = x /\ known'[w] = known[w] \cup {op[w]}
  BY DEF Goto, TypeInv, PcOK, RetOK
<1>2. x \notin {"idle", "ready", "adopt.check", "publish", "adopt"} \cup BeginPhase
         \cup CommitPhase \cup NewEntryPhase
  BY DEF BeginPhase, CommitPhase, EntryPhase, NewEntryPhase
<1>3. known[w] = done[w] /\ Cardinality(done[w]) < MaxEntries
  BY DEF Ledger
<1>4. op[w] \in Path /\ done[w] \in SUBSET Path
  BY LedgerPhases, OperationHas DEF TypeInv, RetOK
<1>5. Cardinality(known'[w]) <= MaxEntries
  BY <1>1, <1>3, <1>4, CountOneMore, BoundAssumption
<1>6. QED
  BY <1>1, <1>2, <1>3, <1>5 DEF Ledger

\* The entry is counted and the operation ends.
LEMMA LedgerCount ==
  ASSUME TypeInv, NEW w \in Writers, Ledger(w), FinishOperation(w),
         pc[w] \in EntryPhase, known'[w] = known[w],
         done' = [done EXCEPT ![w] = @ \cup {op[w]}],
         op[w] \in Files => seal'[w][op[w]] # "absent",
         \A f \in done[w] \cap Files : seal'[w][f] # "absent"
  PROVE  Ledger(w)'
<1>1. pc'[w] = "ready" /\ done'[w] = done[w] \cup {op[w]}
  BY DEF FinishOperation, Goto, TypeInv, PcOK, RetOK
<1>2. known[w] = done[w] \cup {op[w]}
  BY DEF Ledger
<1>3. op[w] \in Path /\ done[w] \in SUBSET Path /\ done[w] \cap Files \in SUBSET Path
  BY LedgerPhases, OperationHas DEF TypeInv, RetOK
<1>4. Cardinality(done'[w]) <= MaxEntries
  BY <1>1, <1>2 DEF Ledger
<1>5. Cardinality(done'[w] \cap Files) <= MaxBytes
  <2>1. CASE op[w] \in Files
    <3>1. done'[w] \cap Files = (done[w] \cap Files) \cup {op[w]}
      BY <1>1, <2>1
    <3>2. Cardinality(done[w] \cap Files) + 1 <= MaxBytes
      BY <2>1 DEF Ledger
    <3>3. QED
      BY <1>3, <3>1, <3>2, CountOneMore, BoundAssumption
  <2>2. CASE op[w] \notin Files
    <3>1. done'[w] \cap Files = done[w] \cap Files
      BY <1>1, <2>2
    <3>2. QED
      BY <3>1 DEF Ledger
  <2>3. QED
    BY <2>1, <2>2
<1>6. \A f \in done'[w] \cap Files : seal'[w][f] # "absent"
  BY <1>1
<1>7. known'[w] = done'[w] /\ Cardinality(known'[w]) <= MaxEntries
  BY <1>1, <1>2, <1>4
<1>8. QED
  BY <1>1, <1>4, <1>5, <1>6, <1>7, LedgerPhases DEF Ledger

\* What is beneath the published directory is counted and digested in one step.
LEMMA LedgerAdopt ==
  ASSUME TypeInv, NEW w \in Writers, Ledger(w), Adopt(w)
  PROVE  Ledger(w)'
<1> DEFINE there == Present(held[w])
<1>1. CASE Poison(w) /\ UNCHANGED <<known, done, seal, drift>>
  BY <1>1, LedgerPoison
<1>2. CASE /\ Cardinality(there) <= MaxEntries
           /\ Cardinality(there \cap Files) <= MaxBytes
           /\ known' = [known EXCEPT ![w] = there]
           /\ done' = [done EXCEPT ![w] = there]
           /\ seal' = [seal EXCEPT ![w] =
                [p \in Path |-> IF p \in Files THEN node[held[w]][p] ELSE "absent"]]
           /\ Goto(w, "adopt.check")
  <2>1. pc'[w] = "adopt.check" /\ known'[w] = there /\ done'[w] = there
    BY <1>2 DEF Goto, TypeInv, PcOK, RetOK
  <2>2. \A f \in there \cap Files : seal'[w][f] # "absent"
    BY <1>2, Nodes DEF TypeInv, RetOK, Present
  <2>3. "adopt.check" \notin {"idle", "ready", "publish", "adopt"} \cup BeginPhase
           \cup NewEntryPhase \cup EntryPhase \cup DirPhase \cup CommitPhase
    BY DEF BeginPhase, NewEntryPhase, EntryPhase, DirPhase, CommitPhase
  <2> HIDE DEF there
  <2>4. QED
    BY <1>2, <2>1, <2>2, <2>3 DEF Ledger
<1>3. QED
  BY <1>1, <1>2 DEF Adopt

\* create_directory, create_file and publish_and_adopt_directory_tree
LEMMA LedgerOperation ==
  ASSUME TypeInv, NEW w \in Writers, Ledger(w), Create(w) \/ PublishAndAdopt(w)
  PROVE  Ledger(w)'
<1>1. ASSUME NEW p \in Path, NEW x \in {"dir.mkdir", "file.create"},
             StartCreate(w, p, x), x = "dir.mkdir" => p \in Dirs
      PROVE  Ledger(w)'
  <2>1. UNCHANGED retVars /\ pc[w] = "ready" /\ ~poisoned[w]
    BY <1>1 DEF StartCreate
  <2>2. x \in NewEntryPhase /\ x # "publish" /\ (x \in DirPhase => x = "dir.mkdir")
    BY DEF NewEntryPhase, DirPhase
  <2>3. CASE Poison(w)
    BY <2>1, <2>3, LedgerPoison DEF retVars
  <2>4. CASE ValidateNewEntry(w, p) /\ Goto(w, x) /\ op' = [op EXCEPT ![w] = p]
    BY <1>1, <2>1, <2>2, <2>4, LedgerStart
  <2>5. QED
    BY <1>1, <2>3, <2>4 DEF StartCreate
<1>2. ASSUME NEW d \in Dirs, StartPublish(w, d)
      PROVE  Ledger(w)'
  <2>1. UNCHANGED retVars /\ pc[w] = "ready" /\ ~poisoned[w] /\ d \in Path
    BY <1>2, Nodes DEF StartPublish
  <2>2. CASE Poison(w)
    BY <2>1, <2>2, LedgerPoison DEF retVars
  <2>3. CASE /\ ValidateNewEntry(w, d) /\ Parent[d] = Root /\ known[w] = {}
             /\ Goto(w, "publish") /\ op' = [op EXCEPT ![w] = d]
    BY <2>1, <2>3, LedgerStart
  <2>4. QED
    BY <1>2, <2>2, <2>3 DEF StartPublish
<1>3. ASSUME NEW x, Goto(w, x),
             known' = known, done' = done, seal' = seal, op' = op,
             \/ pc[w] = "dir.mkdir" /\ x = "dir.open"
             \/ pc[w] = "file.check" /\ x = "file.write"
             \/ pc[w] = "file.write" /\ x = "file.observe"
             \/ pc[w] = "file.observe" /\ x = "file.sync"
             \/ pc[w] = "file.sync" /\ x = "file.seal"
             \/ pc[w] = "publish" /\ x = "adopt"
      PROVE  Ledger(w)'
  <2>1. /\ \/ x \in NewEntryPhase /\ pc[w] \in NewEntryPhase
           \/ x \in EntryPhase /\ pc[w] \in EntryPhase
           \/ x = "adopt" /\ pc[w] = "publish"
        /\ x \in DirPhase => pc[w] \in DirPhase
    BY <1>3 DEF NewEntryPhase, EntryPhase, DirPhase
  <2>2. QED
    BY <1>3, <2>1, LedgerOn
<1>4. ASSUME Poison(w), known' = known, done' = done, seal' = seal
      PROVE  Ledger(w)'
  BY <1>4, LedgerPoison
<1>5. CASE DirMkdir(w)
  BY <1>3, <1>4, <1>5 DEF DirMkdir
<1>6. CASE DirOpen(w)
  <2>1. CASE Poison(w) /\ UNCHANGED <<known, drift, node>>
    BY <1>4, <1>6, <2>1 DEF DirOpen
  <2>2. CASE known' = [known EXCEPT ![w] = @ \cup {op[w]}] /\ Goto(w, "dir.check")
    <3>1. /\ pc[w] \in NewEntryPhase \cap DirPhase /\ "dir.check" \in EntryPhase
      BY <1>6 DEF DirOpen, NewEntryPhase, EntryPhase, DirPhase
    <3>2. QED
      BY <1>6, <2>2, <3>1, LedgerRecord DEF DirOpen
  <2>3. QED
    BY <1>6, <2>1, <2>2 DEF DirOpen
<1>7. CASE DirCheck(w)
  <2>1. CASE Poison(w) /\ UNCHANGED <<drift, done>>
    BY <1>4, <1>7, <2>1 DEF DirCheck
  <2>2. CASE done' = [done EXCEPT ![w] = @ \cup {op[w]}] /\ FinishOperation(w)
    <3>1. pc[w] \in EntryPhase \cap DirPhase /\ UNCHANGED <<known, seal>>
      BY <1>7 DEF DirCheck, EntryPhase, DirPhase
    <3>2. op[w] \notin Files /\ \A f \in done[w] \cap Files : seal[w][f] # "absent"
      BY <3>1, PathAssumption DEF Ledger
    <3>3. QED
      BY <2>2, <3>1, <3>2, LedgerCount
  <2>3. QED
    BY <1>7, <2>1, <2>2 DEF DirCheck
<1>8. CASE FileCreate(w)
  <2>1. CASE Poison(w) /\ UNCHANGED <<node, entrySynced, dataSynced, drift, known>>
    BY <1>4, <1>8, <2>1 DEF FileCreate
  <2>2. CASE known' = [known EXCEPT ![w] = @ \cup {op[w]}] /\ Goto(w, "file.check")
    <3>1. pc[w] \in NewEntryPhase /\ "file.check" \in EntryPhase \ DirPhase
      BY <1>8 DEF FileCreate, NewEntryPhase, EntryPhase, DirPhase
    <3>2. QED
      BY <1>8, <2>2, <3>1, LedgerRecord DEF FileCreate
  <2>3. QED
    BY <1>8, <2>1, <2>2 DEF FileCreate
<1>9. CASE FileCheck(w) \/ FileWrite(w) \/ FileObserve(w) \/ FileSync(w)
  BY <1>3, <1>4, <1>9 DEF FileCheck, FileWrite, FileObserve, FileSync, retVars
<1>10. CASE FileSeal(w)
  <2>1. CASE Poison(w) /\ UNCHANGED <<seal, done>>
    BY <1>4, <1>10, <2>1 DEF FileSeal
  <2>2. CASE /\ seal' = [seal EXCEPT ![w] = [seal[w] EXCEPT ![op[w]] = "bytes"]]
             /\ done' = [done EXCEPT ![w] = @ \cup {op[w]}]
             /\ FinishOperation(w)
    <3>1. pc[w] \in EntryPhase /\ known' = known
      BY <1>10 DEF FileSeal, EntryPhase
    <3>2. op[w] \in Path
      BY <3>1, LedgerPhases, OperationHas
    <3>3. \A f \in Path : seal'[w][f] = IF f = op[w] THEN "bytes" ELSE seal[w][f]
      BY <2>2, <3>2 DEF TypeInv, RetOK
    <3>4. /\ op[w] \in Files => seal'[w][op[w]] # "absent"
          /\ \A f \in done[w] \cap Files : seal'[w][f] # "absent"
      BY <3>2, <3>3, Nodes DEF Ledger
    <3>5. QED
      BY <2>2, <3>1, <3>4, LedgerCount
  <2>3. QED
    BY <1>10, <2>1, <2>2 DEF FileSeal
<1>11. CASE PublishCallback(w)
  BY <1>3, <1>4, <1>11 DEF PublishCallback, FinishCallback
<1>12. CASE Adopt(w)
  BY <1>12, LedgerAdopt
<1>13. CASE AdoptCheck(w)
  <2>1. CASE Poison(w)
    BY <1>4, <1>13, <2>1 DEF AdoptCheck, retVars
  <2>2. CASE FinishOperation(w)
    <3>1. /\ pc'[w] = "ready" /\ known'[w] = known[w] /\ done'[w] = done[w]
          /\ seal'[w] = seal[w] /\ known[w] = done[w]
      BY <1>13, <2>2 DEF AdoptCheck, FinishOperation, Goto, retVars, TypeInv,
           PcOK, Ledger
    <3>2. QED
      BY <3>1, LedgerPhases DEF Ledger
  <2>3. QED
    BY <1>13, <2>1, <2>2 DEF AdoptCheck
<1>14. QED
  BY <1>1, <1>2, <1>5, <1>6, <1>7, <1>8, <1>9, <1>10, <1>11, <1>12, <1>13
     DEF Create, CreateDirectory, CreateFile, PublishAndAdopt

\* commit_durable and the postcommit reopen record nothing.
LEMMA LedgerCommit ==
  ASSUME TypeInv, NEW w \in Writers, Ledger(w), Commit(w)
  PROVE  Ledger(w)'
<1>1. known' = known /\ done' = done /\ seal' = seal
  BY DEF Commit, StartCommit, SyncCheck, SyncDo, RenameCheck, Rename, Renamed,
       ParentSync, CommitCheck, ReopenCheck, Validate, Return, FinalGate, retVars
<1>2. PICK x \in CommitPhase \cup {"failed", "rejected", "returned"} :
        pc' = [pc EXCEPT ![w] = x]
  BY DEF Commit, StartCommit, SyncCheck, SyncDo, RenameCheck, Rename, Renamed,
       ParentSync, CommitCheck, ReopenCheck, Validate, Return, FinalGate,
       Abandon, Goto, CommitPhase
<1>3. pc'[w] = x
  BY <1>2 DEF TypeInv, PcOK
<1>4. x \notin {"idle", "ready", "adopt.check", "publish", "adopt"} \cup BeginPhase
         \cup NewEntryPhase \cup EntryPhase \cup DirPhase
  BY DEF BeginPhase, NewEntryPhase, EntryPhase, DirPhase, CommitPhase
<1>5. x \in CommitPhase => known[w] = done[w]
  <2>1. CASE pc[w] \in CommitPhase
    BY <2>1 DEF Ledger
  <2>2. CASE StartCommit(w)
    <3>1. pc'[w] = "failed" \/ ~poisoned[w]
      BY <2>2 DEF StartCommit, Abandon, Goto, TypeInv, PcOK
    <3>2. QED
      BY <1>3, <2>2, <3>1 DEF StartCommit, CommitPhase, Ledger
  <2>3. QED
    BY <2>1, <2>2 DEF Commit, SyncCheck, SyncDo, RenameCheck, Rename, Renamed,
       ParentSync, CommitCheck, ReopenCheck, Validate, Return, FinalGate,
       CommitPhase
<1>6. QED
  BY <1>1, <1>3, <1>4, <1>5 DEF Ledger

LEMMA InitLedger == Init => \A w \in Writers : Ledger(w)
<1> SUFFICES ASSUME Init, NEW w \in Writers PROVE Ledger(w)
  OBVIOUS
<1>1. /\ known[w] = {} /\ done[w] = {} /\ {} \cap Files = {} /\ pc[w] = "idle"
  BY DEF Init
<1>2. Cardinality({}) = 0
  BY FS_EmptySet
<1>3. "idle" \notin {"ready", "adopt.check", "publish", "adopt"} \cup NewEntryPhase
         \cup EntryPhase \cup DirPhase \cup CommitPhase
  BY DEF NewEntryPhase, EntryPhase, DirPhase, CommitPhase
<1>4. QED
  BY <1>1, <1>2, <1>3, BoundAssumption DEF Ledger

LEMMA NextLedger ==
  ASSUME TypeInv, \A w \in Writers : Ledger(w), [Next]_vars
  PROVE  \A w \in Writers : Ledger(w)'
<1>1. ASSUME NEW w \in Writers, WriterStep(w) \/ Fault(w)
      PROVE  \A v \in Writers : Ledger(v)'
  <2>1. ASSUME NEW v \in Writers, v # w
        PROVE  Ledger(v)'
    BY <1>1, <2>1, OwnStep, LedgerFrame
  <2>2. CASE Fault(w)
    <3>1. UNCHANGED <<known, done, seal, op>>
      BY <2>2 DEF Fault, retVars
    <3>2. CASE Poison(w)
      BY <2>1, <3>1, <3>2, LedgerPoison
    <3>3. CASE Abandon(w)
      <4>1. pc'[w] = "failed" /\ poisoned' = poisoned
        BY <3>3 DEF Abandon, Goto, TypeInv, PcOK
      <4>2. Ledger(w)'
        BY <3>1, <4>1, LedgerFrame
      <4>3. QED
        BY <2>1, <4>2
    <3>4. QED
      BY <2>2, <3>2, <3>3 DEF Fault
  <2>3. CASE WriterStep(w)
    <3>1. Ledger(w)'
      BY <2>3, LedgerBegin, LedgerOperation, LedgerCommit DEF WriterStep
    <3>2. QED
      BY <2>1, <3>1
  <2>4. QED
    BY <1>1, <2>2, <2>3
<1>2. ASSUME NEW w \in Writers, MeddleStep \/ CrashStep \/ UNCHANGED vars
      PROVE  Ledger(w)'
  <2>1. UNCHANGED <<known, done, seal, poisoned, op>>
    BY <1>2, ZenonT(40) DEF MeddleStep, MeddleCreate, MeddleWrite, MeddleAlter, MeddleRemove,
         MeddleUnplace, MeddlePlace, MeddleMkdir, MeddleParent, MeddleCustody,
         Meddle, CrashStep, Crash, retVars, vars
  <2>2. pc'[w] = pc[w] \/ pc'[w] = "dead"
    BY <1>2, ZenonT(40) DEF MeddleStep, MeddleCreate, MeddleWrite, MeddleAlter, MeddleRemove,
         MeddleUnplace, MeddlePlace, MeddleMkdir, MeddleParent, MeddleCustody,
         Meddle, CrashStep, Crash, vars
  <2>3. QED
    BY <2>1, <2>2, LedgerFrame
<1>3. QED
  BY <1>1, <1>2 DEF Next, Rest

\* The inventory a transaction retains and counts never outgrows the compiled
\* bounds (validate_new_entry, publish_and_adopt_directory_tree), whatever
\* interferes and whichever call fails.
THEOREM BoundsHold == Spec => []WithinCompiledBounds
<1> DEFINE Inv == TypeInv /\ \A w \in Writers : Ledger(w)
<1>1. Init => Inv
  BY InitType, InitLedger
<1>2. Inv /\ [Next]_vars => Inv'
  BY NextType, NextLedger
<1>3. Inv => WithinCompiledBounds
  BY DEF Ledger, WithinCompiledBounds
<1> HIDE DEF Inv
<1>4. QED
  BY <1>1, <1>2, <1>3, PTL DEF Spec

(***************************************************************************)
(* Trees.  Everything a writer changes in a tree it changes through its own*)
(* descriptor, at the path of its operation.  TreeInv: the trees are closed*)
(* and what a transaction retains is in its tree.                          *)
(***************************************************************************)

\* A tree that holds a path holds the directory above it.
TreeClosed ==
  \A t \in Tree : \A p \in Present(t) : Parent[p] = Root \/ Parent[p] \in Present(t)

\* What w retains is in its tree, unless it was unlinked and w's drift says so.
\* The staging root itself is never unlinked.
Live(w) ==
  /\ drift[w][Root] # "gone"
  /\ pc[w] \in Active =>
       \A p \in known[w] : drift[w][p] = "gone" \/ p \in Present(held[w])

\* Timestamps moved: an object that was "same" may be "stamp" now, nothing else
\* changes.
Moved(v) ==
  \A n \in Node :
    \/ drift'[v][n] = drift[v][n]
    \/ drift[v][n] = "same" /\ drift'[v][n] = "stamp"

LEMMA StampedMoves ==
  ASSUME NEW t, NEW N, NEW v \in Writers, drift' = Stamped(t, N)
  PROVE  Moved(v)
BY DEF Stamped, Moved

\* A step of w moves at most timestamps for the other holders of its tree.
LEMMA OthersMove ==
  ASSUME TypeInv, NEW w \in Writers, WriterStep(w) \/ Fault(w),
         NEW v \in Writers, v # w
  PROVE  Moved(v)
<1>1. CASE drift' = drift
  BY <1>1 DEF Moved
<1>2. ASSUME NEW t, NEW N, drift' = Stamped(t, N)
      PROVE  Moved(v)
  BY <1>2, StampedMoves
<1>3. ASSUME NEW N, drift' = Observed(drift, w, N)
      PROVE  Moved(v)
  BY <1>3 DEF Observed, Moved, TypeInv, RetOK
<1>4. ASSUME NEW t, NEW N, NEW M, drift' = Observed(Stamped(t, M), w, N)
      PROVE  Moved(v)
  <2> DEFINE d == Stamped(t, M)
  <2>1. d \in [Writers -> [Node -> Drift]]
    BY StampedType DEF TypeInv
  <2>2. \A n \in Node : d[v][n] = drift[v][n]
                          \/ (drift[v][n] = "same" /\ d[v][n] = "stamp")
    BY DEF Stamped
  <2>3. drift'[v] = d[v]
    <3> HIDE DEF d
    <3>1. drift' = Observed(d, w, N)
      BY <1>4 DEF d
    <3>2. QED
      BY <2>1, <3>1 DEF Observed
  <2> HIDE DEF d
  <2>4. QED
    BY <2>2, <2>3 DEF Moved
<1>5. CASE Begin(w)
  BY <1>1, <1>4, <1>5 DEF Begin, BeginPreflight, BeginMkdir, BeginOpen,
       BeginCheck, retVars
<1>6. CASE \E p \in Path : CreateDirectory(w, p) \/ CreateFile(w, p)
  BY <1>1, <1>6 DEF CreateDirectory, CreateFile, StartCreate, retVars
<1>7. CASE DirMkdir(w) \/ DirOpen(w) \/ DirCheck(w)
  BY <1>1, <1>2, <1>3, <1>4, <1>7 DEF DirMkdir, DirOpen, DirCheck
<1>8. CASE FileCreate(w) \/ FileCheck(w) \/ FileWrite(w)
  BY <1>1, <1>2, <1>3, <1>4, <1>8 DEF FileCreate, FileCheck, FileWrite
<1>9. CASE FileObserve(w) \/ FileSync(w) \/ FileSeal(w)
  BY <1>1, <1>3, <1>9 DEF FileObserve, FileSync, FileSeal, retVars
<1>10. CASE PublishAndAdopt(w)
  BY <1>1, <1>2, <1>3, <1>10 DEF PublishAndAdopt, StartPublish,
       PublishCallback, Adopt, AdoptCheck, retVars
<1>11. CASE Commit(w)
  BY <1>1, <1>2, <1>3, <1>11 DEF Commit, StartCommit, SyncCheck, SyncDo,
       RenameCheck, Rename, Renamed, ParentSync, CommitCheck, ReopenCheck,
       Validate, Return, FinalGate, retVars
<1>12. CASE Fault(w)
  BY <1>1, <1>12 DEF Fault, retVars
<1>13. QED
  BY <1>5, <1>6, <1>7, <1>8, <1>9, <1>10, <1>11, <1>12 DEF WriterStep, Create

\* The steps of w that touch a node of a tree.
NodeStep(w) == DirMkdir(w) \/ DirOpen(w) \/ FileCreate(w) \/ FileWrite(w)
                 \/ PublishCallback(w)

LEMMA OnlyNodeSteps ==
  ASSUME NEW w \in Writers, WriterStep(w) \/ Fault(w), ~NodeStep(w)
  PROVE  node' = node
<1>1. CASE Begin(w) \/ Commit(w) \/ Fault(w)
  BY <1>1 DEF Begin, BeginPreflight, BeginMkdir, BeginOpen, BeginCheck,
       Commit, StartCommit, SyncCheck, SyncDo, RenameCheck, Rename, Renamed,
       ParentSync, CommitCheck, ReopenCheck, Validate, Return, FinalGate,
       Fault, diskVars
<1>2. CASE Create(w) \/ PublishAndAdopt(w)
  BY <1>2 DEF Create, CreateDirectory, CreateFile, StartCreate, DirCheck,
       FileCheck, FileObserve, FileSync, FileSeal, PublishAndAdopt,
       StartPublish, Adopt, AdoptCheck, diskVars, NodeStep
<1>3. QED
  BY <1>1, <1>2 DEF WriterStep

\* What w's step adds to the trees: only its own tree changes, only entries that
\* were absent appear, beneath a directory that is there, and only the file it
\* fills or the directory it opens is rewritten.
LEMMA NodeStepAdds ==
  ASSUME TypeInv, TreeClosed, NEW w \in Writers, Ledger(w), Live(w), NodeStep(w)
  PROVE  /\ held[w] \in Tree
         /\ \A t \in Tree : t # held[w] => node'[t] = node[t]
         /\ \A p \in Present(held[w]) :
              \/ node'[held[w]][p] = node[held[w]][p]
              \/ /\ p = op[w] /\ pc[w] \in {"file.write", "dir.open"}
                 /\ node'[held[w]][p] # "absent"
         /\ \A p \in Path : p \notin Present(held[w]) /\ node'[held[w]][p] # "absent" =>
              /\ pc[w] \in {"dir.mkdir", "file.create", "publish"}
              /\ \/ Parent[p] = Root
                 \/ Parent[p] \in Present(held[w])
                 \/ pc[w] = "publish" /\ Parent[p] = op[w]
         /\ pc[w] = "publish" => op[w] \in Present(held[w]) \/ node'[held[w]][op[w]] # "absent"
<1> DEFINE t == held[w]
           p == op[w]
<1>1. pc[w] \in OpPhase
  BY DEF NodeStep, DirMkdir, DirOpen, FileCreate, FileWrite, PublishCallback,
       OpPhase
<1>2. t \in Tree /\ p \in Path /\ pc[w] \in Active
  BY <1>1, OperationHas, Phases
<1>3. /\ node \in [Tree -> [Path -> Content]]
      /\ \A q \in Path : q \in Present(t) <=> node[t][q] # "absent"
  BY DEF TypeInv, FsOK, Present
<1> HIDE DEF t, p
<1>4. ASSUME NEW c, node' = [node EXCEPT ![t][p] = c]
      PROVE  /\ \A s \in Tree : s # t => node'[s] = node[s]
             /\ \A q \in Path : node'[t][q] = IF q = p THEN c ELSE node[t][q]
  BY <1>2, <1>3, <1>4
<1>5. ASSUME NEW c, node' = [node EXCEPT ![t][p] = c], node[t][p] = "absent",
             c # "absent", drift[w][Parent[p]] # "gone",
             pc[w] \in {"dir.mkdir", "file.create"}
      PROVE  /\ \A s \in Tree : s # t => node'[s] = node[s]
             /\ \A q \in Present(t) : node'[t][q] = node[t][q]
             /\ \A q \in Path : q \notin Present(t) /\ node'[t][q] # "absent" =>
                  Parent[q] = Root \/ Parent[q] \in Present(t)
  <2>1. Parent[p] \in known[w] \cup {Root}
    BY <1>5 DEF Ledger, NewEntryPhase, p
  <2>2. Parent[p] = Root \/ Parent[p] \in Present(t)
    BY <1>2, <1>5, <2>1 DEF Live, t
  <2>3. \A q \in Path : q \notin Present(t) /\ node'[t][q] # "absent" => q = p
    BY <1>3, <1>4, <1>5
  <2>4. \A q \in Present(t) : node'[t][q] = node[t][q]
    BY <1>3, <1>4, <1>5 DEF Present
  <2>5. QED
    BY <1>4, <1>5, <2>2, <2>3, <2>4
<1>6. CASE DirMkdir(w)
  <2>1. pc[w] = "dir.mkdir" /\ pc[w] # "publish"
    BY <1>6 DEF DirMkdir
  <2>2. CASE node' = node
    BY <1>2, <1>3, <2>1, <2>2 DEF t, Present
  <2>3. CASE PutEntry(w, op[w], "dir")
    <3>1. /\ node' = [node EXCEPT ![t][p] = "dir"] /\ node[t][p] = "absent"
          /\ drift[w][Parent[p]] # "gone"
      BY <2>3 DEF PutEntry, t, p
    <3>2. QED
      BY <1>2, <1>5, <2>1, <3>1 DEF t
  <2>4. QED
    BY <1>6, <2>2, <2>3 DEF DirMkdir
<1>7. CASE FileCreate(w)
  <2>1. pc[w] = "file.create" /\ pc[w] # "publish"
    BY <1>7 DEF FileCreate
  <2>2. CASE node' = node
    BY <1>2, <1>3, <2>1, <2>2 DEF t, Present
  <2>3. CASE PutEntry(w, op[w], "partial")
    <3>1. /\ node' = [node EXCEPT ![t][p] = "partial"] /\ node[t][p] = "absent"
          /\ drift[w][Parent[p]] # "gone"
      BY <2>3 DEF PutEntry, t, p
    <3>2. QED
      BY <1>2, <1>5, <2>1, <3>1 DEF t
  <2>4. QED
    BY <1>7, <2>2, <2>3 DEF FileCreate
<1>8. CASE DirOpen(w)
  <2>1. pc[w] = "dir.open" /\ pc[w] # "publish"
    BY <1>8 DEF DirOpen
  <2>2. CASE node' = node
    BY <1>2, <1>3, <2>1, <2>2 DEF t, Present
  <2>3. CASE node[t][p] \in {"dir", "odd"} /\ node' = [node EXCEPT ![t][p] = "dir"]
    <3>1. p \in Present(t)
      BY <1>2, <1>3, <2>3
    <3>2. \A q \in Path : node'[t][q] = IF q = p THEN "dir" ELSE node[t][q]
      BY <1>4, <2>3
    <3>3. \A q \in Present(t) : q \in Path
      BY DEF Present
    <3>4. QED
      BY <1>2, <1>3, <1>4, <2>1, <2>3, <3>1, <3>2, <3>3 DEF t, p
  <2>4. QED
    BY <1>8, <2>2, <2>3 DEF DirOpen, t, p
<1>9. CASE FileWrite(w)
  <2>1. pc[w] = "file.write" /\ pc[w] # "publish" /\ p \in known[w]
    BY <1>9 DEF FileWrite, Ledger, EntryPhase, p
  <2>2. PICK c : /\ node' = [node EXCEPT ![t][p] = c]
                 /\ c = node[t][p] \/ (drift[w][p] # "gone" /\ c \in {"bytes", "foreign"})
    BY <1>9 DEF FileWrite, t, p
  <2>3. c = node[t][p] \/ (p \in Present(t) /\ c # "absent")
    BY <1>2, <2>1, <2>2 DEF Live, t
  <2>4. \A q \in Path : node'[t][q] = IF q = p THEN c ELSE node[t][q]
    BY <1>4, <2>2
  <2>5. \A q \in Present(t) : q \in Path
    BY DEF Present
  <2>6. QED
    BY <1>2, <1>3, <1>4, <2>1, <2>2, <2>3, <2>4, <2>5 DEF t, p
<1>10. CASE PublishCallback(w)
  <2>1. pc[w] = "publish" /\ Parent[p] = Root /\ pc[w] \notin {"file.write", "dir.open"}
    BY <1>10 DEF PublishCallback, Ledger, p
  <2>2. CASE node' = node /\ node[t][p] # "absent"
    BY <1>2, <1>3, <2>1, <2>2 DEF t, p, Present
  <2>3. ASSUME NEW files \in SUBSET (ChildrenOf(p) \cap Files \cap Plan),
               node[t][p] = "absent",
               node' = [node EXCEPT ![t] =
                 [q \in Path |-> IF q = p THEN "dir"
                                 ELSE IF q \in files THEN "bytes" ELSE @[q]]]
        PROVE  /\ \A s \in Tree : s # t => node'[s] = node[s]
               /\ \A q \in Present(t) : node'[t][q] = node[t][q]
               /\ \A q \in Path : q \notin Present(t) /\ node'[t][q] # "absent" =>
                    Parent[q] = Root \/ Parent[q] = p
               /\ node'[t][p] # "absent"
    <3>1. \A q \in Path : node'[t][q] = IF q = p THEN "dir"
                            ELSE IF q \in files THEN "bytes" ELSE node[t][q]
      BY <1>2, <1>3, <2>3
    <3>2. \A q \in files : Parent[q] = p
      BY <2>3 DEF ChildrenOf
    <3>3. p # Root /\ p \notin Present(t)
      BY <1>2, <1>3, <2>3, PathAssumption
    <3>4. \A q \in Present(t) : q \in Path /\ q # p /\ q \notin files
      BY <1>2, <3>2, <3>3 DEF TreeClosed, Present
    <3>5. \A s \in Tree : s # t => node'[s] = node[s]
      BY <1>2, <1>3, <2>3
    <3>6. QED
      BY <1>2, <1>3, <2>1, <3>1, <3>2, <3>4, <3>5
  <2>4. QED
    BY <1>2, <1>10, <2>1, <2>2, <2>3 DEF PublishCallback, t, p
<1>11. QED
  BY <1>6, <1>7, <1>8, <1>9, <1>10 DEF NodeStep

\* No step of a writer takes an entry away.
LEMMA WriterGrows ==
  ASSUME TypeInv, TreeClosed, NEW w \in Writers, Ledger(w), Live(w),
         WriterStep(w) \/ Fault(w)
  PROVE  \A t \in Tree : Present(t) \subseteq Present(t)'
<1>1. CASE ~NodeStep(w)
  BY <1>1, OnlyNodeSteps DEF Present
<1>2. CASE NodeStep(w)
  <2>1. \A t \in Tree : t # held[w] => Present(t) \subseteq Present(t)'
    BY <1>2, NodeStepAdds DEF Present
  <2>2. \A p \in Present(held[w]) : node'[held[w]][p] # "absent"
    BY <1>2, NodeStepAdds DEF Present
  <2>3. Present(held[w]) \subseteq {p \in Path : node'[held[w]][p] # "absent"}
    BY <2>2 DEF Present
  <2>4. ASSUME NEW t \in Tree, t = held[w]
        PROVE  Present(t) \subseteq Present(t)'
    BY <2>3, <2>4 DEF Present
  <2>5. QED
    BY <2>1, <2>4
<1>3. QED
  BY <1>1, <1>2

LEMMA ClosedWriter ==
  ASSUME TypeInv, TreeClosed, NEW w \in Writers, Ledger(w), Live(w),
         WriterStep(w) \/ Fault(w)
  PROVE  TreeClosed'
<1>1. CASE ~NodeStep(w)
  BY <1>1, OnlyNodeSteps DEF TreeClosed, Present
<1>2. CASE NodeStep(w)
  <2> SUFFICES ASSUME NEW t \in Tree, NEW p \in Path, node'[t][p] # "absent"
               PROVE  Parent[p] = Root \/ node'[t][Parent[p]] # "absent"
    BY PathAssumption DEF TreeClosed, Present, Path
  <2>1. \A q \in Path : q \in Present(t) => node'[t][q] # "absent"
    BY WriterGrows DEF Present
  <2>2. CASE p \in Present(t)
    BY <2>1, <2>2 DEF TreeClosed, Present
  <2>3. CASE p \notin Present(t)
    <3>1. t = held[w]
      BY <1>2, <2>3, NodeStepAdds DEF Present
    <3>2. \/ Parent[p] = Root
          \/ Parent[p] \in Present(t)
          \/ pc[w] = "publish" /\ Parent[p] = op[w]
      BY <1>2, <2>3, <3>1, NodeStepAdds
    <3>3. pc[w] = "publish" => op[w] \in Present(t) \/ node'[t][op[w]] # "absent"
      BY <1>2, <3>1, NodeStepAdds
    <3>4. \A q \in Present(t) : q \in Path
      BY DEF Present
    <3>5. QED
      BY <2>1, <3>2, <3>3, <3>4
  <2>4. QED
    BY <2>2, <2>3
<1>3. QED
  BY <1>1, <1>2

\* An outsider makes only entries of directories that are there and removes only
\* empty ones; a crash loses what lies beneath a lost entry.
LEMMA ClosedEnvironment ==
  ASSUME TypeInv, TreeClosed, MeddleStep \/ CrashStep \/ UNCHANGED vars
  PROVE  TreeClosed'
<1> USE DEF TypeInv, FsOK
<1>0. \A s \in Tree, q \in Path : Parent[q] # Root => Parent[q] \in Path
  BY PathAssumption DEF Path
<1>1. ASSUME NEW t \in Tree, NEW p \in Path, MeddleCreate(t, p)
      PROVE  TreeClosed'
  <2>1. \A s \in Tree, q \in Path :
          node'[s][q] # "absent" <=> node[s][q] # "absent" \/ (s = t /\ q = p)
    BY <1>1 DEF MeddleCreate
  <2>2. Parent[p] = Root \/ node[t][Parent[p]] # "absent"
    BY <1>1 DEF MeddleCreate, Present
  <2>3. QED
    BY <1>0, <2>1, <2>2 DEF TreeClosed, Present
<1>2. ASSUME NEW t \in Tree, NEW p \in Path, MeddleWrite(t, p) \/ MeddleAlter(t, p)
      PROVE  TreeClosed'
  <2>1. \A s \in Tree, q \in Path : node'[s][q] # "absent" <=> node[s][q] # "absent"
    BY <1>2 DEF MeddleWrite, MeddleAlter
  <2>2. QED
    BY <2>1 DEF TreeClosed, Present
<1>3. ASSUME NEW t \in Tree, NEW p \in Path, MeddleRemove(t, p)
      PROVE  TreeClosed'
  <2>1. \A s \in Tree, q \in Path :
          node'[s][q] # "absent" <=> node[s][q] # "absent" /\ ~(s = t /\ q = p)
    BY <1>3 DEF MeddleRemove
  <2>2. \A q \in Path : Parent[q] = p => node[t][q] = "absent"
    BY <1>3 DEF MeddleRemove, ChildrenOf, Present
  <2>3. QED
    BY <1>0, <2>1, <2>2 DEF TreeClosed, Present
<1>4. CASE CrashStep
  <2>1. PICK lost \in SUBSET Losable, torn \in SUBSET Tearable : Crash(lost, torn)
    BY <1>4 DEF CrashStep
  <2>2. \A s \in Tree, q \in Path :
          node'[s][q] # "absent" <=> node[s][q] # "absent" /\ <<s, q>> \notin lost
    BY <2>1 DEF Crash, Tearable, Present
  <2>3. \A s \in Tree, q \in Path :
          node[s][q] # "absent" /\ <<s, Parent[q]>> \in lost => <<s, q>> \in lost
    BY <2>1 DEF Crash, LossAllowed, Present
  <2>4. QED
    BY <1>0, <2>2, <2>3 DEF TreeClosed, Present
<1>5. CASE UNCHANGED node
  BY <1>5 DEF TreeClosed, Present
<1>6. QED
  BY <1>1, <1>2, <1>3, <1>4, <1>5 DEF MeddleStep, MeddleUnplace, MeddleMkdir,
       MeddlePlace, MeddleParent, MeddleCustody, fsVars, vars

\* A transaction's retained objects stay where they are, or are known orphans.
LEMMA LiveKeep ==
  ASSUME TypeInv, NEW w \in Writers, Live(w),
         held'[w] = held[w], known'[w] = known[w],
         pc'[w] \in Active => pc[w] \in Active,
         held[w] \in Tree => Present(held[w]) \subseteq Present(held[w])',
         drift'[w][Root] # "gone",
         \A p \in Path : drift[w][p] = "gone" => drift'[w][p] = "gone"
  PROVE  Live(w)'
<1>1. CASE pc'[w] \notin Active
  BY <1>1 DEF Live
<1>2. CASE pc'[w] \in Active
  <2>1. held[w] \in Tree /\ pc[w] \in Active /\ known[w] \in SUBSET Path
    BY <1>2 DEF TypeInv, PcOK, RetOK
  <2>2. \A p \in known[w] : drift'[w][p] = "gone" \/ node'[held[w]][p] # "absent"
    BY <2>1 DEF Live, Present
  <2>3. QED
    BY <2>1, <2>2 DEF Live, Present
<1>3. QED
  BY <1>1, <1>2

\* What a step of w does to w's own observations: it moves timestamps or retains
\* again what it could refresh or just opened.
LEMMA OwnDrift ==
  ASSUME TypeInv, NEW w \in Writers, WriterStep(w) \/ Fault(w),
         ~BeginOpen(w), ~DirOpen(w), ~FileCreate(w), ~Adopt(w)
  PROVE  \A n \in Node : drift[w][n] = "gone" <=> drift'[w][n] = "gone"
<1>1. CASE drift' = drift
  BY <1>1
<1>2. ASSUME NEW t, NEW N, drift' = Stamped(t, N)
      PROVE  \A n \in Node : drift[w][n] = "gone" <=> drift'[w][n] = "gone"
  BY <1>2 DEF Stamped
<1>3. ASSUME NEW m, Refreshable(w, m), drift' = Observed(drift, w, {m})
      PROVE  \A n \in Node : drift[w][n] = "gone" <=> drift'[w][n] = "gone"
  BY <1>3 DEF Observed, Refreshable, TypeInv, RetOK
<1>4. CASE Begin(w)
  BY <1>1, <1>4 DEF Begin, BeginPreflight, BeginMkdir, BeginCheck, retVars
<1>5. CASE Create(w)
  BY <1>1, <1>2, <1>3, <1>5 DEF Create, CreateDirectory, CreateFile,
       StartCreate, DirMkdir, DirCheck, FileCheck, FileWrite, FileObserve,
       FileSync, FileSeal, retVars
<1>6. CASE PublishAndAdopt(w)
  BY <1>1, <1>2, <1>6 DEF PublishAndAdopt, StartPublish, PublishCallback,
       AdoptCheck, retVars
<1>7. CASE Commit(w)
  BY <1>1, <1>2, <1>3, <1>7 DEF Commit, StartCommit, SyncCheck, SyncDo,
       RenameCheck, Rename, Renamed, ParentSync, CommitCheck, ReopenCheck,
       Validate, Return, FinalGate, retVars
<1>8. CASE Fault(w)
  BY <1>1, <1>8 DEF Fault, retVars
<1>9. QED
  BY <1>4, <1>5, <1>6, <1>7, <1>8 DEF WriterStep

\* Inside an active transaction a step of w keeps the root; it retains more only
\* where it opens, creates or adopts.
LEMMA OwnKeeps ==
  ASSUME TypeInv, NEW w \in Writers, WriterStep(w) \/ Fault(w),
         ~BeginOpen(w), ~DirOpen(w), ~FileCreate(w), ~Adopt(w)
  PROVE  /\ held'[w] = held[w] /\ known'[w] = known[w]
         /\ pc'[w] \in Active => pc[w] \in Active
<1> USE Phases DEF TypeInv, PcOK
<1>1. CASE Begin(w)
  <2>1. "begin.mkdir" \notin Active /\ "begin.open" \notin Active
        /\ "begin.check" \in Active
    BY DEF Active, OpPhase, CommitPhase
  <2>2. QED
    BY <1>1, <2>1 DEF Begin, BeginPreflight, BeginMkdir, BeginCheck, Goto,
       Abandon, retVars
<1>2. CASE Create(w) \/ PublishAndAdopt(w)
  <2>1. held' = held /\ known' = known
    BY <1>2 DEF Create, CreateDirectory, CreateFile, StartCreate, DirMkdir,
       DirCheck, FileCheck, FileWrite, FileObserve, FileSync, FileSeal,
       PublishAndAdopt, StartPublish, PublishCallback, AdoptCheck, retVars
  <2>2. pc[w] \in {"ready"} \cup OpPhase
    BY <1>2 DEF Create, CreateDirectory, CreateFile, StartCreate, DirMkdir,
       DirCheck, FileCheck, FileWrite, FileObserve, FileSync, FileSeal,
       PublishAndAdopt, StartPublish, PublishCallback, AdoptCheck, OpPhase
  <2>3. QED
    BY <2>1, <2>2
<1>3. CASE Commit(w)
  <2>1. held' = held /\ known' = known
    BY <1>3 DEF Commit, StartCommit, SyncCheck, SyncDo, RenameCheck, Rename,
       Renamed, ParentSync, CommitCheck, ReopenCheck, Validate, Return,
       FinalGate, retVars
  <2>2. pc[w] \in {"ready"} \cup CommitPhase
    BY <1>3 DEF Commit, StartCommit, SyncCheck, SyncDo, RenameCheck, Rename,
       Renamed, ParentSync, CommitCheck, ReopenCheck, Validate, Return,
       FinalGate, CommitPhase
  <2>3. QED
    BY <2>1, <2>2
<1>4. CASE Fault(w)
  <2>1. held' = held /\ known' = known
    BY <1>4 DEF Fault, retVars
  <2>2. pc'[w] = "failed" \/ pc[w] \in OpPhase
    BY <1>4 DEF Fault, Abandon, Goto
  <2>3. QED
    BY <2>1, <2>2
<1>5. QED
  BY <1>1, <1>2, <1>3, <1>4 DEF WriterStep

\* A fresh observation is "same"; the others stay.
LEMMA ObservedAt ==
  ASSUME NEW d \in [Writers -> [Node -> Drift]], NEW w \in Writers, NEW N
  PROVE  \A n \in Node :
           Observed(d, w, N)[w][n] = IF n \in N THEN "same" ELSE d[w][n]
BY DEF Observed

LEMMA LiveWriter ==
  ASSUME TypeInv, TreeClosed, NEW w \in Writers, Ledger(w), Live(w),
         WriterStep(w) \/ Fault(w)
  PROVE  Live(w)'
<1>0. \A t \in Tree : Present(t) \subseteq Present(t)'
  BY WriterGrows
<1>1. Root \in Node /\ Path \subseteq Node /\ Root \notin Path
  BY Nodes, PathAssumption
<1>3. CASE BeginOpen(w)
  <2>1. known'[w] = {}
    BY <1>3 DEF BeginOpen, Ledger, BeginPhase
  <2>2. CASE drift' = drift
    BY <2>1, <2>2 DEF Live
  <2>3. CASE drift' = Observed(Stamped(names["staging"], {Root}), w, {Root})
    <3>1. Stamped(names["staging"], {Root}) \in [Writers -> [Node -> Drift]]
      BY StampedType DEF TypeInv
    <3>2. drift'[w][Root] = "same"
      BY <1>1, <2>3, <3>1, ObservedAt
    <3>3. QED
      BY <2>1, <3>2 DEF Live
  <2>4. QED
    BY <1>3, <2>2, <2>3 DEF BeginOpen
<1>4. CASE DirOpen(w)
  <2>1. pc[w] \in OpPhase /\ pc[w] \in Active /\ held' = held
    BY <1>4, Phases DEF DirOpen, OpPhase
  <2>2. held[w] \in Tree /\ op[w] \in Path
    BY <2>1, OperationHas
  <2>3. CASE UNCHANGED <<known, drift, node>>
    BY <1>0, <2>1, <2>2, <2>3, LiveKeep DEF Live
  <2>4. CASE /\ node[held[w]][op[w]] \in {"dir", "odd"}
             /\ known' = [known EXCEPT ![w] = @ \cup {op[w]}]
             /\ drift' = Observed(Stamped(held[w], {op[w]}), w, {op[w]})
    <3>1. Stamped(held[w], {op[w]}) \in [Writers -> [Node -> Drift]]
      BY StampedType DEF TypeInv
    <3>2. \A n \in Node : drift'[w][n] = IF n = op[w] THEN "same"
                            ELSE Stamped(held[w], {op[w]})[w][n]
      <4> DEFINE d == Stamped(held[w], {op[w]})
                 M == {op[w]}
      <4>1. d \in [Writers -> [Node -> Drift]] /\ drift' = Observed(d, w, M)
        BY <2>4, <3>1
      <4> HIDE DEF d
      <4>2. \A n \in Node : drift'[w][n] = IF n \in M THEN "same" ELSE d[w][n]
        BY <4>1, ObservedAt
      <4>3. QED
        BY <4>2 DEF d
    <3>3. \A n \in Node : Stamped(held[w], {op[w]})[w][n] = "gone" <=> drift[w][n] = "gone"
      BY DEF Stamped
    <3>4. \A n \in Node : n # op[w] => (drift'[w][n] = "gone" <=> drift[w][n] = "gone")
      BY <3>2, <3>3
    <3>5. known'[w] = known[w] \cup {op[w]} /\ known[w] \in SUBSET Path
      BY <2>4 DEF TypeInv, RetOK
    <3>6. \A p \in known'[w] : drift'[w][p] = "gone" \/ p \in Present(held[w])
      BY <1>1, <2>1, <2>2, <2>4, <3>4, <3>5 DEF Live, Present
    <3>7. drift'[w][Root] # "gone"
      BY <1>1, <2>2, <3>4 DEF Live
    <3>8. Present(held[w]) \subseteq {p \in Path : node'[held'[w]][p] # "absent"}
      BY <1>0, <2>1, <2>2 DEF Present
    <3>9. QED
      BY <3>6, <3>7, <3>8 DEF Live, Present
  <2>5. QED
    BY <1>4, <2>3, <2>4 DEF DirOpen
<1>5. CASE FileCreate(w)
  <2>1. pc[w] \in OpPhase /\ pc[w] \in Active /\ held' = held
    BY <1>5, Phases DEF FileCreate, OpPhase
  <2>2. held[w] \in Tree /\ op[w] \in Path
    BY <2>1, OperationHas
  <2> DEFINE N == {Parent[op[w]]}
  <2>3. CASE UNCHANGED <<drift, known>>
    BY <1>0, <2>1, <2>2, <2>3, LiveKeep DEF Live
  <2>4. CASE /\ PutEntry(w, op[w], "partial")
             /\ known' = [known EXCEPT ![w] = @ \cup {op[w]}]
             /\ drift' = Observed(Stamped(held[w], N), w, {op[w]})
    <3>1. Stamped(held[w], N) \in [Writers -> [Node -> Drift]]
      BY StampedType DEF TypeInv
    <3>2. \A n \in Node : drift'[w][n] = IF n = op[w] THEN "same"
                            ELSE Stamped(held[w], N)[w][n]
      <4> DEFINE d == Stamped(held[w], N)
                 M == {op[w]}
      <4>1. d \in [Writers -> [Node -> Drift]] /\ drift' = Observed(d, w, M)
        BY <2>4, <3>1
      <4> HIDE DEF d
      <4>2. \A n \in Node : drift'[w][n] = IF n \in M THEN "same" ELSE d[w][n]
        BY <4>1, ObservedAt
      <4>3. QED
        BY <4>2 DEF d
    <3>3. \A n \in Node : Stamped(held[w], N)[w][n] = "gone" <=> drift[w][n] = "gone"
      BY DEF Stamped
    <3>4. \A n \in Node : n # op[w] => (drift'[w][n] = "gone" <=> drift[w][n] = "gone")
      BY <3>2, <3>3
    <3>5. known'[w] = known[w] \cup {op[w]} /\ known[w] \in SUBSET Path
      BY <2>4 DEF TypeInv, RetOK
    <3>6. node'[held[w]][op[w]] = "partial"
      BY <2>2, <2>4 DEF PutEntry, TypeInv, FsOK
    <3>7. drift'[w][Root] # "gone"
      BY <1>1, <2>2, <3>4 DEF Live
    <3>8. Present(held[w]) \subseteq {p \in Path : node'[held[w]][p] # "absent"}
      BY <1>0, <2>2 DEF Present
    <3>9. \A p \in known'[w] : drift'[w][p] = "gone"
                                 \/ p \in {q \in Path : node'[held[w]][q] # "absent"}
      BY <1>1, <2>1, <2>2, <3>4, <3>5, <3>6, <3>8 DEF Live
    <3>10. QED
      BY <2>1, <3>7, <3>9 DEF Live, Present
  <2>5. QED
    BY <1>5, <2>3, <2>4 DEF FileCreate
<1>6. CASE Adopt(w)
  <2>1. pc[w] \in OpPhase /\ pc[w] \in Active /\ held' = held /\ node' = node
    BY <1>6, Phases DEF Adopt, OpPhase, diskVars
  <2>2. held[w] \in Tree
    BY <2>1, OperationHas
  <2>3. CASE UNCHANGED <<known, done, seal, drift>>
    BY <1>0, <2>1, <2>2, <2>3, LiveKeep DEF Live
  <2>4. CASE /\ known' = [known EXCEPT ![w] = Present(held[w])]
             /\ drift' = Observed(drift, w, Present(held[w]) \cup {Root})
    <3>1. Present(held[w]) \subseteq Path /\ Present(held[w]) \cup {Root} \in SUBSET Node
      BY <1>1 DEF Present
    <3>2. drift'[w][Root] = "same"
      BY <1>1, <2>4, <3>1, ObservedAt DEF TypeInv, RetOK
    <3>3. known'[w] = Present(held[w])
      BY <2>4 DEF TypeInv, RetOK
    <3>4. QED
      BY <2>1, <3>2, <3>3 DEF Live, Present
  <2>5. QED
    BY <1>6, <2>3, <2>4 DEF Adopt
<1>7. CASE ~BeginOpen(w) /\ ~DirOpen(w) /\ ~FileCreate(w) /\ ~Adopt(w)
  <2>1. \A n \in Node : drift[w][n] = "gone" <=> drift'[w][n] = "gone"
    BY <1>7, OwnDrift
  <2>2. /\ held'[w] = held[w] /\ known'[w] = known[w]
        /\ pc'[w] \in Active => pc[w] \in Active
    BY <1>7, OwnKeeps
  <2>3. drift'[w][Root] # "gone"
    BY <1>1, <2>1 DEF Live
  <2>4. QED
    BY <1>0, <1>1, <2>1, <2>2, <2>3, LiveKeep
<1>8. QED
  BY <1>3, <1>4, <1>5, <1>6, <1>7

\* The other transactions see at most moved timestamps and new entries.
LEMMA LiveOther ==
  ASSUME TypeInv, TreeClosed, NEW w \in Writers, Ledger(w), Live(w),
         WriterStep(w) \/ Fault(w), NEW v \in Writers, v # w, Live(v)
  PROVE  Live(v)'
<1>1. /\ pc'[v] = pc[v] /\ held'[v] = held[v] /\ known'[v] = known[v]
  BY OwnStep
<1>2. \A t \in Tree : Present(t) \subseteq Present(t)'
  BY WriterGrows
<1>3. \A n \in Node : drift[v][n] = "gone" <=> drift'[v][n] = "gone"
  BY OthersMove DEF Moved
<1>4. drift'[v][Root] # "gone"
  BY <1>3, Nodes DEF Live
<1>5. QED
  BY <1>1, <1>2, <1>3, <1>4, Nodes, LiveKeep

\* Whoever interferes orphans what it removes.
LEMMA LiveEnvironment ==
  ASSUME TypeInv, NEW v \in Writers, Live(v),
         MeddleStep \/ CrashStep \/ UNCHANGED vars
  PROVE  Live(v)'
<1>0. Root \in Node /\ Path \subseteq Node /\ Root \notin Path
  BY Nodes, PathAssumption
<1>1. ASSUME NEW t \in Tree, NEW p \in Path, MeddleRemove(t, p)
      PROVE  Live(v)'
  <2>1. UNCHANGED <<pc, held, known>>
    BY <1>1 DEF MeddleRemove, Meddle
  <2>2. \A s \in Tree, q \in Path :
          node'[s][q] # "absent" <=> node[s][q] # "absent" /\ ~(s = t /\ q = p)
    BY <1>1 DEF MeddleRemove, TypeInv, FsOK
  <2> DEFINE d == Stamped(t, {Parent[p]})
  <2>3. d \in [Writers -> [Node -> Drift]]
    BY StampedType DEF TypeInv
  <2>4. \A n \in Node : d[v][n] = "gone" <=> drift[v][n] = "gone"
    BY DEF Stamped
  <2>5. drift' = [u \in Writers |-> [d[u] EXCEPT ![p] =
                    IF held[u] = t THEN "gone" ELSE @]]
    BY <1>1 DEF MeddleRemove
  <2> HIDE DEF d
  <2>6. \A n \in Node : drift'[v][n] = IF n = p /\ held[v] = t THEN "gone" ELSE d[v][n]
    BY <2>3, <2>5
  <2>7. drift'[v][Root] # "gone"
    BY <1>0, <2>4, <2>6 DEF Live
  <2>8. ASSUME pc[v] \in Active, NEW q \in known[v]
        PROVE  drift'[v][q] = "gone" \/ node'[held[v]][q] # "absent"
    <3>1. held[v] \in Tree /\ q \in Path
      BY <2>8 DEF TypeInv, PcOK, RetOK
    <3>2. CASE q = p /\ held[v] = t
      BY <1>0, <2>6, <3>1, <3>2
    <3>3. CASE ~(q = p /\ held[v] = t)
      BY <1>0, <2>2, <2>4, <2>6, <2>8, <3>1, <3>3 DEF Live, Present
    <3>4. QED
      BY <3>2, <3>3
  <2>9. known[v] \subseteq Path
    BY DEF TypeInv, RetOK
  <2>10. QED
    BY <2>1, <2>7, <2>8, <2>9 DEF Live, Present
<1>2. ASSUME UNCHANGED <<pc, held, known>>,
             \A s \in Tree, q \in Path : node[s][q] # "absent" => node'[s][q] # "absent",
             \A n \in Node : drift[v][n] = "gone" <=> drift'[v][n] = "gone"
      PROVE  Live(v)'
  <2>1. held[v] \in Tree => Present(held[v]) \subseteq Present(held[v])'
    BY <1>2 DEF Present
  <2>2. QED
    BY <1>0, <1>2, <2>1, LiveKeep DEF Live
<1>3. ASSUME NEW t \in Tree, NEW p \in Path,
             MeddleCreate(t, p) \/ MeddleWrite(t, p) \/ MeddleAlter(t, p)
      PROVE  Live(v)'
  <2>1. \A s \in Tree, q \in Path : node[s][q] # "absent" => node'[s][q] # "absent"
    BY <1>3 DEF MeddleCreate, MeddleWrite, MeddleAlter, TypeInv, FsOK
  <2>2. \A n \in Node : drift[v][n] = "gone" <=> drift'[v][n] = "gone"
    <3>1. CASE MeddleCreate(t, p) \/ MeddleWrite(t, p)
      BY <3>1 DEF MeddleCreate, MeddleWrite, Stamped
    <3>2. CASE MeddleAlter(t, p)
      BY <1>0, <3>2 DEF MeddleAlter, TypeInv, RetOK
    <3>3. QED
      BY <1>3, <3>1, <3>2
  <2>3. UNCHANGED <<pc, held, known>>
    BY <1>3 DEF MeddleCreate, MeddleWrite, MeddleAlter, Meddle
  <2>4. QED
    BY <1>2, <2>1, <2>2, <2>3
<1>4. CASE \/ \E s \in Slot : MeddleUnplace(s) \/ MeddleMkdir(s)
           \/ \E s \in Slot, t \in Tree : MeddlePlace(s, t)
           \/ MeddleParent \/ MeddleCustody \/ UNCHANGED vars
  <2>1. UNCHANGED <<pc, held, known, node>>
    BY <1>4 DEF MeddleUnplace, MeddlePlace, MeddleMkdir, MeddleParent,
         MeddleCustody, Meddle, fsVars, vars
  <2>2. \A n \in Node : drift[v][n] = "gone" <=> drift'[v][n] = "gone"
    <3>1. drift' = drift \/ \E t, N : drift' = Stamped(t, N)
      BY <1>4 DEF MeddleUnplace, MeddlePlace, MeddleMkdir, MeddleParent,
         MeddleCustody, vars
    <3>2. QED
      BY <3>1, StampedMoves DEF Moved
  <2>3. QED
    BY <1>2, <2>1, <2>2
<1>5. CASE CrashStep
  <2>1. pc'[v] \notin Active /\ drift' = drift
    <3>1. "idle" \notin Active /\ "dead" \notin Active
      BY DEF Active, OpPhase, CommitPhase
    <3>2. QED
      BY <1>5, <3>1, Phases DEF CrashStep, Crash, retVars
  <2>2. QED
    BY <2>1 DEF Live
<1>6. QED
  BY <1>1, <1>3, <1>4, <1>5 DEF MeddleStep

\* The trees and the ledgers together.
TreeInv ==
  /\ TypeInv
  /\ TreeClosed
  /\ \A w \in Writers : Ledger(w) /\ Live(w)

LEMMA InitTree == Init => TreeInv
<1> SUFFICES ASSUME Init PROVE TreeInv
  OBVIOUS
<1>1. TreeClosed
  BY DEF Init, TreeClosed, Present, EmptyTree
<1>2. \A w \in Writers : Live(w)
  BY Nodes DEF Init, Live
<1>3. QED
  BY <1>1, <1>2, InitType, InitLedger DEF TreeInv

LEMMA NextTree == TreeInv /\ [Next]_vars => TreeInv'
<1> SUFFICES ASSUME TreeInv, [Next]_vars PROVE TreeInv'
  OBVIOUS
<1> USE DEF TreeInv
<1>1. TypeInv' /\ \A w \in Writers : Ledger(w)'
  BY NextType, NextLedger
<1>2. ASSUME NEW w \in Writers, WriterStep(w) \/ Fault(w)
      PROVE  TreeClosed' /\ \A v \in Writers : Live(v)'
  <2>1. TreeClosed' /\ Live(w)'
    BY <1>2, ClosedWriter, LiveWriter
  <2>2. ASSUME NEW v \in Writers, v # w PROVE Live(v)'
    BY <1>2, <2>2, LiveOther
  <2>3. QED
    BY <2>1, <2>2
<1>3. ASSUME MeddleStep \/ CrashStep \/ UNCHANGED vars
      PROVE  TreeClosed' /\ \A v \in Writers : Live(v)'
  BY <1>3, ClosedEnvironment, LiveEnvironment
<1>4. TreeClosed' /\ \A v \in Writers : Live(v)'
  BY <1>2, <1>3 DEF Next, Rest
<1>5. QED
  BY <1>1, <1>4

\* No step of a writer takes the final name from what it denotes.
LEMMA FinalKept ==
  ASSUME TypeInv, NEW w \in Writers, WriterStep(w) \/ Fault(w), names["final"] # None
  PROVE  names'["final"] = names["final"]
<1>1. CASE BeginMkdir(w)
  BY <1>1 DEF BeginMkdir, Rebind, TypeInv, FsOK, NameState, Slot
<1>2. CASE Rename(w)
  BY <1>2 DEF Rename
<1>3. CASE ~BeginMkdir(w) /\ ~Rename(w)
  <2>1. names' = names
    BY <1>3 DEF WriterStep, Begin, BeginPreflight, BeginOpen, BeginCheck,
       Create, CreateDirectory, CreateFile, StartCreate, DirMkdir, DirOpen,
       DirCheck, FileCreate, FileCheck, FileWrite, FileObserve, FileSync,
       FileSeal, PublishAndAdopt, StartPublish, PublishCallback, Adopt,
       AdoptCheck, Commit, StartCommit, SyncCheck, SyncDo, RenameCheck,
       Renamed, ParentSync, CommitCheck, ReopenCheck, Validate, Return,
       FinalGate, Fault, diskVars
  <2>2. QED
    BY <2>1
<1>4. QED
  BY <1>1, <1>2, <1>3

\* Effects are create-only even when someone interferes between a check and the
\* call it protects: mkdirat, O_EXCL and RENAME_NOREPLACE never replace, and the
\* callback's directory was absent, with everything beneath it.
THEOREM NothingReplaced == Spec => NothingIsReplaced
<1> DEFINE Step ==
      meddles' = meddles /\ crashes' = crashes =>
       /\ names["final"] # None => names'["final"] = names["final"]
       /\ \A t \in Tree : \A p \in Present(t) :
            \/ node'[t][p] = node[t][p]
            \/ \E w \in Writers :
                 held[w] = t /\ op[w] = p /\ pc[w] \in {"file.write", "dir.open"}
<1>1. TreeInv /\ [Next]_vars => [Step]_vars
  <2> SUFFICES ASSUME TreeInv, Next PROVE Step
    BY DEF Step, vars
  <2> USE DEF TreeInv
  <2>1. ASSUME NEW w \in Writers, WriterStep(w) \/ Fault(w)
        PROVE  Step
    <3>1. names["final"] # None => names'["final"] = names["final"]
      BY <2>1, FinalKept
    <3>2. ASSUME NEW t \in Tree, NEW p \in Present(t), node'[t][p] # node[t][p]
          PROVE  held[w] = t /\ op[w] = p /\ pc[w] \in {"file.write", "dir.open"}
      <4>1. NodeStep(w)
        BY <2>1, <3>2, OnlyNodeSteps
      <4>2. t = held[w]
        BY <3>2, <4>1, NodeStepAdds
      <4>3. QED
        BY <3>2, <4>1, <4>2, NodeStepAdds
    <3>3. QED
      BY <3>1, <3>2
  <2>2. CASE MeddleStep
    <3>1. meddles' = meddles + 1
      BY <2>2, ZenonT(40) DEF MeddleStep, MeddleCreate, MeddleWrite, MeddleAlter,
         MeddleRemove, MeddleUnplace, MeddlePlace, MeddleMkdir, MeddleParent,
         MeddleCustody, Meddle
    <3>2. QED
      BY <3>1, BoundAssumption DEF TypeInv, EnvOK
  <2>3. CASE CrashStep
    <3>1. crashes' = crashes + 1
      BY <2>3 DEF CrashStep, Crash
    <3>2. QED
      BY <3>1, BoundAssumption DEF TypeInv, EnvOK
  <2>4. CASE UNCHANGED vars
    BY <2>4 DEF vars
  <2>5. QED
    BY <2>1, <2>2, <2>3, <2>4 DEF Next, Rest
<1>2. Spec => []TreeInv
  BY InitTree, NextTree, PTL DEF Spec
<1>3. QED
  BY <1>1, <1>2, PTL DEF Spec, NothingIsReplaced

(***************************************************************************)
(* Durability.  Between the fsync of an object and the last check of the   *)
(* commit, whoever takes durability away also moves the object's metadata: *)
(* SteadyInv says that what the commit no longer has to synchronize is     *)
(* durable or has drifted, and the final checks refuse drift.              *)
(***************************************************************************)

\* The commit has synchronized its last node; it has seen its tree at the final
\* name.
AfterSync == CommitPhase \ {"sync.check", "sync.do"}
FinalPhase == {"parent.sync", "commit.check", "committed", "validate", "post.check"}

\* A file, or an entry, that a commit is no longer to synchronize is durable, or
\* it changed since and the retained observation differs from it.
DataProgress(w) ==
  pc[w] \in CommitPhase => \A f \in known[w] \cap Files :
    f \in left[w] \/ drift[w][f] # "same" \/ f \in dataSynced[held[w]]

EntryProgress(w) ==
  pc[w] \in CommitPhase => \A p \in known[w] :
    \/ Parent[p] \in left[w] \/ Parent[p] \notin known[w] \cup {Root}
    \/ drift[w][p] = "gone" \/ drift[w][Parent[p]] = "gone"
    \/ p \in entrySynced[held[w]]

AllSynced(w) == pc[w] \in AfterSync => left[w] = {}

\* While the root is as observed after the rename, its tree is at the final name,
\* and from the fsync of the parent on it is so after any crash.
Placed(w) ==
  pc[w] \in FinalPhase /\ drift[w][Root] = "same" =>
    /\ names["final"] = held[w]
    /\ pc[w] # "parent.sync" =>
         \A binding \in recoverable : binding["final"] = held[w]

Progress(w) == DataProgress(w) /\ EntryProgress(w) /\ AllSynced(w) /\ Placed(w)

\* The steps of w that take durability from an entry or from bytes.
UnsyncStep(w) == DirMkdir(w) \/ FileCreate(w) \/ FileWrite(w) \/ PublishCallback(w)

LEMMA OnlyUnsyncSteps ==
  ASSUME TypeInv, NEW w \in Writers, WriterStep(w) \/ Fault(w), ~UnsyncStep(w),
         NEW t \in Tree
  PROVE  /\ dataSynced[t] \subseteq dataSynced'[t]
         /\ entrySynced[t] \subseteq entrySynced'[t]
<1> USE DEF TypeInv, FsOK
<1>1. CASE UNCHANGED <<dataSynced, entrySynced>>
  BY <1>1
<1>2. CASE Begin(w) \/ Fault(w)
  BY <1>1, <1>2 DEF Begin, BeginPreflight, BeginMkdir, BeginOpen, BeginCheck,
       Fault, diskVars
<1>3. CASE FileSync(w)
  BY <1>3 DEF FileSync, SyncFile
<1>4. CASE (Create(w) /\ ~FileSync(w)) \/ PublishAndAdopt(w)
  BY <1>1, <1>4 DEF Create, CreateDirectory, CreateFile, StartCreate, DirOpen,
       DirCheck, FileCheck, FileObserve, FileSeal, PublishAndAdopt,
       StartPublish, Adopt, AdoptCheck, diskVars, UnsyncStep
<1>5. CASE SyncDo(w)
  <2>1. CASE op[w] \in Files
    BY <1>5, <2>1 DEF SyncDo, SyncFile
  <2>2. CASE op[w] \notin Files
    BY <1>5, <2>2 DEF SyncDo
  <2>3. QED
    BY <2>1, <2>2
<1>6. CASE Commit(w) /\ ~SyncDo(w)
  BY <1>1, <1>6 DEF Commit, StartCommit, SyncCheck, RenameCheck, Rename,
       Renamed, ParentSync, CommitCheck, ReopenCheck, Validate, Return,
       FinalGate, diskVars
<1>7. QED
  BY <1>2, <1>3, <1>4, <1>5, <1>6 DEF WriterStep

\* What another holder of a tree has made durable stays durable, unless the
\* holder can tell.
LEMMA DurableKept ==
  ASSUME TreeInv, NEW w \in Writers, WriterStep(w) \/ Fault(w),
         NEW v \in Writers, v # w, pc[v] \in Active, NEW p \in known[v]
  PROVE  /\ p \in dataSynced[held[v]] =>
              p \in dataSynced'[held[v]] \/ drift[v][p] = "gone" \/ drift'[v][p] # "same"
         /\ p \in entrySynced[held[v]] =>
              p \in entrySynced'[held[v]] \/ drift[v][p] = "gone"
<1> USE DEF TreeInv
<1> DEFINE t == held[v]
<1>1. t \in Tree /\ p \in Path /\ p \in Node
  BY Nodes DEF TypeInv, PcOK, RetOK
<1>2. node[t][p] = "absent" => drift[v][p] = "gone"
  BY DEF Live, Present
<1>3. dataSynced \in [Tree -> SUBSET Path] /\ entrySynced \in [Tree -> SUBSET Path]
  BY DEF TypeInv, FsOK
<1> HIDE DEF t
<1>4. CASE ~UnsyncStep(w)
  BY <1>1, <1>4, OnlyUnsyncSteps DEF t
<1>5. ASSUME NEW c, PutEntry(w, op[w], c)
      PROVE  /\ p \in dataSynced[t] => p \in dataSynced'[t] \/ drift[v][p] = "gone"
             /\ p \in entrySynced[t] => p \in entrySynced'[t] \/ drift[v][p] = "gone"
  <2>1. CASE held[w] = t /\ op[w] = p
    BY <1>2, <1>5, <2>1 DEF PutEntry
  <2>2. CASE ~(held[w] = t /\ op[w] = p)
    BY <1>1, <1>3, <1>5, <2>2 DEF PutEntry
  <2>3. QED
    BY <2>1, <2>2
<1>6. CASE DirMkdir(w) \/ FileCreate(w)
  BY <1>5, <1>6 DEF DirMkdir, FileCreate, t
<1>7. CASE FileWrite(w)
  <2>1. entrySynced' = entrySynced /\ drift' = Stamped(held[w], {op[w]})
    BY <1>7 DEF FileWrite
  <2>2. CASE held[w] = t /\ op[w] = p
    <3>1. drift'[v][p] # "same"
      BY <1>1, <2>1, <2>2 DEF Stamped, t
    <3>2. QED
      BY <2>1, <3>1
  <2>3. CASE ~(held[w] = t /\ op[w] = p)
    <3>1. p \in dataSynced[t] => p \in dataSynced'[t]
      BY <1>1, <1>3, <1>7, <2>3 DEF FileWrite
    <3>2. QED
      BY <2>1, <3>1 DEF t
  <2>4. QED
    BY <2>2, <2>3
<1>8. CASE PublishCallback(w)
  <2>1. CASE UNCHANGED <<node, entrySynced, dataSynced, drift>>
    BY <2>1
  <2>2. CASE /\ node[held[w]][op[w]] = "absent"
             /\ entrySynced' = [entrySynced EXCEPT ![held[w]] =
                  @ \ ({op[w]} \cup ChildrenOf(op[w]))]
             /\ dataSynced' = [dataSynced EXCEPT ![held[w]] = @ \ ChildrenOf(op[w])]
             /\ drift' = Stamped(held[w], {Root, op[w]} \cup ChildrenOf(op[w]))
    <3>1. CASE held[w] # t
      BY <1>1, <1>3, <2>2, <3>1 DEF t
    <3>2. CASE held[w] = t /\ p \in ChildrenOf(op[w])
      <4>1. op[w] \in Path
        <5>1. pc[w] \in OpPhase
          BY <1>8 DEF PublishCallback, OpPhase
        <5>2. QED
          BY <5>1, OperationHas
      <4>2. Parent[p] = op[w] /\ op[w] # Root
        BY <3>2, <4>1, PathAssumption DEF ChildrenOf
      <4>3. node[t][p] = "absent"
        BY <1>1, <2>2, <3>2, <4>1, <4>2 DEF TreeClosed, Present
      <4>4. QED
        BY <1>2, <4>3
    <3>3. CASE held[w] = t /\ p = op[w]
      BY <1>2, <2>2, <3>3
    <3>4. CASE held[w] = t /\ p \notin ChildrenOf(op[w]) /\ p # op[w]
      BY <1>1, <1>3, <2>2, <3>4 DEF t
    <3>5. QED
      BY <3>1, <3>2, <3>3, <3>4
  <2>3. QED
    BY <1>8, <2>1, <2>2 DEF PublishCallback
<1>9. QED
  BY <1>4, <1>6, <1>7, <1>8 DEF UnsyncStep

\* A transaction that only sees timestamps move keeps its progress.
LEMMA ProgressMoved ==
  ASSUME TypeInv, NEW v \in Writers, DataProgress(v), EntryProgress(v), AllSynced(v),
         pc'[v] \in CommitPhase => pc[v] \in CommitPhase,
         pc'[v] \in AfterSync => pc[v] \in AfterSync,
         held'[v] = held[v], known'[v] = known[v], left'[v] = left[v],
         \A n \in Node : drift[v][n] = "gone" => drift'[v][n] = "gone",
         \A f \in Path : drift'[v][f] = "same" => drift[v][f] = "same",
         pc[v] \in CommitPhase => \A p \in known[v] :
           /\ p \in dataSynced[held[v]] =>
                p \in dataSynced'[held[v]] \/ drift[v][p] = "gone" \/ drift'[v][p] # "same"
           /\ p \in entrySynced[held[v]] =>
                p \in entrySynced'[held[v]] \/ drift[v][p] = "gone"
  PROVE  DataProgress(v)' /\ EntryProgress(v)' /\ AllSynced(v)'
<1>1. known[v] \subseteq Path /\ Path \subseteq Node /\ Root \in Node
  BY Nodes DEF TypeInv, RetOK
<1>2. DataProgress(v)'
  BY <1>1 DEF DataProgress
<1>3. \A p \in known[v] : Parent[p] \in Node
  BY <1>1, PathAssumption DEF Path, Node
<1>4. EntryProgress(v)'
  BY <1>1, <1>3 DEF EntryProgress
<1>5. AllSynced(v)'
  BY DEF AllSynced
<1>6. QED
  BY <1>2, <1>4, <1>5

LEMMA MovedSame ==
  ASSUME NEW v, Moved(v)
  PROVE  /\ \A n \in Node : drift[v][n] = "gone" => drift'[v][n] = "gone"
         /\ \A n \in Node : drift'[v][n] = "same" => drift[v][n] = "same"
BY DEF Moved

\* Where the final name and every recoverable state of it were settled on a
\* writer's tree, another writer's step leaves them.
LEMMA PlacedOther ==
  ASSUME TypeInv, NEW w \in Writers, WriterStep(w) \/ Fault(w), NEW T \in Tree,
         names["final"] = T
  PROVE  /\ names'["final"] = T
         /\ (\A binding \in recoverable : binding["final"] = T) =>
              \A binding \in recoverable' : binding["final"] = T
<1>1. names'["final"] = T
  BY FinalKept, NoneAssumption, BoundAssumption DEF Tree
<1>2. recoverable' \in {recoverable, recoverable \cup {names'}, {names}}
  BY DEF WriterStep, Begin, BeginPreflight, BeginMkdir, BeginOpen, BeginCheck,
       Create, CreateDirectory, CreateFile, StartCreate, DirMkdir, DirOpen,
       DirCheck, FileCreate, FileCheck, FileWrite, FileObserve, FileSync,
       FileSeal, PublishAndAdopt, StartPublish, PublishCallback, Adopt,
       AdoptCheck, Commit, StartCommit, SyncCheck, SyncDo, RenameCheck, Rename,
       Renamed, ParentSync, CommitCheck, ReopenCheck, Validate, Return,
       FinalGate, Fault, diskVars, Rebind
<1>3. QED
  BY <1>1, <1>2

LEMMA ProgressOther ==
  ASSUME TreeInv, NEW w \in Writers, WriterStep(w) \/ Fault(w),
         NEW v \in Writers, v # w, Progress(v)
  PROVE  Progress(v)'
<1> USE DEF TreeInv
<1>1. /\ pc'[v] = pc[v] /\ held'[v] = held[v] /\ known'[v] = known[v]
      /\ left'[v] = left[v]
  BY OwnStep
<1>2. Moved(v)
  BY OthersMove
<1>3. pc[v] \in CommitPhase => pc[v] \in Active /\ held[v] \in Tree
  BY Phases DEF TypeInv, PcOK
<1>4. ASSUME pc[v] \in CommitPhase, NEW p \in known[v]
      PROVE  /\ p \in dataSynced[held[v]] =>
                  p \in dataSynced'[held[v]] \/ drift[v][p] = "gone" \/ drift'[v][p] # "same"
             /\ p \in entrySynced[held[v]] =>
                  p \in entrySynced'[held[v]] \/ drift[v][p] = "gone"
  BY <1>3, <1>4, DurableKept
<1>5. DataProgress(v)' /\ EntryProgress(v)' /\ AllSynced(v)'
  <2>1. /\ \A n \in Node : drift[v][n] = "gone" => drift'[v][n] = "gone"
        /\ \A f \in Path : drift'[v][f] = "same" => drift[v][f] = "same"
    BY <1>2, MovedSame, Nodes
  <2>2. QED
    BY <1>1, <1>4, <2>1, ProgressMoved DEF Progress
<1>6. Placed(v)'
  <2> SUFFICES ASSUME pc[v] \in FinalPhase, drift'[v][Root] = "same"
               PROVE  /\ names'["final"] = held[v]
                      /\ pc[v] # "parent.sync" =>
                           \A binding \in recoverable' : binding["final"] = held[v]
    BY <1>1 DEF Placed
  <2>1. drift[v][Root] = "same"
    BY <1>2, MovedSame, Nodes
  <2>2. held[v] \in Tree /\ pc[v] \in CommitPhase
    BY <1>3 DEF FinalPhase, CommitPhase
  <2>3. QED
    BY <2>1, <2>2, PlacedOther DEF Progress, Placed
<1>7. QED
  BY <1>5, <1>6 DEF Progress

LEMMA ProgressOutside ==
  ASSUME NEW w, pc'[w] \notin CommitPhase
  PROVE  Progress(w)'
<1>1. AfterSync \subseteq CommitPhase /\ FinalPhase \subseteq CommitPhase
  BY DEF AfterSync, FinalPhase, CommitPhase
<1>2. QED
  BY <1>1 DEF Progress, DataProgress, EntryProgress, AllSynced, Placed

\* Synchronizing the next object of the list.
LEMMA ProgressSyncDo ==
  ASSUME TreeInv, NEW w \in Writers, Progress(w), SyncDo(w)
  PROVE  Progress(w)'
<1> USE DEF TreeInv
<1> DEFINE t == held[w]
           m == op[w]
<1>1. /\ pc[w] = "sync.do" /\ pc[w] \in CommitPhase /\ pc[w] \in Active
      /\ UNCHANGED <<held, known, drift, node>>
  BY Phases DEF SyncDo, retVars, CommitPhase
<1>2. t \in Tree /\ m \in Node /\ known[w] \subseteq Path
  BY <1>1 DEF TypeInv, PcOK, RetOK, CtlOK
<1>3. left'[w] = left[w] \ {m}
  BY DEF SyncDo, TypeInv, CtlOK
<1>4. /\ pc'[w] \in {"rename.check", "sync.check"}
      /\ pc'[w] = "rename.check" => left[w] = {m}
  BY DEF SyncDo, Goto, TypeInv, PcOK
<1>5. dataSynced \in [Tree -> SUBSET Path] /\ entrySynced \in [Tree -> SUBSET Path]
  BY DEF TypeInv, FsOK
<1>6. AllSynced(w)' /\ Placed(w)'
  BY <1>3, <1>4 DEF AllSynced, AfterSync, CommitPhase, Placed, FinalPhase
<1>7. CASE m \in Files
  <2>1. /\ entrySynced' = entrySynced
        /\ dataSynced' = [dataSynced EXCEPT
             ![t] = IF drift[w][m] = "gone" THEN @ ELSE @ \cup {m}]
    BY <1>7 DEF SyncDo, SyncFile
  <2>2. DataProgress(w)'
    <3>1. \A f \in known[w] \cap Files :
            f \in left'[w] \/ drift[w][f] # "same" \/ f \in dataSynced'[t]
      <4> SUFFICES ASSUME NEW f \in known[w] \cap Files, drift[w][f] = "same",
                          f \notin left'[w]
                   PROVE  f \in dataSynced'[t]
        OBVIOUS
      <4>1. CASE f = m
        BY <1>2, <1>5, <2>1, <4>1
      <4>2. CASE f # m
        <5>1. f \in dataSynced[t]
          BY <1>1, <1>3, <4>2 DEF Progress, DataProgress
        <5>2. QED
          BY <1>2, <1>5, <2>1, <5>1
      <4>3. QED
        BY <4>1, <4>2
    <3>2. QED
      BY <1>1, <3>1 DEF DataProgress
  <2>3. EntryProgress(w)'
    <3>1. \A p \in known[w] : Parent[p] # m
      BY <1>2, <1>7, PathAssumption DEF Path
    <3>2. QED
      BY <1>1, <1>3, <2>1, <3>1 DEF Progress, EntryProgress
  <2>4. QED
    BY <1>6, <2>2, <2>3 DEF Progress
<1>8. CASE m \notin Files
  <2>1. /\ dataSynced' = dataSynced
        /\ entrySynced' = [entrySynced EXCEPT ![t] =
             IF drift[w][m] = "gone" THEN @
             ELSE @ \cup (ChildrenOf(m) \cap Present(t))]
    BY <1>8 DEF SyncDo
  <2>2. DataProgress(w)'
    BY <1>1, <1>3, <1>8, <2>1 DEF Progress, DataProgress
  <2>3. EntryProgress(w)'
    <3>1. ASSUME NEW p \in known[w]
          PROVE  \/ Parent[p] \in left'[w] \/ Parent[p] \notin known[w] \cup {Root}
                 \/ drift[w][p] = "gone" \/ drift[w][Parent[p]] = "gone"
                 \/ p \in entrySynced'[t]
      <4>1. CASE Parent[p] = m
        <5>1. drift[w][p] = "gone" \/ p \in Present(t)
          BY <1>1 DEF Live
        <5>2. p \in ChildrenOf(m)
          BY <1>2, <4>1 DEF ChildrenOf
        <5>3. QED
          BY <1>2, <1>5, <2>1, <4>1, <5>1, <5>2
      <4>2. CASE Parent[p] # m
        <5>1. p \in entrySynced[t] => p \in entrySynced'[t]
          BY <1>2, <1>5, <2>1
        <5>2. QED
          BY <1>1, <1>3, <4>2, <5>1 DEF Progress, EntryProgress
      <4>3. QED
        BY <4>1, <4>2
    <3>2. QED
      BY <1>1, <3>1 DEF EntryProgress
  <2>4. QED
    BY <1>6, <2>2, <2>3 DEF Progress
<1>9. QED
  BY <1>7, <1>8

LEMMA ProgressOwn ==
  ASSUME TreeInv, NEW w \in Writers, Progress(w), WriterStep(w) \/ Fault(w)
  PROVE  Progress(w)'
<1> USE DEF TreeInv
<1>0. pc \in [Writers -> Phase]
  BY DEF TypeInv, PcOK
<1>1. CASE Begin(w) \/ Fault(w)
  <2>0. PICK x \in {"ready", "failed"} \cup BeginPhase : pc' = [pc EXCEPT ![w] = x]
    BY <1>1 DEF Begin, BeginPreflight, BeginMkdir, BeginOpen, BeginCheck,
         Fault, Goto, Abandon, Poison, BeginPhase
  <2>1. pc'[w] \notin CommitPhase
    BY <1>0, <2>0 DEF BeginPhase, CommitPhase
  <2>2. QED
    BY <2>1, ProgressOutside
<1>2. CASE Create(w) \/ PublishAndAdopt(w)
  <2>1. PICK x \in {"ready"} \cup OpPhase : pc' = [pc EXCEPT ![w] = x]
    <3>1. CASE Create(w)
      BY <3>1 DEF Create, CreateDirectory, CreateFile, StartCreate, DirMkdir,
         DirOpen, DirCheck, FileCreate, FileCheck, FileWrite, FileObserve,
         FileSync, FileSeal, Poison, FinishOperation, Goto, OpPhase
    <3>2. CASE PublishAndAdopt(w)
      BY <3>2 DEF PublishAndAdopt, StartPublish, PublishCallback, Adopt,
         AdoptCheck, Poison, FinishOperation, FinishCallback, Goto, OpPhase
    <3>3. QED
      BY <1>2, <3>1, <3>2
  <2>2. pc'[w] \notin CommitPhase
    BY <1>0, <2>1 DEF OpPhase, CommitPhase
  <2>3. QED
    BY <2>2, ProgressOutside
<1>3. CASE SyncDo(w)
  BY <1>3, ProgressSyncDo
<1>4. ASSUME Commit(w), Abandon(w)
      PROVE  Progress(w)'
  <2>1. pc'[w] \notin CommitPhase
    BY <1>0, <1>4 DEF Abandon, Goto, CommitPhase
  <2>2. QED
    BY <2>1, ProgressOutside
<1>5. CASE StartCommit(w) /\ ~Abandon(w)
  <2>1. /\ pc'[w] = "sync.check" /\ left'[w] = known[w] \cup {Root}
        /\ UNCHANGED <<held, known>>
    BY <1>0, <1>5 DEF StartCommit, Goto, retVars, TypeInv, CtlOK
  <2>2. QED
    BY <2>1 DEF Progress, DataProgress, EntryProgress, AllSynced, AfterSync,
         Placed, FinalPhase
<1>6. ASSUME NEW x \in CommitPhase, pc[w] \in CommitPhase, pc'[w] = x,
             x \in AfterSync => pc[w] \in AfterSync,
             UNCHANGED <<held, known, left, dataSynced, entrySynced>>,
             \A n \in Node : drift[w][n] = "gone" => drift'[w][n] = "gone",
             \A f \in Path : drift'[w][f] = "same" => drift[w][f] = "same"
      PROVE  DataProgress(w)' /\ EntryProgress(w)' /\ AllSynced(w)'
  BY <1>6, ProgressMoved DEF Progress
<1>7. CASE (SyncCheck(w) \/ RenameCheck(w)) /\ ~Abandon(w)
  <2>1. /\ \/ pc[w] = "sync.check" /\ pc'[w] = "sync.do"
           \/ pc[w] = "rename.check" /\ pc'[w] = "rename"
        /\ UNCHANGED <<held, known, left, dataSynced, entrySynced, drift>>
    <3>1. CASE SyncCheck(w)
      BY <1>0, <1>7, <3>1 DEF SyncCheck, Goto, retVars, diskVars
    <3>2. CASE RenameCheck(w)
      BY <1>0, <1>7, <3>2 DEF RenameCheck, Goto, retVars, diskVars
    <3>3. QED
      BY <1>7, <3>1, <3>2
  <2>2. DataProgress(w)' /\ EntryProgress(w)' /\ AllSynced(w)'
    BY <1>6, <2>1 DEF CommitPhase, AfterSync
  <2>3. Placed(w)'
    BY <2>1 DEF Placed, FinalPhase
  <2>4. QED
    BY <2>2, <2>3 DEF Progress
<1>8. CASE Rename(w) /\ ~Abandon(w)
  <2>1. /\ pc[w] = "rename" /\ pc'[w] = "renamed"
        /\ UNCHANGED <<held, known, left, dataSynced, entrySynced>>
        /\ drift' = Stamped(names["staging"], {Root})
    BY <1>0, <1>8 DEF Rename, Goto
  <2>2. /\ \A n \in Node : drift[w][n] = "gone" => drift'[w][n] = "gone"
        /\ \A f \in Path : drift'[w][f] = "same" => drift[w][f] = "same"
    BY <2>1, StampedMoves, MovedSame, Nodes
  <2>3. DataProgress(w)' /\ EntryProgress(w)' /\ AllSynced(w)'
    BY <1>6, <2>1, <2>2 DEF CommitPhase, AfterSync
  <2>4. Placed(w)'
    BY <2>1 DEF Placed, FinalPhase
  <2>5. QED
    BY <2>3, <2>4 DEF Progress
<1>9. CASE Renamed(w) /\ ~Abandon(w)
  <2>1. /\ pc[w] = "renamed" /\ pc'[w] = "parent.sync"
        /\ UNCHANGED <<held, known, left, dataSynced, entrySynced, names>>
        /\ drift' = Observed(drift, w, {Root})
        /\ Refreshable(w, Root)
        /\ names["final"] = held[w]
    BY <1>0, <1>9 DEF Renamed, Goto, diskVars, ReauthenticateFinal
  <2>2. \A n \in Node : drift'[w][n] = IF n = Root THEN "same" ELSE drift[w][n]
    BY <2>1, ObservedAt DEF TypeInv, RetOK
  <2>3. /\ \A n \in Node : drift[w][n] = "gone" => drift'[w][n] = "gone"
        /\ \A f \in Path : drift'[w][f] = "same" => drift[w][f] = "same"
    BY <2>1, <2>2, Nodes, PathAssumption DEF Refreshable
  <2>4. DataProgress(w)' /\ EntryProgress(w)' /\ AllSynced(w)'
    BY <1>6, <2>1, <2>3 DEF CommitPhase, AfterSync
  <2>5. Placed(w)'
    BY <2>1 DEF Placed
  <2>6. QED
    BY <2>4, <2>5 DEF Progress
<1>10. CASE ParentSync(w)
  <2>1. /\ pc[w] = "parent.sync" /\ pc'[w] = "commit.check"
        /\ UNCHANGED <<held, known, left, dataSynced, entrySynced, names, drift>>
        /\ recoverable' = {names}
    BY <1>0, <1>10 DEF ParentSync, Goto, retVars
  <2>2. DataProgress(w)' /\ EntryProgress(w)' /\ AllSynced(w)'
    BY <1>6, <2>1 DEF CommitPhase, AfterSync
  <2>3. Placed(w)'
    BY <2>1 DEF Progress, Placed, FinalPhase
  <2>4. QED
    BY <2>2, <2>3 DEF Progress
<1>11. CASE (CommitCheck(w) \/ ReopenCheck(w) \/ Validate(w) \/ Return(w)) /\ ~Abandon(w)
  <2>1. /\ pc[w] \in {"commit.check", "committed", "validate", "post.check"}
        /\ pc'[w] \in {"committed", "validate", "post.check", "rejected", "returned"}
        /\ UNCHANGED <<held, known, left, dataSynced, entrySynced, names, drift, recoverable>>
    BY <1>0, <1>11 DEF CommitCheck, ReopenCheck, Validate, Return, FinalGate,
         Goto, retVars, diskVars
  <2>2. CASE pc'[w] \in {"rejected", "returned"}
    BY <2>2, ProgressOutside DEF CommitPhase
  <2>3. CASE pc'[w] \in {"committed", "validate", "post.check"}
    <3>1. DataProgress(w)' /\ EntryProgress(w)' /\ AllSynced(w)'
      BY <1>6, <2>1, <2>3 DEF CommitPhase, AfterSync
    <3>2. Placed(w)'
      BY <2>1, <2>3 DEF Progress, Placed, FinalPhase
    <3>3. QED
      BY <3>1, <3>2 DEF Progress
  <2>4. QED
    BY <2>1, <2>2, <2>3
<1>12. QED
  BY <1>1, <1>2, <1>3, <1>4, <1>5, <1>7, <1>8, <1>9, <1>10, <1>11
     DEF WriterStep, Commit

\* What an outsider does to a transaction's observations: never back to "same",
\* never back from "gone".
LEMMA MeddleDrift ==
  ASSUME TypeInv, NEW v \in Writers, MeddleStep
  PROVE  /\ \A n \in Node : drift[v][n] = "gone" => drift'[v][n] = "gone"
         /\ \A n \in Node : drift'[v][n] = "same" => drift[v][n] = "same"
<1>1. CASE drift' = drift
  BY <1>1
<1>2. ASSUME NEW t, NEW N, drift' = Stamped(t, N)
      PROVE  /\ \A n \in Node : drift[v][n] = "gone" => drift'[v][n] = "gone"
             /\ \A n \in Node : drift'[v][n] = "same" => drift[v][n] = "same"
  BY <1>2, StampedMoves, MovedSame
<1>3. ASSUME NEW t \in Tree, NEW p \in Path, MeddleAlter(t, p)
      PROVE  /\ \A n \in Node : drift[v][n] = "gone" => drift'[v][n] = "gone"
             /\ \A n \in Node : drift'[v][n] = "same" => drift[v][n] = "same"
  BY <1>3, Nodes DEF MeddleAlter, TypeInv, RetOK
<1>4. ASSUME NEW t \in Tree, NEW p \in Path, MeddleRemove(t, p)
      PROVE  /\ \A n \in Node : drift[v][n] = "gone" => drift'[v][n] = "gone"
             /\ \A n \in Node : drift'[v][n] = "same" => drift[v][n] = "same"
  <2> DEFINE d == Stamped(t, {Parent[p]})
  <2>1. d \in [Writers -> [Node -> Drift]]
    BY StampedType DEF TypeInv
  <2>2. \A n \in Node : /\ drift[v][n] = "gone" => d[v][n] = "gone"
                        /\ d[v][n] = "same" => drift[v][n] = "same"
    BY DEF Stamped
  <2>3. drift' = [u \in Writers |-> [d[u] EXCEPT ![p] =
                    IF held[u] = t THEN "gone" ELSE @]]
    BY <1>4 DEF MeddleRemove
  <2> HIDE DEF d
  <2>4. \A n \in Node : drift'[v][n] = IF n = p /\ held[v] = t THEN "gone" ELSE d[v][n]
    BY <2>1, <2>3
  <2>5. QED
    BY <2>2, <2>4
<1>5. QED
  BY <1>1, <1>2, <1>3, <1>4 DEF MeddleStep, MeddleCreate, MeddleWrite,
       MeddleUnplace, MeddlePlace, MeddleMkdir, MeddleParent, MeddleCustody

\* Whoever moves a published tree away leaves its timestamps behind.
LEMMA PlacedMeddle ==
  ASSUME TypeInv, NEW v \in Writers, Placed(v), MeddleStep
  PROVE  Placed(v)'
<1>1. UNCHANGED <<pc, held>>
  BY SMTT(40), ZenonT(40) DEF MeddleStep, MeddleCreate, MeddleWrite, MeddleAlter, MeddleRemove,
       MeddleUnplace, MeddlePlace, MeddleMkdir, MeddleParent, MeddleCustody, Meddle
<1>2. SUFFICES ASSUME pc[v] \in FinalPhase, drift'[v][Root] = "same"
               PROVE  /\ names'["final"] = held[v]
                      /\ pc[v] # "parent.sync" =>
                           \A binding \in recoverable' : binding["final"] = held[v]
  BY <1>1 DEF Placed
<1>3. drift[v][Root] = "same"
  BY <1>2, MeddleDrift, Nodes
<1>4. /\ names["final"] = held[v]
      /\ pc[v] # "parent.sync" => \A binding \in recoverable : binding["final"] = held[v]
  BY <1>2, <1>3 DEF Placed
<1>5. held[v] \in Tree /\ held[v] # None
  BY <1>2, NoneAssumption, BoundAssumption
     DEF FinalPhase, Active, CommitPhase, TypeInv, PcOK, Tree
<1>6. ASSUME NEW s \in Slot, NEW x, Rebind([names EXCEPT ![s] = x]), s # "final"
      PROVE  /\ names'["final"] = held[v]
             /\ pc[v] # "parent.sync" =>
                  \A binding \in recoverable' : binding["final"] = held[v]
  <2>1. names'["final"] = names["final"] /\ recoverable' = recoverable \cup {names'}
    BY <1>6 DEF Rebind, TypeInv, FsOK, NameState, Slot
  <2>2. QED
    BY <1>4, <2>1
<1>7. CASE names' = names /\ recoverable' = recoverable
  BY <1>4, <1>7
<1>8. ASSUME NEW s \in Slot, MeddleUnplace(s)
      PROVE  s # "final"
  <2>1. SUFFICES ASSUME s = "final" PROVE FALSE
    OBVIOUS
  <2>2. drift' = Stamped(held[v], {Root})
    BY <1>4, <1>8, <2>1 DEF MeddleUnplace
  <2>3. drift'[v][Root] = "stamp"
    BY <1>3, <2>2, Nodes DEF Stamped
  <2>4. QED
    BY <1>2, <2>3
<1>9. ASSUME NEW s \in Slot, MeddleMkdir(s) \/ \E t \in Tree : MeddlePlace(s, t)
      PROVE  s # "final"
  BY <1>4, <1>5, <1>9 DEF MeddleMkdir, MeddlePlace
<1>10. ASSUME NEW s \in Slot,
              MeddleUnplace(s) \/ MeddleMkdir(s) \/ \E t \in Tree : MeddlePlace(s, t)
       PROVE  /\ names'["final"] = held[v]
              /\ pc[v] # "parent.sync" =>
                   \A binding \in recoverable' : binding["final"] = held[v]
  <2>1. s # "final"
    BY <1>8, <1>9, <1>10
  <2>2. PICK x : Rebind([names EXCEPT ![s] = x])
    BY <1>10 DEF MeddleUnplace, MeddleMkdir, MeddlePlace
  <2>3. QED
    BY <1>6, <2>1, <2>2
<1>11. QED
  BY <1>7, <1>10 DEF MeddleStep, MeddleCreate, MeddleWrite, MeddleAlter,
       MeddleRemove, MeddleParent, MeddleCustody, fsVars

LEMMA ProgressEnvironment ==
  ASSUME TreeInv, NEW v \in Writers, Progress(v),
         MeddleStep \/ CrashStep \/ UNCHANGED vars
  PROVE  Progress(v)'
<1> USE DEF TreeInv
<1>1. CASE MeddleStep
  <2>1. UNCHANGED <<pc, held, known, left, entrySynced>>
    BY <1>1, ZenonT(40) DEF MeddleStep, MeddleCreate, MeddleWrite, MeddleAlter,
       MeddleRemove, MeddleUnplace, MeddlePlace, MeddleMkdir, MeddleParent,
       MeddleCustody, Meddle, fsVars
  <2>2. /\ \A n \in Node : drift[v][n] = "gone" => drift'[v][n] = "gone"
        /\ \A f \in Path : drift'[v][f] = "same" => drift[v][f] = "same"
    BY <1>1, MeddleDrift, Nodes
  <2>3. ASSUME pc[v] \in CommitPhase, NEW p \in known[v], p \in dataSynced[held[v]]
        PROVE  p \in dataSynced'[held[v]] \/ drift'[v][p] # "same"
    <3>1. held[v] \in Tree /\ p \in Path /\ p \in Node
      BY <2>3, Phases, Nodes DEF TypeInv, PcOK, RetOK
    <3>2. CASE dataSynced' = dataSynced
      BY <2>3, <3>2
    <3>3. ASSUME NEW t \in Tree, NEW f \in Path, MeddleWrite(t, f)
          PROVE  p \in dataSynced'[held[v]] \/ drift'[v][p] # "same"
      <4>1. CASE t = held[v] /\ f = p
        <5>1. drift' = Stamped(held[v], {p})
          BY <3>3, <4>1 DEF MeddleWrite
        <5>2. QED
          BY <3>1, <5>1 DEF Stamped
      <4>2. CASE ~(t = held[v] /\ f = p)
        BY <2>3, <3>1, <3>3, <4>2 DEF MeddleWrite, TypeInv, FsOK
      <4>3. QED
        BY <4>1, <4>2
    <3>4. QED
      BY <1>1, <3>2, <3>3 DEF MeddleStep, MeddleCreate, MeddleAlter,
       MeddleRemove, MeddleUnplace, MeddlePlace, MeddleMkdir, MeddleParent,
       MeddleCustody, fsVars
  <2>4. DataProgress(v)' /\ EntryProgress(v)' /\ AllSynced(v)'
    BY <2>1, <2>2, <2>3, ProgressMoved DEF Progress
  <2>5. QED
    BY <1>1, <2>4, PlacedMeddle DEF Progress
<1>2. CASE CrashStep
  <2>1. pc'[v] \notin CommitPhase
    <3>1. "dead" \notin CommitPhase /\ "idle" \notin CommitPhase
      BY DEF CommitPhase
    <3>2. QED
      BY <1>2, <3>1, Phases DEF CrashStep, Crash
  <2>2. QED
    BY <2>1, ProgressOutside
<1>3. CASE UNCHANGED vars
  BY <1>3 DEF vars, Progress, DataProgress, EntryProgress, AllSynced, Placed
<1>4. QED
  BY <1>1, <1>2, <1>3

\* The inductive invariant of a transaction under any interference.
SteadyInv == TreeInv /\ \A w \in Writers : Progress(w)

LEMMA InitSteady == Init => SteadyInv
<1> SUFFICES ASSUME Init PROVE SteadyInv
  OBVIOUS
<1>1. ASSUME NEW w \in Writers PROVE Progress(w)
  BY DEF Init, Progress, DataProgress, EntryProgress, AllSynced, Placed,
       AfterSync, FinalPhase, CommitPhase
<1>2. QED
  BY <1>1, InitTree DEF SteadyInv

LEMMA NextSteady == SteadyInv /\ [Next]_vars => SteadyInv'
<1> SUFFICES ASSUME SteadyInv, [Next]_vars PROVE SteadyInv'
  OBVIOUS
<1>1. TreeInv /\ TreeInv'
  BY NextTree DEF SteadyInv
<1>2. ASSUME NEW w \in Writers, WriterStep(w) \/ Fault(w), NEW v \in Writers
      PROVE  Progress(v)'
  BY <1>1, <1>2, ProgressOwn, ProgressOther DEF SteadyInv
<1>3. ASSUME MeddleStep \/ CrashStep \/ UNCHANGED vars, NEW v \in Writers
      PROVE  Progress(v)'
  BY <1>1, <1>3, ProgressEnvironment DEF SteadyInv
<1>4. QED
  BY <1>1, <1>2, <1>3 DEF Next, Rest, SteadyInv

\* The step that returns the value.
LEMMA ReturnSound ==
  ASSUME SteadyInv, NEW w \in Writers, Return(w), pc'[w] = "returned"
  PROVE  /\ names["final"] = held[w]
         /\ Present(held[w]) = known[w]
         /\ \A f \in known[w] \cap Files :
              f \in done[w] /\ node[held[w]][f] = seal[w][f] /\ f \in dataSynced[held[w]]
         /\ known[w] \subseteq entrySynced[held[w]]
         /\ \A binding \in recoverable : binding["final"] = held[w]
<1> USE DEF SteadyInv, TreeInv
<1>1. pc[w] = "post.check" /\ ReauthenticateFinal(w, drift[w])
  BY DEF Return, FinalGate, Abandon, Goto, TypeInv, PcOK
<1>2. /\ names["final"] = held[w] /\ Present(held[w]) = known[w]
      /\ \A n \in known[w] \cup {Root} : drift[w][n] = "same"
      /\ \A f \in known[w] \cap Files : seal[w][f] # "absent" => node[held[w]][f] = seal[w][f]
  BY <1>1 DEF ReauthenticateFinal, TreeVerified
<1>3. pc[w] \in CommitPhase /\ pc[w] \in AfterSync /\ pc[w] \in FinalPhase
      /\ pc[w] # "parent.sync" /\ pc[w] \in Active
  BY <1>1 DEF CommitPhase, AfterSync, FinalPhase, Active
<1>4. known[w] = done[w] /\ \A f \in done[w] \cap Files : seal[w][f] # "absent"
  BY <1>3 DEF Ledger
<1>5. left[w] = {} /\ held[w] \in Tree
  BY <1>3 DEF Progress, AllSynced, TypeInv, PcOK
<1>6. \A f \in known[w] \cap Files : f \in dataSynced[held[w]]
  BY <1>2, <1>3, <1>5 DEF Progress, DataProgress
<1>7. \A p \in known[w] : Parent[p] \in known[w] \cup {Root}
  BY <1>2, <1>5 DEF TreeClosed
<1>8. \A p \in known[w] : p \in entrySynced[held[w]]
  BY <1>2, <1>3, <1>5, <1>7 DEF Progress, EntryProgress
<1>9. \A binding \in recoverable : binding["final"] = held[w]
  BY <1>2, <1>3 DEF Progress, Placed
<1>10. QED
  BY <1>2, <1>4, <1>6, <1>8, <1>9

\* Only its own last gate returns a value to a writer.
LEMMA OnlyReturn ==
  ASSUME TypeInv, NEW w \in Writers, [Next]_vars, pc[w] # "returned", pc'[w] = "returned"
  PROVE  Return(w)
<1>1. ASSUME NEW v \in Writers, WriterStep(v) \/ Fault(v)
      PROVE  Return(w)
  <2>1. v = w
    BY <1>1, OwnStep
  <2>2. CASE Begin(w) \/ Create(w) \/ PublishAndAdopt(w) \/ Fault(w)
    <3>1. PICK x \in {"ready", "failed"} \cup BeginPhase \cup OpPhase :
            pc' = [pc EXCEPT ![w] = x]
      <4>1. CASE Begin(w) \/ Fault(w)
        BY <4>1 DEF Begin, BeginPreflight, BeginMkdir, BeginOpen, BeginCheck,
           Fault, Goto, Abandon, Poison, BeginPhase
      <4>2. CASE Create(w)
        BY <4>2 DEF Create, CreateDirectory, CreateFile, StartCreate, DirMkdir,
           DirOpen, DirCheck, FileCreate, FileCheck, FileWrite, FileObserve,
           FileSync, FileSeal, Poison, FinishOperation, Goto, OpPhase
      <4>3. CASE PublishAndAdopt(w)
        BY <4>3 DEF PublishAndAdopt, StartPublish, PublishCallback, Adopt,
           AdoptCheck, Poison, FinishOperation, FinishCallback, Goto, OpPhase
      <4>4. QED
        BY <2>2, <4>1, <4>2, <4>3
    <3>2. pc'[w] = x /\ x # "returned"
      BY <3>1 DEF TypeInv, PcOK, BeginPhase, OpPhase
    <3>3. QED
      BY <3>2
  <2>3. CASE Commit(w) /\ ~Return(w)
    <3>1. PICK x \in {"failed", "rejected"} \cup CommitPhase : pc' = [pc EXCEPT ![w] = x]
      BY <2>3 DEF Commit, StartCommit, SyncCheck, SyncDo, RenameCheck, Rename,
         Renamed, ParentSync, CommitCheck, ReopenCheck, Validate, FinalGate,
         Abandon, Goto, CommitPhase
    <3>2. pc'[w] = x /\ x # "returned"
      BY <3>1 DEF TypeInv, PcOK, CommitPhase
    <3>3. QED
      BY <3>2
  <2>4. QED
    BY <1>1, <2>1, <2>2, <2>3 DEF WriterStep
<1>2. CASE MeddleStep \/ CrashStep \/ UNCHANGED vars
  <2>1. pc'[w] = pc[w] \/ pc'[w] = "dead"
    BY <1>2, ZenonT(40) DEF MeddleStep, MeddleCreate, MeddleWrite, MeddleAlter, MeddleRemove,
         MeddleUnplace, MeddlePlace, MeddleMkdir, MeddleParent, MeddleCustody,
         Meddle, CrashStep, Crash, vars
  <2>2. QED
    BY <2>1
<1>3. QED
  BY <1>1, <1>2 DEF Next, Rest

\* What success vouches for even when someone interferes (commit_durable and the
\* postcommit reopen): the returned tree is the writer's own, exactly as sealed,
\* and no crash can take any of it back.
THEOREM ReturnVouches == Spec => ReturnIsSound
<1> DEFINE Vouched(w) ==
      LET t == held[w] IN
         /\ names["final"] = t
         /\ Present(t) = known[w]
         /\ \A f \in known[w] \cap Files :
              f \in done[w] /\ node[t][f] = seal[w][f] /\ f \in dataSynced[t]
         /\ known[w] \subseteq entrySynced[t]
         /\ \A binding \in recoverable : binding["final"] = t
<1>1. SteadyInv /\ [Next]_vars =>
        \A w \in Writers : pc[w] # "returned" /\ pc'[w] = "returned" => Vouched(w)
  <2> SUFFICES ASSUME SteadyInv, [Next]_vars, NEW w \in Writers,
                      pc[w] # "returned", pc'[w] = "returned"
               PROVE  Vouched(w)
    OBVIOUS
  <2>1. Return(w)
    BY OnlyReturn DEF SteadyInv, TreeInv
  <2>2. QED
    BY <2>1, ReturnSound
<1>2. SteadyInv /\ [Next]_vars =>
        [\A w \in Writers : pc[w] # "returned" /\ pc'[w] = "returned" => Vouched(w)]_vars
  BY <1>1
<1>3. Spec => []SteadyInv
  BY InitSteady, NextSteady, PTL DEF Spec
<1>4. QED
  BY <1>2, <1>3, PTL DEF Spec, ReturnIsSound

(***************************************************************************)
(* Owners.  A destination has at most one winner and keeps it, for any number*)
(* of writers and any number of failing calls and crashes.                 *)
(*                                                                         *)
(* The inductive invariant is Ownership, together with the types.  Five    *)
(* steps move a name or a retained root: mkdirat, openat2 of the new       *)
(* directory, the exclusive rename, the fsync of the parent and a crash.   *)
(* Every other step only moves a writer between phases that own no more    *)
(* than the phase it leaves.                                               *)
(***************************************************************************)

\* What Ownership says when nobody interferes.
Owned ==
  /\ \A w \in Writers : held[w] # None => held[w] <= born
  /\ \A v, w \in Writers : held[v] = held[w] /\ held[w] # None => v = w
  /\ \A w \in Writers : pc[w] = "begin.open" =>
       /\ names["staging"] # None /\ names["staging"] <= born
       /\ \A v \in Writers :
            held[v] # names["staging"] /\ (pc[v] = "begin.open" => v = w)
  /\ \A w \in Writers : pc[w] \in StagedPhase =>
       held[w] # None /\ names["staging"] = held[w]
  /\ \A w \in Writers : pc[w] \in PlacedPhase =>
       held[w] # None /\ names["final"] = held[w]
  /\ \A w \in Writers : pc[w] \in SettledPhase =>
       \A binding \in recoverable : binding["final"] = held[w]

LEMMA OwnershipIsOwned == Ownership <=> (meddles = 0 => Owned)
BY DEF Ownership, Owned

\* How the sets of phases lie.
LEMMA OwnerPhases ==
  /\ SettledPhase \subseteq PlacedPhase
  /\ StagedPhase \cap PlacedPhase = {}
  /\ OpPhase \subseteq StagedPhase /\ "ready" \in StagedPhase
  /\ "begin.open" \notin StagedPhase \cup PlacedPhase
  /\ "failed" \notin StagedPhase \cup PlacedPhase \cup SettledPhase
  /\ "dead" \notin StagedPhase \cup PlacedPhase \cup SettledPhase
BY DEF StagedPhase, PlacedPhase, SettledPhase, OpPhase

\* A step that keeps the names and the roots, and moves w to a phase that owns
\* no more than the one it leaves.
LEMMA OwnedFrame ==
  ASSUME Owned, TypeInv, NEW w \in Writers, NEW x,
         pc' = [pc EXCEPT ![w] = x],
         UNCHANGED <<names, recoverable, born, held>>,
         x # "begin.open",
         x \in StagedPhase => pc[w] \in StagedPhase,
         x \in PlacedPhase => pc[w] \in PlacedPhase,
         x \in SettledPhase => pc[w] \in SettledPhase
  PROVE  Owned'
<1>1. \A v \in Writers : pc'[v] = IF v = w THEN x ELSE pc[v]
  BY DEF TypeInv, PcOK
<1>2. /\ \A v \in Writers : pc'[v] = "begin.open" => pc[v] = "begin.open"
      /\ \A v \in Writers : pc'[v] \in StagedPhase => pc[v] \in StagedPhase
      /\ \A v \in Writers : pc'[v] \in PlacedPhase => pc[v] \in PlacedPhase
      /\ \A v \in Writers : pc'[v] \in SettledPhase => pc[v] \in SettledPhase
  BY <1>1
<1>3. QED
  BY <1>2 DEF Owned

\* The error paths: a poisoned transaction still owns its staging name, an
\* abandoned one owns nothing.
LEMMA OwnedError ==
  ASSUME Owned, TypeInv, NEW w \in Writers,
         UNCHANGED <<names, recoverable, born, held>>,
         Abandon(w) \/ (Poison(w) /\ pc[w] \in StagedPhase)
  PROVE  Owned'
BY OwnerPhases, OwnedFrame DEF Abandon, Poison, Goto

\* begin
LEMMA OwnedBegin ==
  ASSUME Owned, TypeInv, NEW w \in Writers, Begin(w)
  PROVE  Owned'
<1>1. CASE BeginPreflight(w)
  <2>1. UNCHANGED <<names, recoverable, born, held>>
    BY <1>1 DEF BeginPreflight, diskVars, retVars
  <2>2. "begin.mkdir" \notin StagedPhase \cup PlacedPhase \cup SettledPhase
    BY DEF StagedPhase, PlacedPhase, SettledPhase, OpPhase
  <2>3. CASE Abandon(w)
    BY <2>1, <2>3, OwnedError
  <2>4. CASE Goto(w, "begin.mkdir")
    BY <2>1, <2>2, <2>4, OwnedFrame DEF Goto
  <2>5. QED
    BY <1>1, <2>3, <2>4 DEF BeginPreflight
<1>2. CASE BeginMkdir(w)
  <2>1. CASE Abandon(w) /\ UNCHANGED <<names, recoverable, born>>
    BY <1>2, <2>1, OwnedError DEF BeginMkdir, retVars
  <2>2. CASE /\ names["staging"] = None
             /\ born' = born + 1
             /\ Rebind([names EXCEPT !["staging"] = born + 1])
             /\ Goto(w, "begin.open")
    <3>1. held' = held
      BY <1>2 DEF BeginMkdir, retVars
    <3>2. \A v \in Writers : pc'[v] = IF v = w THEN "begin.open" ELSE pc[v]
      BY <2>2 DEF Goto, TypeInv, PcOK
    <3>3. /\ names'["staging"] = born + 1
          /\ names'["final"] = names["final"]
          /\ recoverable' = recoverable \cup {names'}
      BY <2>2 DEF Rebind, TypeInv, FsOK, NameState, Slot
    <3>4. born \in Nat /\ born + 1 # None
      BY NoneAssumption, BoundAssumption DEF TypeInv, FsOK
    <3>5. \A v \in Writers : held[v] # None => held[v] \in Nat
      BY BoundAssumption DEF TypeInv, RetOK, Tree
    <3>6. \A v \in Writers : held[v] # born + 1 /\ pc[v] # "begin.open"
                               /\ pc[v] \notin StagedPhase
      BY <2>2, <3>4, <3>5 DEF Owned
    <3>7. \A v \in Writers : held'[v] # None => held'[v] <= born'
      BY <2>2, <3>1, <3>4, <3>5 DEF Owned
    <3>8. \A v \in Writers : pc'[v] \in PlacedPhase => pc[v] \in PlacedPhase
      BY <3>2, OwnerPhases
    <3>9. \A v \in Writers : pc'[v] \in SettledPhase =>
            pc[v] \in SettledPhase /\ pc[v] \in PlacedPhase
      BY <3>2, OwnerPhases
    <3>10. \A v \in Writers : pc'[v] \notin StagedPhase
      BY <3>2, <3>6, OwnerPhases
    <3>11. \A v \in Writers : pc'[v] = "begin.open" => v = w
      BY <3>2, <3>6
    <3>12. \A v \in Writers : pc'[v] = "begin.open" =>
             /\ names'["staging"] # None /\ names'["staging"] <= born'
             /\ \A u \in Writers :
                  held'[u] # names'["staging"] /\ (pc'[u] = "begin.open" => u = v)
      BY <2>2, <3>1, <3>3, <3>4, <3>6, <3>11
    <3>13. \A v \in Writers : pc'[v] \in SettledPhase =>
             \A binding \in recoverable' : binding["final"] = held'[v]
      BY <3>1, <3>3, <3>9 DEF Owned
    <3>14. QED
      BY <3>1, <3>3, <3>7, <3>8, <3>10, <3>12, <3>13 DEF Owned
  <2>3. QED
    BY <1>2, <2>1, <2>2 DEF BeginMkdir
<1>3. CASE BeginOpen(w)
  <2>1. UNCHANGED <<names, recoverable, born>>
    BY <1>3 DEF BeginOpen, diskVars
  <2>2. CASE Abandon(w) /\ UNCHANGED <<held, drift>>
    BY <2>1, <2>2, OwnedError
  <2>3. CASE /\ names["staging"] # None
             /\ held' = [held EXCEPT ![w] = names["staging"]]
             /\ Goto(w, "begin.check")
    <3>1. \A v \in Writers :
            /\ pc'[v] = IF v = w THEN "begin.check" ELSE pc[v]
            /\ held'[v] = IF v = w THEN names["staging"] ELSE held[v]
      BY <2>3 DEF Goto, TypeInv, PcOK, RetOK
    <3>2. pc[w] = "begin.open"
      BY <1>3 DEF BeginOpen
    <3>3. \A v \in Writers : held[v] # names["staging"]
      BY <3>2 DEF Owned
    <3>4. \A v \in Writers : v # w => pc'[v] # "begin.open"
      BY <3>1, <3>2 DEF Owned
    <3>5. \A v \in Writers : pc[v] \notin StagedPhase
      BY <3>3 DEF Owned
    <3>6. "begin.check" \notin PlacedPhase \cup SettledPhase
      BY DEF PlacedPhase, SettledPhase
    <3>7. names["staging"] <= born
      BY <3>2 DEF Owned
    <3>8. \A v \in Writers : pc'[v] # "begin.open"
      BY <3>1, <3>4
    <3>9. \A v \in Writers :
            /\ pc'[v] \in StagedPhase => v = w
            /\ pc'[v] \in PlacedPhase => v # w /\ pc[v] \in PlacedPhase
            /\ pc'[v] \in SettledPhase => v # w /\ pc[v] \in SettledPhase
      BY <3>1, <3>5, <3>6
    <3>10. \A u, v \in Writers : held'[u] = held'[v] /\ held'[v] # None => u = v
      BY <3>1, <3>3 DEF Owned
    <3>11. QED
      BY <2>1, <2>3, <3>1, <3>7, <3>8, <3>9, <3>10 DEF Owned
  <2>4. QED
    BY <1>3, <2>2, <2>3 DEF BeginOpen
<1>4. CASE BeginCheck(w)
  <2>1. UNCHANGED <<names, recoverable, born, held>>
    BY <1>4 DEF BeginCheck, diskVars, retVars
  <2>2. pc[w] \in StagedPhase
    BY <1>4 DEF BeginCheck, StagedPhase
  <2>3. CASE Abandon(w)
    BY <2>1, <2>3, OwnedError
  <2>4. CASE Goto(w, "ready")
    BY <2>1, <2>2, <2>4, OwnerPhases, OwnedFrame DEF Goto
  <2>5. QED
    BY <1>4, <2>3, <2>4 DEF BeginCheck
<1>5. QED
  BY <1>1, <1>2, <1>3, <1>4 DEF Begin

\* create_directory, create_file and publish_and_adopt_directory_tree stay
\* inside the staging tree.
LEMMA OwnedOperation ==
  ASSUME Owned, TypeInv, NEW w \in Writers, Create(w) \/ PublishAndAdopt(w)
  PROVE  Owned'
<1>1. UNCHANGED <<names, recoverable, born, held>>
  BY DEF Create, CreateDirectory, CreateFile, StartCreate, DirMkdir, DirOpen,
         DirCheck, FileCreate, FileCheck, FileWrite, FileObserve, FileSync,
         FileSeal, PublishAndAdopt, StartPublish, PublishCallback, Adopt,
         AdoptCheck, diskVars, retVars
<1>2. pc[w] \in {"ready"} \cup OpPhase
  BY DEF Create, CreateDirectory, CreateFile, StartCreate, DirMkdir, DirOpen,
         DirCheck, FileCreate, FileCheck, FileWrite, FileObserve, FileSync,
         FileSeal, PublishAndAdopt, StartPublish, PublishCallback, Adopt,
         AdoptCheck, OpPhase
<1>3. PICK x \in {"ready"} \cup OpPhase : pc' = [pc EXCEPT ![w] = x]
  <2>1. CASE Create(w)
    BY <2>1 DEF Create, CreateDirectory, CreateFile, StartCreate, DirMkdir,
         DirOpen, DirCheck, FileCreate, FileCheck, FileWrite, FileObserve,
         FileSync, FileSeal, Poison, FinishOperation, Goto, OpPhase
  <2>2. CASE PublishAndAdopt(w)
    BY <2>2 DEF PublishAndAdopt, StartPublish, PublishCallback, Adopt,
         AdoptCheck, Poison, FinishOperation, FinishCallback, Goto, OpPhase
  <2>3. QED
    BY <2>1, <2>2
<1>4. x \in StagedPhase \ PlacedPhase /\ pc[w] \in StagedPhase
  BY <1>2, <1>3, OwnerPhases
<1>5. QED
  BY <1>1, <1>3, <1>4, OwnerPhases, OwnedFrame

\* commit_durable and the postcommit reopen
LEMMA OwnedCommit ==
  ASSUME Owned, TypeInv, NEW w \in Writers, Commit(w)
  PROVE  Owned'
<1>1. ASSUME NEW x \in StagedPhase \ PlacedPhase, pc[w] \in StagedPhase,
             UNCHANGED <<names, recoverable, born, held>>,
             Goto(w, x) \/ Abandon(w)
      PROVE  Owned'
  BY <1>1, OwnedFrame, OwnedError, OwnerPhases DEF Goto
<1>2. CASE StartCommit(w) \/ SyncCheck(w) \/ SyncDo(w) \/ RenameCheck(w)
  <2>1. /\ UNCHANGED <<names, recoverable, born, held>>
        /\ pc[w] \in StagedPhase
    BY <1>2 DEF StartCommit, SyncCheck, SyncDo, RenameCheck, diskVars,
         retVars, StagedPhase
  <2>2. \E x \in {"sync.check", "sync.do", "rename.check", "rename"} :
          Goto(w, x) \/ Abandon(w)
    BY <1>2 DEF StartCommit, SyncCheck, SyncDo, RenameCheck
  <2>3. {"sync.check", "sync.do", "rename.check", "rename"}
          \subseteq StagedPhase \ PlacedPhase
    BY DEF StagedPhase, PlacedPhase, SettledPhase
  <2>4. QED
    BY <1>1, <2>1, <2>2, <2>3
<1>3. CASE Rename(w)
  <2>1. CASE Abandon(w) /\ UNCHANGED <<names, recoverable, drift>>
    BY <1>3, <2>1, OwnedError DEF Rename
  <2>2. CASE /\ names["final"] = None
             /\ Rebind([staging |-> None, final |-> names["staging"]])
             /\ Goto(w, "renamed")
    <3>1. UNCHANGED <<born, held>>
      BY <1>3 DEF Rename
    <3>2. \A v \in Writers : pc'[v] = IF v = w THEN "renamed" ELSE pc[v]
      BY <2>2 DEF Goto, TypeInv, PcOK
    <3>3. held[w] # None /\ names["staging"] = held[w]
      BY <1>3 DEF Rename, StagedPhase, Owned
    <3>4. names'["final"] = held[w]
      BY <2>2, <3>3 DEF Rebind
    <3>5. \A v \in Writers : pc[v] # "begin.open" /\ pc[v] \notin PlacedPhase
      BY <2>2, <3>3 DEF Owned
    <3>6. \A v \in Writers : v # w => pc[v] \notin StagedPhase
      BY <3>3 DEF Owned
    <3>7. /\ "renamed" \notin StagedPhase \cup SettledPhase
          /\ "renamed" # "begin.open"
      BY DEF StagedPhase, SettledPhase, OpPhase
    <3>8. \A v \in Writers :
            /\ pc'[v] # "begin.open"
            /\ pc'[v] \notin StagedPhase
            /\ pc'[v] \in PlacedPhase => v = w
            /\ pc'[v] \notin SettledPhase
      BY <3>2, <3>5, <3>6, <3>7, OwnerPhases
    <3>9. QED
      BY <3>1, <3>3, <3>4, <3>8 DEF Owned
  <2>3. QED
    BY <1>3, <2>1, <2>2 DEF Rename
<1>4. CASE Renamed(w)
  <2>1. /\ UNCHANGED <<names, recoverable, born, held>>
        /\ pc[w] \in PlacedPhase
    BY <1>4 DEF Renamed, diskVars, PlacedPhase
  <2>2. "parent.sync" \notin StagedPhase \cup SettledPhase \cup {"begin.open"}
    BY DEF StagedPhase, SettledPhase, OpPhase
  <2>3. Goto(w, "parent.sync") \/ Abandon(w)
    BY <1>4 DEF Renamed
  <2>4. QED
    BY <2>1, <2>2, <2>3, OwnedFrame, OwnedError DEF Goto
<1>5. CASE ParentSync(w)
  <2>1. /\ UNCHANGED <<names, born, held>>
        /\ recoverable' = {names}
        /\ pc' = [pc EXCEPT ![w] = "commit.check"]
        /\ pc[w] = "parent.sync"
    BY <1>5 DEF ParentSync, retVars, Goto
  <2>2. \A v \in Writers : pc'[v] = IF v = w THEN "commit.check" ELSE pc[v]
    BY <2>1 DEF TypeInv, PcOK
  <2>3. /\ "commit.check" \notin StagedPhase \cup {"begin.open"}
        /\ "parent.sync" \in PlacedPhase
    BY DEF StagedPhase, OpPhase, PlacedPhase
  <2>4. \A v \in Writers :
          /\ pc'[v] = "begin.open" => pc[v] = "begin.open"
          /\ pc'[v] \in StagedPhase => pc[v] \in StagedPhase
          /\ pc'[v] \in PlacedPhase => pc[v] \in PlacedPhase
          /\ pc'[v] \in SettledPhase => pc[v] \in PlacedPhase
    BY <2>1, <2>2, <2>3, OwnerPhases
  <2>5. QED
    BY <2>1, <2>4 DEF Owned
<1>6. ASSUME NEW from \in SettledPhase, NEW to \in SettledPhase,
             pc[w] = from, UNCHANGED <<diskVars, retVars>>,
             Goto(w, to) \/ Abandon(w)
      PROVE  Owned'
  <2>1. UNCHANGED <<names, recoverable, born, held>>
    BY <1>6 DEF diskVars, retVars
  <2>2. to \in PlacedPhase /\ from \in PlacedPhase
        /\ to \notin StagedPhase \cup {"begin.open"}
    BY OwnerPhases
  <2>3. QED
    BY <1>6, <2>1, <2>2, OwnedFrame, OwnedError DEF Goto
<1>7. CASE CommitCheck(w) \/ ReopenCheck(w) \/ Validate(w) \/ Return(w)
  BY <1>6, <1>7 DEF CommitCheck, ReopenCheck, Validate, Return, FinalGate,
       SettledPhase
<1>8. QED
  BY <1>2, <1>3, <1>4, <1>5, <1>7 DEF Commit

\* A failing call ends the operation, or the transaction.
LEMMA OwnedFault ==
  ASSUME Owned, TypeInv, NEW w \in Writers, Fault(w)
  PROVE  Owned'
<1>1. UNCHANGED <<names, recoverable, born, held>>
  BY DEF Fault, diskVars, retVars
<1>2. QED
  BY <1>1, OwnerPhases, OwnedError DEF Fault

\* A crash exposes a recoverable state of the names; only writers that were
\* already told something keep their phase.
LEMMA OwnedCrash ==
  ASSUME Owned, TypeInv, NEW lost, NEW torn, Crash(lost, torn)
  PROVE  Owned'
<1>1. PICK binding \in recoverable : names' = binding /\ recoverable' = {binding}
  BY DEF Crash
<1>2. UNCHANGED <<born, held>>
  BY DEF Crash, retVars
<1>3. \A v \in Writers :
        pc'[v] = IF pc[v] \in Ended \cup {"idle"} THEN pc[v] ELSE "dead"
  BY DEF Crash
<1>4. /\ (Ended \cup {"idle"}) \cap (StagedPhase \cup {"begin.open"}) = {}
      /\ (Ended \cup {"idle"}) \cap PlacedPhase \subseteq SettledPhase
  BY DEF Ended, StagedPhase, PlacedPhase, SettledPhase, OpPhase
<1>5. \A v \in Writers :
        /\ pc'[v] # "begin.open"
        /\ pc'[v] \notin StagedPhase
        /\ pc'[v] \in PlacedPhase => pc[v] \in SettledPhase
        /\ pc'[v] \in SettledPhase => pc[v] \in SettledPhase
  BY <1>3, <1>4, OwnerPhases
<1>6. \A v \in Writers : pc[v] \in SettledPhase =>
        held[v] # None /\ binding["final"] = held[v]
  BY OwnerPhases DEF Owned
<1>7. QED
  BY <1>1, <1>2, <1>5, <1>6 DEF Owned

LEMMA InitOwned == Init => Owned
<1>1. "idle" \notin StagedPhase \cup PlacedPhase \cup SettledPhase
                     \cup {"begin.open"}
  BY DEF StagedPhase, PlacedPhase, SettledPhase, OpPhase
<1>2. QED
  BY <1>1 DEF Init, Owned

LEMMA NextOwned == TypeInv /\ Ownership /\ [Next]_vars => Ownership'
<1> SUFFICES ASSUME TypeInv, Ownership, [Next]_vars, meddles' = 0
             PROVE  Owned'
  BY OwnershipIsOwned, OwnershipIsOwned' DEF Ownership, Owned
<1>1. CASE MeddleStep
  <2>1. meddles' = meddles + 1
    BY <1>1 DEF MeddleStep, MeddleCreate, MeddleWrite, MeddleAlter,
         MeddleRemove, MeddleUnplace, MeddlePlace, MeddleMkdir, MeddleParent,
         MeddleCustody, Meddle
  <2>2. meddles \in Nat
    BY BoundAssumption DEF TypeInv, EnvOK
  <2>3. QED
    BY <2>1, <2>2
<1>2. CASE ~MeddleStep
  <2>1. meddles' = meddles
    <3>1. ASSUME NEW w \in Writers, WriterStep(w) PROVE meddles' = meddles
      BY <3>1 DEF WriterStep, Begin, BeginPreflight, BeginMkdir, BeginOpen,
         BeginCheck, Create, CreateDirectory, CreateFile, StartCreate,
         DirMkdir, DirOpen, DirCheck, FileCreate, FileCheck, FileWrite,
         FileObserve, FileSync, FileSeal, PublishAndAdopt, StartPublish,
         PublishCallback, Adopt, AdoptCheck, Commit, StartCommit, SyncCheck,
         SyncDo, RenameCheck, Rename, Renamed, ParentSync, CommitCheck,
         ReopenCheck, Validate, Return, FinalGate, envVars
    <3>2. ASSUME NEW w \in Writers, Fault(w) PROVE meddles' = meddles
      BY <3>2 DEF Fault
    <3>3. CASE CrashStep
      BY <3>3 DEF CrashStep, Crash
    <3>4. CASE UNCHANGED vars
      BY <3>4 DEF vars
    <3>5. QED
      BY <1>2, <3>1, <3>2, <3>3, <3>4 DEF Next, Rest
  <2>2. Owned
    BY <2>1, OwnershipIsOwned
  <2>3. ASSUME NEW w \in Writers, WriterStep(w) PROVE Owned'
    BY <2>2, <2>3, OwnedBegin, OwnedOperation, OwnedCommit DEF WriterStep
  <2>4. ASSUME NEW w \in Writers, Fault(w) PROVE Owned'
    BY <2>2, <2>4, OwnedFault
  <2>5. CASE CrashStep
    BY <2>2, <2>5, OwnedCrash DEF CrashStep
  <2>6. CASE UNCHANGED vars
    BY <2>2, <2>6 DEF vars, Owned
  <2>7. QED
    BY <1>2, <2>3, <2>4, <2>5, <2>6 DEF Next, Rest
<1>3. QED
  BY <1>1, <1>2

\* Ownership of the two names (begin, commit_inner) holds in every reachable
\* state.
THEOREM OwnershipHolds == Spec => []Ownership
<1>1. Init => Ownership
  BY InitOwned, OwnershipIsOwned
<1>2. QED
  BY <1>1, InitType, NextType, NextOwned, PTL DEF Spec

\* At most one of the writers that compete for a destination is ever told that
\* it succeeded, across any number of failing calls and crashes.
THEOREM AtMostOneWinner == Spec => []SingleWinner
<1>1. Ownership => SingleWinner
  BY DEF Ownership, SingleWinner, PlacedPhase, SettledPhase
<1>2. QED
  BY <1>1, OwnershipHolds, PTL

\* A commit that returned is never taken back: the final name keeps denoting the
\* tree of the writer that was told it succeeded.
THEOREM WinnerIsKept == Spec => []ReturnedSurvives
<1>1. Ownership => ReturnedSurvives
  BY DEF Ownership, ReturnedSurvives, PlacedPhase, SettledPhase
<1>2. QED
  BY <1>1, OwnershipHolds, PTL

(***************************************************************************)
(* The final name.  While nobody interferes, the check before the rename   *)
(* sees a tree that is complete and durable in every part, so it loses     *)
(* nothing in a crash: an entry is lost only with an entry above it that was*)
(* not synchronized, and paths are well-founded.                           *)
(***************************************************************************)

\* What a transaction relies on that only an outsider could disturb: nothing it
\* retains was unlinked, a publication callback finds an empty tree and leaves
\* complete files, the digests are those of written bytes, the required entries
\* are there from the start of the commit, and before the rename the tree is
\* whole.
Quiet(w) ==
  /\ \A n \in Node : drift[w][n] # "gone"
  /\ pc[w] = "publish" => Present(held[w]) = {}
  /\ pc[w] = "adopt" =>
       \A f \in Present(held[w]) \cap Files : node[held[w]][f] = "bytes"
  /\ pc[w] \in Active => \A f \in done[w] \cap Files : seal[w][f] = "bytes"
  /\ pc[w] \in CommitPhase => Required \subseteq known[w]
  /\ pc[w] = "rename" => WholeFor(w, held[w])

\* The writers whose tree may be at the final name: those that renamed it, also
\* if they failed or died afterwards.
PublishedPhase == PlacedPhase \cup {"failed", "dead"}
\* The final name denotes nothing or the whole tree of such a writer, and a
\* crash can at most empty it.
Whole ==
  /\ names["final"] # None =>
       \E w \in Writers : WholeFor(w, names["final"]) /\ pc[w] \in PublishedPhase
  /\ \A binding \in recoverable : binding["final"] \in {None, names["final"]}

\* A step of w leaves every tree but its own.
LEMMA TreeElsewhere ==
  ASSUME TreeInv, NEW w \in Writers, WriterStep(w) \/ Fault(w),
         NEW t \in Tree, t # held[w]
  PROVE  /\ node'[t] = node[t]
         /\ dataSynced'[t] = dataSynced[t]
         /\ entrySynced'[t] = entrySynced[t]
<1> USE DEF TreeInv, TypeInv, FsOK
<1>1. node'[t] = node[t]
  BY OnlyNodeSteps, NodeStepAdds
<1>2. CASE UNCHANGED <<dataSynced, entrySynced>>
  BY <1>1, <1>2
<1>3. CASE Begin(w) \/ Fault(w)
  BY <1>2, <1>3 DEF Begin, BeginPreflight, BeginMkdir, BeginOpen, BeginCheck,
       Fault, diskVars
<1>4. CASE FileSync(w)
  BY <1>1, <1>4 DEF FileSync, SyncFile
<1>5. CASE DirMkdir(w) \/ FileCreate(w)
  BY <1>1, <1>2, <1>5 DEF DirMkdir, FileCreate, PutEntry
<1>6. CASE FileWrite(w)
  BY <1>1, <1>6 DEF FileWrite
<1>7. CASE PublishCallback(w)
  BY <1>1, <1>2, <1>7 DEF PublishCallback
<1>8. CASE \/ Create(w) /\ ~FileSync(w) /\ ~DirMkdir(w) /\ ~FileCreate(w) /\ ~FileWrite(w)
           \/ PublishAndAdopt(w) /\ ~PublishCallback(w)
  BY <1>2, <1>8 DEF Create, CreateDirectory, CreateFile, StartCreate, DirOpen,
       DirCheck, FileCheck, FileObserve, FileSeal, PublishAndAdopt,
       StartPublish, Adopt, AdoptCheck, diskVars
<1>9. CASE SyncDo(w)
  <2>1. CASE op[w] \in Files
    BY <1>1, <1>9, <2>1 DEF SyncDo, SyncFile
  <2>2. CASE op[w] \notin Files
    BY <1>1, <1>9, <2>2 DEF SyncDo
  <2>3. QED
    BY <2>1, <2>2
<1>10. CASE Commit(w) /\ ~SyncDo(w)
  BY <1>2, <1>10 DEF Commit, StartCommit, SyncCheck, RenameCheck, Rename,
       Renamed, ParentSync, CommitCheck, ReopenCheck, Validate, Return,
       FinalGate, diskVars
<1>11. QED
  BY <1>3, <1>4, <1>5, <1>6, <1>7, <1>8, <1>9, <1>10 DEF WriterStep

\* A writer that has published, or stopped, changes no tree.
LEMMA PublishedSteps ==
  ASSUME TypeInv, NEW w \in Writers, WriterStep(w) \/ Fault(w), pc[w] \in PublishedPhase
  PROVE  /\ UNCHANGED <<node, dataSynced, entrySynced, held, known, names>>
         /\ recoverable' \in {recoverable, {names}}
         /\ pc'[w] \in PublishedPhase
<1> USE DEF TypeInv, PcOK
<1>0. pc[w] \in {"renamed", "parent.sync", "commit.check", "committed",
                 "validate", "post.check", "returned", "rejected", "failed", "dead"}
  BY DEF PublishedPhase, PlacedPhase, SettledPhase
<1>1. CASE Begin(w)
  BY <1>0, <1>1 DEF Begin, BeginPreflight, BeginMkdir, BeginOpen, BeginCheck
<1>2. CASE Create(w) \/ PublishAndAdopt(w)
  BY <1>0, <1>2 DEF Create, CreateDirectory, CreateFile, StartCreate, DirMkdir,
       DirOpen, DirCheck, FileCreate, FileCheck, FileWrite, FileObserve,
       FileSync, FileSeal, PublishAndAdopt, StartPublish, PublishCallback,
       Adopt, AdoptCheck
<1>3. CASE StartCommit(w) \/ SyncCheck(w) \/ SyncDo(w) \/ RenameCheck(w) \/ Rename(w)
  BY <1>0, <1>3 DEF StartCommit, SyncCheck, SyncDo, RenameCheck, Rename
<1>4. CASE Fault(w)
  <2>1. pc[w] \notin OpPhase
    BY <1>0 DEF OpPhase
  <2>2. pc'[w] = "failed"
    BY <1>4, <2>1 DEF Fault, Abandon, Goto
  <2>3. QED
    BY <1>4, <2>2 DEF Fault, diskVars, retVars, PublishedPhase
<1>5. CASE Renamed(w) \/ ParentSync(w) \/ CommitCheck(w) \/ ReopenCheck(w)
             \/ Validate(w) \/ Return(w)
  <2>1. /\ UNCHANGED <<node, dataSynced, entrySynced, held, known, names>>
        /\ recoverable' \in {recoverable, {names}}
    BY <1>5 DEF Renamed, ParentSync, CommitCheck, ReopenCheck, Validate, Return,
         FinalGate, diskVars, retVars
  <2>2. PICK x \in {"parent.sync", "commit.check", "committed", "validate",
                    "post.check", "returned", "rejected", "failed"} :
          pc' = [pc EXCEPT ![w] = x]
    BY <1>5 DEF Renamed, ParentSync, CommitCheck, ReopenCheck, Validate, Return,
         FinalGate, Abandon, Goto
  <2>3. pc'[w] \in PublishedPhase
    BY <2>2 DEF PublishedPhase, PlacedPhase, SettledPhase
  <2>4. QED
    BY <2>1, <2>3
<1>6. QED
  BY <1>1, <1>2, <1>3, <1>4, <1>5 DEF WriterStep, Commit

\* A whole tree stays whole while others work, ...
LEMMA WholeOther ==
  ASSUME TreeInv, Owned, NEW w \in Writers, WriterStep(w) \/ Fault(w),
         NEW v \in Writers, v # w, NEW t \in Tree, WholeFor(v, t)
  PROVE  WholeFor(v, t)'
<1>1. t # held[w]
  BY NoneAssumption, BoundAssumption DEF Owned, WholeFor, Tree
<1>2. /\ node'[t] = node[t] /\ dataSynced'[t] = dataSynced[t]
      /\ entrySynced'[t] = entrySynced[t]
  BY <1>1, TreeElsewhere
<1>3. held'[v] = held[v] /\ known'[v] = known[v]
  BY OwnStep DEF TreeInv
<1>4. QED
  BY <1>2, <1>3 DEF WholeFor, Present, Required

\* ... and through a crash: an entry is lost only with an entry above it that no
\* fsync covers, and there is none.
LEMMA WholeCrash ==
  ASSUME TreeInv, NEW lost \in SUBSET Losable, NEW torn \in SUBSET Tearable,
         Crash(lost, torn), NEW v \in Writers, NEW t \in Tree, WholeFor(v, t)
  PROVE  WholeFor(v, t)'
<1> USE DEF TreeInv
<1>1. \A p \in Present(t) : <<t, p>> \notin lost
  <2> DEFINE S == {p \in Present(t) : <<t, p>> \in lost}
  <2>1. SUFFICES ASSUME S # {} PROVE FALSE
    OBVIOUS
  <2>2. S \in SUBSET Path
    BY DEF Present
  <2>3. PICK p \in S : Parent[p] \notin S
    BY <2>1, <2>2, PathAssumption
  <2>4. p \in entrySynced[t]
    BY DEF WholeFor
  <2>5. <<t, Parent[p]>> \in lost
    BY <2>3, <2>4 DEF Crash, LossAllowed
  <2>6. Parent[p] \in Present(t)
    BY <2>5 DEF Losable
  <2>7. QED
    BY <2>3, <2>5, <2>6
<1>2. \A f \in Present(t) : <<t, f>> \notin torn
  <2> SUFFICES ASSUME NEW f \in Present(t), <<t, f>> \in torn PROVE FALSE
    OBVIOUS
  <2>1. f \in Files /\ f \notin dataSynced[t]
    BY DEF Tearable
  <2>2. QED
    BY <2>1 DEF WholeFor
<1>3. \A p \in Path : node'[t][p] = node[t][p]
  <2> SUFFICES ASSUME NEW p \in Path PROVE node'[t][p] = node[t][p]
    OBVIOUS
  <2>1. CASE p \in Present(t)
    BY <1>1, <1>2, <2>1 DEF Crash
  <2>2. CASE p \notin Present(t)
    <3>1. <<t, p>> \notin torn /\ node[t][p] = "absent"
      BY <2>2 DEF Tearable, Present
    <3>2. QED
      BY <3>1 DEF Crash
  <2>3. QED
    BY <2>1, <2>2
<1>4. entrySynced'[t] = Present(t) /\ dataSynced'[t] = Present(t)
  BY <1>1 DEF Crash
<1>5. held' = held /\ known' = known
  BY DEF Crash, retVars
<1>6. Files \subseteq Path /\ known[v] \subseteq Path /\ Required' = Required
  BY Nodes DEF TypeInv, RetOK, Required
<1>7. Present(t)' = Present(t)
  BY <1>3 DEF Present
<1>8. QED
  BY <1>3, <1>4, <1>5, <1>6, <1>7 DEF WholeFor

\* Unless someone interferes, nothing that a transaction retains is unlinked.
LEMMA NoneGone ==
  ASSUME TypeInv, NEW w \in Writers, WriterStep(w) \/ Fault(w),
         \A n \in Node : drift[w][n] # "gone"
  PROVE  \A n \in Node : drift'[w][n] # "gone"
<1>0. drift \in [Writers -> [Node -> Drift]]
  BY DEF TypeInv, RetOK
<1>1. CASE ~BeginOpen(w) /\ ~DirOpen(w) /\ ~FileCreate(w) /\ ~Adopt(w)
  BY <1>1, OwnDrift
<1>2. CASE drift' = drift
  BY <1>2
<1>3. ASSUME NEW t, NEW M, NEW N, drift' = Observed(Stamped(t, M), w, N)
      PROVE  \A n \in Node : drift'[w][n] # "gone"
  <2> DEFINE d == Stamped(t, M)
  <2>1. d \in [Writers -> [Node -> Drift]]
    BY StampedType DEF TypeInv
  <2>2. \A n \in Node : d[w][n] # "gone"
    BY DEF Stamped
  <2>3. drift' = Observed(d, w, N)
    BY <1>3
  <2> HIDE DEF d
  <2>4. QED
    BY <2>1, <2>2, <2>3, ObservedAt
<1>4. ASSUME NEW N, drift' = Observed(drift, w, N)
      PROVE  \A n \in Node : drift'[w][n] # "gone"
  BY <1>0, <1>4, ObservedAt
<1>5. CASE BeginOpen(w) \/ DirOpen(w) \/ FileCreate(w) \/ Adopt(w)
  BY <1>2, <1>3, <1>4, <1>5 DEF BeginOpen, DirOpen, FileCreate, Adopt
<1>6. QED
  BY <1>1, <1>5

\* The digests a transaction retains are those of bytes its process wrote.
Sealed(w) == pc[w] \in Active => \A f \in done[w] \cap Files : seal[w][f] = "bytes"

LEMMA SealedOwn ==
  ASSUME TreeInv, NEW w \in Writers, WriterStep(w) \/ Fault(w), Quiet(w)
  PROVE  Sealed(w)'
<1> USE DEF TreeInv
<1>1. CASE DirCheck(w)
  <2>1. /\ pc[w] = "dir.check" /\ pc[w] \in Active /\ op[w] \in Dirs /\ seal' = seal
    BY <1>1 DEF DirCheck, Active, OpPhase, Ledger, DirPhase
  <2>2. done'[w] \subseteq done[w] \cup {op[w]}
    BY <1>1 DEF DirCheck, TypeInv, RetOK
  <2>3. QED
    BY <2>1, <2>2, PathAssumption DEF Quiet, Sealed
<1>2. CASE FileSeal(w)
  <2>1. pc[w] \in OpPhase
    BY <1>2 DEF FileSeal, OpPhase
  <2>2. pc[w] \in Active /\ op[w] \in Path
    BY <2>1, Phases, OperationHas
  <2>3. CASE UNCHANGED <<seal, done>>
    BY <2>2, <2>3 DEF Quiet, Sealed
  <2>4. CASE /\ seal' = [seal EXCEPT ![w] = [seal[w] EXCEPT ![op[w]] = "bytes"]]
             /\ done' = [done EXCEPT ![w] = @ \cup {op[w]}]
    <3>1. \A f \in Path : seal'[w][f] = IF f = op[w] THEN "bytes" ELSE seal[w][f]
      BY <2>2, <2>4 DEF TypeInv, RetOK
    <3>2. done'[w] = done[w] \cup {op[w]}
      BY <2>4 DEF TypeInv, RetOK
    <3>3. QED
      BY <2>2, <3>1, <3>2, Nodes DEF Quiet, Sealed
  <2>5. QED
    BY <1>2, <2>3, <2>4 DEF FileSeal
<1>3. CASE Adopt(w)
  <2>1. pc[w] = "adopt" /\ pc[w] \in OpPhase
    BY <1>3 DEF Adopt, OpPhase
  <2>2. pc[w] \in Active /\ held[w] \in Tree
    BY <2>1, Phases, OperationHas
  <2>3. CASE UNCHANGED <<known, done, seal, drift>>
    BY <2>2, <2>3 DEF Quiet, Sealed
  <2>4. CASE /\ done' = [done EXCEPT ![w] = Present(held[w])]
             /\ seal' = [seal EXCEPT ![w] =
                  [p \in Path |-> IF p \in Files THEN node[held[w]][p] ELSE "absent"]]
    <3>1. done'[w] = Present(held[w])
      BY <2>4 DEF TypeInv, RetOK
    <3>2. \A f \in Files : seal'[w][f] = node[held[w]][f]
      BY <2>4, Nodes DEF TypeInv, RetOK
    <3>3. QED
      BY <2>1, <3>1, <3>2 DEF Quiet, Sealed
  <2>5. QED
    BY <1>3, <2>3, <2>4 DEF Adopt
<1>4. CASE BeginOpen(w)
  <2>1. done'[w] = {}
    BY <1>4 DEF BeginOpen, Ledger, BeginPhase
  <2>2. QED
    BY <2>1 DEF Sealed
<1>5. CASE DirOpen(w) \/ FileCreate(w)
  <2>1. pc[w] \in Active /\ UNCHANGED <<done, seal>>
    BY <1>5 DEF DirOpen, FileCreate, Active, OpPhase
  <2>2. QED
    BY <2>1 DEF Quiet, Sealed
<1>6. CASE /\ ~DirCheck(w) /\ ~FileSeal(w) /\ ~Adopt(w) /\ ~BeginOpen(w)
           /\ ~DirOpen(w) /\ ~FileCreate(w)
  <2>1. pc'[w] \in Active => pc[w] \in Active
    BY <1>6, OwnKeeps
  <2>2. done' = done /\ seal' = seal
    BY <1>6 DEF WriterStep, Begin, BeginPreflight, BeginMkdir, BeginCheck,
       Create, CreateDirectory, CreateFile, StartCreate, DirMkdir, FileCheck,
       FileWrite, FileObserve, FileSync, PublishAndAdopt, StartPublish,
       PublishCallback, AdoptCheck, Commit, StartCommit, SyncCheck, SyncDo,
       RenameCheck, Rename, Renamed, ParentSync, CommitCheck, ReopenCheck,
       Validate, Return, FinalGate, Fault, retVars
  <2>3. QED
    BY <2>1, <2>2 DEF Quiet, Sealed
<1>7. QED
  BY <1>1, <1>2, <1>3, <1>4, <1>5, <1>6

\* Which step leads to which phase.
LEMMA WayToPublish ==
  ASSUME TypeInv, NEW w \in Writers, WriterStep(w) \/ Fault(w)
  PROVE  /\ pc'[w] = "publish" => \E d \in Dirs : StartPublish(w, d)
         /\ pc'[w] = "adopt" => PublishCallback(w)
         /\ pc'[w] = "rename" => RenameCheck(w)
         /\ pc'[w] \in CommitPhase => pc[w] \in CommitPhase \/ StartCommit(w)
         /\ pc'[w] # "dead"
<1> USE DEF TypeInv, PcOK
<1>1. CASE Begin(w) \/ Fault(w)
  <2>1. PICK x \in {"ready", "failed"} \cup BeginPhase : pc' = [pc EXCEPT ![w] = x]
    BY <1>1 DEF Begin, BeginPreflight, BeginMkdir, BeginOpen, BeginCheck,
         Fault, Goto, Abandon, Poison, BeginPhase
  <2>2. QED
    BY <2>1 DEF BeginPhase, CommitPhase
<1>2. CASE Create(w)
  <2>1. PICK x \in {"ready", "dir.mkdir", "dir.open", "dir.check", "file.create"}
                     \cup EntryPhase : pc' = [pc EXCEPT ![w] = x]
    BY <1>2 DEF Create, CreateDirectory, CreateFile, StartCreate, DirMkdir,
         DirOpen, DirCheck, FileCreate, FileCheck, FileWrite, FileObserve,
         FileSync, FileSeal, Poison, FinishOperation, Goto, EntryPhase
  <2>2. QED
    BY <2>1 DEF EntryPhase, CommitPhase
<1>3. CASE PublishAndAdopt(w)
  <2>1. CASE \E d \in Dirs : StartPublish(w, d)
    <3>1. PICK x \in {"ready", "publish"} : pc' = [pc EXCEPT ![w] = x]
      BY <2>1 DEF StartPublish, Poison, Goto
    <3>2. QED
      BY <2>1, <3>1 DEF CommitPhase
  <2>2. CASE PublishCallback(w)
    <3>1. PICK x \in {"ready", "adopt"} : pc' = [pc EXCEPT ![w] = x]
      BY <2>2 DEF PublishCallback, FinishCallback, Poison, Goto
    <3>2. QED
      BY <2>2, <3>1 DEF CommitPhase
  <2>3. CASE Adopt(w) \/ AdoptCheck(w)
    <3>1. PICK x \in {"ready", "adopt.check"} : pc' = [pc EXCEPT ![w] = x]
      BY <2>3 DEF Adopt, AdoptCheck, FinishOperation, Poison, Goto
    <3>2. QED
      BY <3>1 DEF CommitPhase
  <2>4. QED
    BY <1>3, <2>1, <2>2, <2>3 DEF PublishAndAdopt
<1>4. CASE Commit(w)
  <2>1. PICK x \in {"failed", "rejected", "returned"} \cup CommitPhase :
          pc' = [pc EXCEPT ![w] = x]
    BY <1>4 DEF Commit, StartCommit, SyncCheck, SyncDo, RenameCheck, Rename,
         Renamed, ParentSync, CommitCheck, ReopenCheck, Validate, Return,
         FinalGate, Abandon, Goto, CommitPhase
  <2>2. pc'[w] \notin {"publish", "adopt", "dead"}
    BY <2>1 DEF CommitPhase
  <2>3. pc'[w] = "rename" => RenameCheck(w)
    BY <1>4 DEF Commit, StartCommit, SyncCheck, SyncDo, RenameCheck, Rename,
         Renamed, ParentSync, CommitCheck, ReopenCheck, Validate, Return,
         FinalGate, Abandon, Goto
  <2>4. pc[w] \in CommitPhase \/ StartCommit(w)
    BY <1>4 DEF Commit, SyncCheck, SyncDo, RenameCheck, Rename, Renamed,
       ParentSync, CommitCheck, ReopenCheck, Validate, Return, FinalGate,
       CommitPhase
  <2>5. QED
    BY <2>2, <2>3, <2>4
<1>5. QED
  BY <1>1, <1>2, <1>3, <1>4 DEF WriterStep

\* What the last reauthentication before the rename establishes.
LEMMA RenameCheckWhole ==
  ASSUME SteadyInv, NEW w \in Writers, Quiet(w), RenameCheck(w), pc'[w] = "rename"
  PROVE  WholeFor(w, held[w]) /\ UNCHANGED <<node, dataSynced, entrySynced, held, known>>
<1> USE DEF SteadyInv, TreeInv
<1>1. /\ pc[w] = "rename.check"
      /\ ReauthenticateStaging(w, drift[w], known[w], seal[w])
      /\ UNCHANGED <<node, dataSynced, entrySynced, held, known>>
  BY DEF RenameCheck, Abandon, Goto, TypeInv, PcOK, diskVars, retVars
<1>2. /\ Present(held[w]) = known[w]
      /\ \A n \in known[w] \cup {Root} : drift[w][n] = "same"
      /\ \A f \in known[w] \cap Files : seal[w][f] # "absent" => node[held[w]][f] = seal[w][f]
  BY <1>1 DEF ReauthenticateStaging, TreeVerified
<1>3. pc[w] \in CommitPhase /\ pc[w] \in AfterSync /\ pc[w] \in Active
  BY <1>1 DEF CommitPhase, AfterSync, Active
<1>4. known[w] = done[w] /\ left[w] = {} /\ held[w] \in Tree
  BY <1>3 DEF Ledger, Progress, AllSynced, TypeInv, PcOK
<1>5. \A f \in known[w] \cap Files : node[held[w]][f] = "bytes"
  BY <1>2, <1>3, <1>4 DEF Quiet
<1>6. \A f \in known[w] \cap Files : f \in dataSynced[held[w]]
  BY <1>2, <1>3, <1>4 DEF Progress, DataProgress
<1>7. \A p \in known[w] : Parent[p] \in known[w] \cup {Root}
  BY <1>2, <1>4 DEF TreeClosed
<1>8. \A p \in known[w] : p \in entrySynced[held[w]]
  BY <1>2, <1>3, <1>4, <1>7 DEF Progress, EntryProgress
<1>9. Required \subseteq known[w]
  BY <1>3 DEF Quiet
<1>10. QED
  BY <1>1, <1>2, <1>5, <1>6, <1>8, <1>9 DEF WholeFor

LEMMA QuietOwn ==
  ASSUME SteadyInv, NEW w \in Writers, WriterStep(w) \/ Fault(w), Quiet(w)
  PROVE  Quiet(w)'
<1> USE DEF SteadyInv, TreeInv
<1>1. \A n \in Node : drift'[w][n] # "gone"
  BY NoneGone DEF Quiet
<1>2. pc'[w] = "publish" => Present(held[w])' = {}
  <2> SUFFICES ASSUME pc'[w] = "publish" PROVE Present(held[w])' = {}
    OBVIOUS
  <2>1. PICK d \in Dirs : StartPublish(w, d)
    BY WayToPublish
  <2>2. /\ known[w] = {} /\ ReauthenticateStaging(w, drift[w], known[w], seal[w])
        /\ UNCHANGED <<node, held>>
    BY <2>1 DEF StartPublish, Poison, Goto, TypeInv, PcOK, diskVars, retVars
  <2>3. Present(held[w]) = {}
    BY <2>2 DEF ReauthenticateStaging, TreeVerified
  <2>4. QED
    BY <2>2, <2>3 DEF Present
<1>3. pc'[w] = "adopt" =>
        (\A f \in Present(held[w]) \cap Files : node[held[w]][f] = "bytes")'
  <2> SUFFICES ASSUME pc'[w] = "adopt", NEW f \in Files, node'[held'[w]][f] # "absent"
               PROVE  node'[held'[w]][f] = "bytes"
    BY DEF Present
  <2>1. PublishCallback(w)
    BY WayToPublish
  <2>2. pc[w] = "publish" /\ held' = held /\ pc[w] \in OpPhase
    BY <2>1 DEF PublishCallback, OpPhase
  <2>3. held[w] \in Tree /\ op[w] \in Dirs
    BY <2>2, OperationHas DEF Ledger, DirPhase
  <2>4. Present(held[w]) = {}
    BY <2>2 DEF Quiet
  <2>5. PICK files :
          node' = [node EXCEPT ![held[w]] =
             [p \in Path |-> IF p = op[w] THEN "dir"
                             ELSE IF p \in files THEN "bytes" ELSE @[p]]]
    BY <2>1 DEF PublishCallback, Poison, Goto, TypeInv, PcOK
  <2>6. f \in Path /\ f # op[w] /\ node[held[w]][f] = "absent"
    BY <2>3, <2>4, Nodes, PathAssumption DEF Present
  <2>7. node'[held[w]][f] = IF f \in files THEN "bytes" ELSE "absent"
    BY <2>3, <2>5, <2>6 DEF TypeInv, FsOK
  <2>8. QED
    BY <2>2, <2>7
<1>4. Sealed(w)'
  BY SealedOwn
<1>5. pc'[w] \in CommitPhase => Required \subseteq known'[w]
  <2> SUFFICES ASSUME pc'[w] \in CommitPhase PROVE Required \subseteq known'[w]
    OBVIOUS
  <2>1. CASE pc[w] \in CommitPhase
    <3>1. known'[w] = known[w]
      BY <2>1, OwnKeeps DEF BeginOpen, DirOpen, FileCreate, Adopt, CommitPhase
    <3>2. QED
      BY <2>1, <3>1 DEF Quiet
  <2>2. CASE StartCommit(w)
    <3>1. "failed" \notin CommitPhase
      BY DEF CommitPhase
    <3>2. ~Abandon(w)
      BY <3>1 DEF Abandon, Goto, TypeInv, PcOK
    <3>3. known[w] \cap ChildrenOf(Root) = Required /\ known' = known
      BY <2>2, <3>2 DEF StartCommit, retVars
    <3>4. QED
      BY <3>3
  <2>3. QED
    BY <2>1, <2>2, WayToPublish
<1>6. pc'[w] = "rename" => WholeFor(w, held[w])'
  <2> SUFFICES ASSUME pc'[w] = "rename" PROVE WholeFor(w, held[w])'
    OBVIOUS
  <2>1. RenameCheck(w)
    BY WayToPublish
  <2>2. WholeFor(w, held[w]) /\ UNCHANGED <<node, dataSynced, entrySynced, held, known>>
    BY <2>1, RenameCheckWhole
  <2>3. QED
    BY <2>2 DEF WholeFor, Present, Required
<1>7. Required' = Required
  BY DEF Required
<1>8. QED
  BY <1>1, <1>2, <1>3, <1>4, <1>5, <1>6, <1>7 DEF Quiet, Sealed

LEMMA QuietOther ==
  ASSUME SteadyInv, Owned, NEW w \in Writers, WriterStep(w) \/ Fault(w),
         NEW v \in Writers, v # w, Quiet(v)
  PROVE  Quiet(v)'
<1> USE DEF SteadyInv, TreeInv
<1>1. /\ pc'[v] = pc[v] /\ held'[v] = held[v] /\ known'[v] = known[v]
      /\ done'[v] = done[v] /\ seal'[v] = seal[v]
  BY OwnStep
<1>2. \A n \in Node : drift'[v][n] # "gone"
  BY OthersMove DEF Moved, Quiet
<1>3. pc[v] \in Active => held[v] \in Tree /\ held[v] # held[w] /\ node'[held[v]] = node[held[v]]
  <2> SUFFICES ASSUME pc[v] \in Active
               PROVE  held[v] \in Tree /\ held[v] # held[w] /\ node'[held[v]] = node[held[v]]
    OBVIOUS
  <2>1. held[v] \in Tree
    BY DEF TypeInv, PcOK
  <2>2. held[v] # held[w]
    BY <2>1, NoneAssumption, BoundAssumption DEF Owned, Tree
  <2>3. QED
    BY <2>1, <2>2, TreeElsewhere
<1>4. "publish" \in Active /\ "adopt" \in Active /\ "rename" \in Active
  BY DEF Active, OpPhase, CommitPhase
<1>5. pc[v] = "publish" => Present(held[v])' = {}
  BY <1>1, <1>3, <1>4 DEF Quiet, Present
<1>6. pc[v] = "adopt" =>
        (\A f \in Present(held[v]) \cap Files : node[held[v]][f] = "bytes")'
  BY <1>1, <1>3, <1>4 DEF Quiet, Present
<1>7. pc[v] = "rename" => WholeFor(v, held[v])'
  <2> SUFFICES ASSUME pc[v] = "rename" PROVE WholeFor(v, held[v])'
    OBVIOUS
  <2>1. held[v] \in Tree /\ WholeFor(v, held[v])
    BY <1>3, <1>4 DEF Quiet
  <2>2. PICK t \in Tree : t = held[v]
    BY <2>1
  <2>3. WholeFor(v, t)'
    BY <2>1, <2>2, WholeOther
  <2>4. QED
    BY <1>1, <2>2, <2>3 DEF WholeFor, Present
<1>8. Required' = Required
  BY DEF Required
<1>9. QED
  BY <1>1, <1>2, <1>5, <1>6, <1>7, <1>8 DEF Quiet

\* The step that publishes.
LEMMA RenamePublishes ==
  ASSUME SteadyInv, Owned, Whole, NEW w \in Writers, Quiet(w), Rename(w), ~Abandon(w)
  PROVE  /\ names["final"] = None /\ names'["final"] = held[w] /\ held[w] \in Tree
         /\ WholeFor(w, held[w])' /\ pc' = [pc EXCEPT ![w] = "renamed"]
         /\ held'[w] = held[w] /\ Whole'
<1> USE DEF SteadyInv, TreeInv
<1>1. /\ pc[w] = "rename" /\ names["final"] = None
      /\ names' = [staging |-> None, final |-> names["staging"]]
      /\ recoverable' = recoverable \cup {names'}
      /\ pc' = [pc EXCEPT ![w] = "renamed"]
      /\ UNCHANGED <<node, dataSynced, entrySynced, held, known>>
  BY DEF Rename, Rebind, Goto
<1>2. names["staging"] = held[w] /\ held[w] \in Tree
  BY <1>1 DEF Owned, StagedPhase, TypeInv, PcOK, Active, CommitPhase
<1>3. names'["final"] = held[w]
  BY <1>1, <1>2
<1>4. WholeFor(w, held[w])'
  BY <1>1 DEF Quiet, WholeFor, Present, Required
<1>5. pc'[w] \in PublishedPhase
  BY <1>1 DEF TypeInv, PcOK, PublishedPhase, PlacedPhase
<1>6. \A binding \in recoverable' : binding["final"] \in {None, names'["final"]}
  BY <1>1 DEF Whole
<1>7. WholeFor(w, names["final"])'
  BY <1>1, <1>3, <1>4 DEF WholeFor
<1>8. Whole'
  BY <1>5, <1>6, <1>7 DEF Whole
<1>9. QED
  BY <1>1, <1>2, <1>3, <1>4, <1>8

\* Every other step leaves the final name, and the tree it denotes stays whole.
LEMMA FinalStays ==
  ASSUME TypeInv, NEW w \in Writers, WriterStep(w) \/ Fault(w), Rename(w) => Abandon(w)
  PROVE  /\ names'["final"] = names["final"]
         /\ recoverable' \in {recoverable, recoverable \cup {names'}, {names}}
<1>1. CASE BeginMkdir(w)
  BY <1>1 DEF BeginMkdir, Rebind, TypeInv, FsOK, NameState, Slot
<1>2. CASE Rename(w) /\ Abandon(w)
  <2>1. "renamed" # "failed" /\ pc'[w] = "failed"
    BY <1>2 DEF Abandon, Goto, TypeInv, PcOK
  <2>2. ~Goto(w, "renamed")
    BY <2>1 DEF Goto, TypeInv, PcOK
  <2>3. QED
    BY <1>2, <2>2 DEF Rename
<1>3. CASE ~BeginMkdir(w) /\ ~Rename(w)
  <2>1. names' = names /\ recoverable' \in {recoverable, {names}}
    BY <1>3 DEF WriterStep, Begin, BeginPreflight, BeginOpen, BeginCheck,
       Create, CreateDirectory, CreateFile, StartCreate, DirMkdir, DirOpen,
       DirCheck, FileCreate, FileCheck, FileWrite, FileObserve, FileSync,
       FileSeal, PublishAndAdopt, StartPublish, PublishCallback, Adopt,
       AdoptCheck, Commit, StartCommit, SyncCheck, SyncDo, RenameCheck,
       Renamed, ParentSync, CommitCheck, ReopenCheck, Validate, Return,
       FinalGate, Fault, diskVars
  <2>2. QED
    BY <2>1
<1>4. QED
  BY <1>1, <1>2, <1>3

LEMMA WholeStays ==
  ASSUME SteadyInv, Owned, NEW w \in Writers, WriterStep(w) \/ Fault(w),
         NEW v \in Writers, NEW t \in Tree, WholeFor(v, t), pc[v] \in PublishedPhase
  PROVE  WholeFor(v, t)' /\ pc'[v] \in PublishedPhase
<1> USE DEF SteadyInv, TreeInv
<1>1. CASE v = w
  <2>1. UNCHANGED <<node, dataSynced, entrySynced, held, known>> /\ pc'[v] \in PublishedPhase
    BY <1>1, PublishedSteps
  <2>2. QED
    BY <2>1 DEF WholeFor, Present, Required
<1>2. CASE v # w
  <2>1. pc'[v] = pc[v]
    BY <1>2, OwnStep
  <2>2. QED
    BY <1>2, <2>1, WholeOther
<1>3. QED
  BY <1>1, <1>2

LEMMA WholeWriter ==
  ASSUME SteadyInv, Owned, Whole, NEW w \in Writers, Quiet(w), WriterStep(w) \/ Fault(w)
  PROVE  Whole'
<1> USE DEF SteadyInv, TreeInv
<1>1. CASE Rename(w) /\ ~Abandon(w)
  BY <1>1, RenamePublishes
<1>2. CASE Rename(w) => Abandon(w)
  <2>1. /\ names'["final"] = names["final"]
        /\ recoverable' \in {recoverable, recoverable \cup {names'}, {names}}
    BY <1>2, FinalStays
  <2>2. \A binding \in recoverable' : binding["final"] \in {None, names'["final"]}
    BY <2>1 DEF Whole
  <2>3. ASSUME names'["final"] # None
        PROVE  \E v \in Writers : WholeFor(v, names["final"])' /\ pc'[v] \in PublishedPhase
    <3>1. PICK v \in Writers : WholeFor(v, names["final"]) /\ pc[v] \in PublishedPhase
      BY <2>1, <2>3 DEF Whole
    <3>2. names["final"] \in Tree
      BY <2>1, <2>3 DEF TypeInv, FsOK, NameState, Slot
    <3>3. PICK t \in Tree : t = names["final"]
      BY <3>2
    <3>4. WholeFor(v, t)' /\ pc'[v] \in PublishedPhase
      BY <3>1, <3>3, WholeStays
    <3>5. WholeFor(v, names["final"])'
      BY <2>1, <3>3, <3>4 DEF WholeFor, Present
    <3>6. QED
      BY <3>4, <3>5
  <2>4. QED
    BY <2>2, <2>3 DEF Whole
<1>3. QED
  BY <1>1, <1>2

LEMMA WholeCrashStep ==
  ASSUME SteadyInv, Whole, CrashStep
  PROVE  Whole'
<1> USE DEF SteadyInv, TreeInv
<1>1. PICK lost \in SUBSET Losable, torn \in SUBSET Tearable : Crash(lost, torn)
  BY DEF CrashStep
<1>2. PICK binding \in recoverable : names' = binding /\ recoverable' = {binding}
  BY <1>1 DEF Crash
<1>3. binding["final"] \in {None, names["final"]}
  BY DEF Whole
<1>4. ASSUME names'["final"] # None
      PROVE  \E v \in Writers : WholeFor(v, names["final"])' /\ pc'[v] \in PublishedPhase
  <2>1. names'["final"] = names["final"] /\ names["final"] # None
    BY <1>2, <1>3, <1>4
  <2>2. PICK v \in Writers : WholeFor(v, names["final"]) /\ pc[v] \in PublishedPhase
    BY <2>1 DEF Whole
  <2>3. PICK t \in Tree : t = names["final"]
    BY <2>1 DEF TypeInv, FsOK, NameState, Slot
  <2>4. WholeFor(v, t)'
    BY <1>1, <2>2, <2>3, WholeCrash
  <2>5. pc'[v] \in PublishedPhase
    <3>1. pc'[v] = pc[v] \/ pc'[v] = "dead"
      BY <1>1 DEF Crash
    <3>2. QED
      BY <2>2, <3>1 DEF PublishedPhase
  <2>6. WholeFor(v, names["final"])'
    BY <2>1, <2>3, <2>4 DEF WholeFor, Present
  <2>7. QED
    BY <2>5, <2>6
<1>5. QED
  BY <1>2, <1>4 DEF Whole

LEMMA QuietCrash ==
  ASSUME TypeInv, NEW v \in Writers, Quiet(v), CrashStep
  PROVE  Quiet(v)'
<1>1. drift' = drift
  BY DEF CrashStep, Crash, retVars
<1>2. pc'[v] \notin Active
  <2>1. "idle" \notin Active /\ "dead" \notin Active
    BY DEF Active, OpPhase, CommitPhase
  <2>2. QED
    BY <2>1, Phases DEF CrashStep, Crash
<1>3. CommitPhase \subseteq Active /\ "publish" \in Active /\ "adopt" \in Active
      /\ "rename" \in Active
  BY DEF Active, OpPhase, CommitPhase
<1>4. QED
  BY <1>1, <1>2, <1>3 DEF Quiet

\* The inductive invariant of the destination: SteadyInv, Ownership, and while
\* nobody interferes the whole tree at the final name and the quiet transactions.
CalmInv ==
  /\ SteadyInv
  /\ Ownership
  /\ meddles = 0 => Whole /\ \A w \in Writers : Quiet(w)

LEMMA InitCalm == Init => CalmInv
<1> SUFFICES ASSUME Init PROVE CalmInv
  OBVIOUS
<1>1. Ownership
  BY InitOwned, OwnershipIsOwned
<1>2. Whole
  BY DEF Init, Whole, Slot
<1>3. ASSUME NEW w \in Writers PROVE Quiet(w)
  <2>1. "idle" \notin Active /\ "idle" \notin CommitPhase
    BY DEF Active, OpPhase, CommitPhase
  <2>2. QED
    BY <2>1 DEF Init, Quiet
<1>4. QED
  BY <1>1, <1>2, <1>3, InitSteady DEF CalmInv

\* Only an outsider counts as interference.
LEMMA MeddlesCount ==
  ASSUME TypeInv, [Next]_vars
  PROVE  (meddles' = meddles /\ ~MeddleStep) \/ (MeddleStep /\ meddles' # 0)
<1>1. CASE MeddleStep
  <2>1. meddles' = meddles + 1
    BY <1>1 DEF MeddleStep, MeddleCreate, MeddleWrite, MeddleAlter,
         MeddleRemove, MeddleUnplace, MeddlePlace, MeddleMkdir, MeddleParent,
         MeddleCustody, Meddle
  <2>2. QED
    BY <1>1, <2>1, BoundAssumption DEF TypeInv, EnvOK
<1>2. CASE ~MeddleStep
  <2>1. ASSUME NEW w \in Writers, WriterStep(w) PROVE meddles' = meddles
    BY <2>1 DEF WriterStep, Begin, BeginPreflight, BeginMkdir, BeginOpen,
         BeginCheck, Create, CreateDirectory, CreateFile, StartCreate,
         DirMkdir, DirOpen, DirCheck, FileCreate, FileCheck, FileWrite,
         FileObserve, FileSync, FileSeal, PublishAndAdopt, StartPublish,
         PublishCallback, Adopt, AdoptCheck, Commit, StartCommit, SyncCheck,
         SyncDo, RenameCheck, Rename, Renamed, ParentSync, CommitCheck,
         ReopenCheck, Validate, Return, FinalGate, envVars
  <2>2. ASSUME NEW w \in Writers, Fault(w) PROVE meddles' = meddles
    BY <2>2 DEF Fault
  <2>3. CASE CrashStep \/ UNCHANGED vars
    BY <1>2, <2>3 DEF CrashStep, Crash, vars
  <2>4. QED
    BY <1>2, <2>1, <2>2, <2>3 DEF Next, Rest
<1>3. QED
  BY <1>1, <1>2

LEMMA NextCalm == CalmInv /\ [Next]_vars => CalmInv'
<1> SUFFICES ASSUME CalmInv, [Next]_vars PROVE CalmInv'
  OBVIOUS
<1>1. SteadyInv /\ SteadyInv' /\ TypeInv
  BY NextSteady DEF CalmInv, SteadyInv, TreeInv
<1>2. Ownership'
  BY <1>1, NextOwned DEF CalmInv
<1>3. ASSUME meddles' = 0
      PROVE  Whole' /\ \A w \in Writers : Quiet(w)'
  <2>1. meddles = 0 /\ ~MeddleStep
    BY <1>1, <1>3, MeddlesCount
  <2>2. Owned /\ Whole /\ \A w \in Writers : Quiet(w)
    BY <2>1, OwnershipIsOwned DEF CalmInv
  <2>3. ASSUME NEW w \in Writers, WriterStep(w) \/ Fault(w)
        PROVE  Whole' /\ \A v \in Writers : Quiet(v)'
    <3>1. Whole' /\ Quiet(w)'
      BY <1>1, <2>2, <2>3, WholeWriter, QuietOwn
    <3>2. ASSUME NEW v \in Writers, v # w PROVE Quiet(v)'
      BY <1>1, <2>2, <2>3, <3>2, QuietOther
    <3>3. QED
      BY <3>1, <3>2
  <2>4. CASE CrashStep
    BY <1>1, <2>2, <2>4, WholeCrashStep, QuietCrash
  <2>5. CASE UNCHANGED vars
    BY <2>2, <2>5 DEF vars, Whole, Quiet, WholeFor, Present, Required
  <2>6. QED
    BY <2>1, <2>3, <2>4, <2>5 DEF Next, Rest
<1>4. QED
  BY <1>1, <1>2, <1>3 DEF CalmInv

LEMMA AlwaysCalm == Spec => []CalmInv
BY InitCalm, NextCalm, PTL DEF Spec

\* Crash-atomic publication (commit_inner): whatever the final name denotes, at
\* any moment and after any crash, is the whole tree of one writer, for any
\* number of writers, failing calls and crashes.
THEOREM FinalWhole == Spec => []FinalIsWhole
<1>1. CalmInv => FinalIsWhole
  BY DEF CalmInv, Whole, FinalIsWhole
<1>2. QED
  BY <1>1, AlwaysCalm, PTL

(***************************************************************************)
(* The transaction implements CreateOnce.                                  *)
(***************************************************************************)

\* What CreateOnce's variables published and outcome are here.
Published ==
  IF names["final"] = None THEN None
  ELSE IF \E w \in Writers : WholeFor(w, names["final"])
       THEN CHOOSE w \in Writers : WholeFor(w, names["final"])
       ELSE "torn"

Told ==
  [w \in Writers |->
     IF pc[w] = "returned" THEN "won"
     ELSE IF pc[w] \in {"failed", "rejected", "dead"} THEN "lost" ELSE "open"]

\* The writer whose whole tree is at the final name is the one published: no two
\* hold one tree.
LEMMA PublishedIs ==
  ASSUME Owned, names["final"] # None,
         NEW v \in Writers, WholeFor(v, names["final"])
  PROVE  Published = v
<1>1. \A u \in Writers : WholeFor(u, names["final"]) => u = v
  BY DEF Owned, WholeFor
<1>2. (CHOOSE w \in Writers : WholeFor(w, names["final"])) = v
  <2> HIDE DEF WholeFor
  <2>1. QED
    BY <1>1, Zenon
<1>3. QED
  BY <1>2 DEF Published

LEMMA PublishedNext ==
  ASSUME Owned', names'["final"] # None,
         NEW v \in Writers, WholeFor(v, names["final"])'
  PROVE  Published' = v
<1>1. \A u \in Writers : WholeFor(u, names["final"])' => u = v
  BY DEF Owned, WholeFor
<1>2. (CHOOSE w \in Writers : WholeFor(w, names["final"])') = v
  BY <1>1, Zenon
<1>3. QED
  BY <1>2 DEF Published

\* A step that keeps the final name and its whole tree publishes nothing.
LEMMA PublishedSame ==
  ASSUME SteadyInv, Owned, Owned', Whole, names'["final"] = names["final"],
         \A v \in Writers : \A t \in Tree :
           WholeFor(v, t) /\ pc[v] \in PublishedPhase => WholeFor(v, t)'
  PROVE  Published' = Published
<1>1. CASE names["final"] = None
  BY <1>1 DEF Published
<1>2. CASE names["final"] # None
  <2>1. PICK v \in Writers : WholeFor(v, names["final"]) /\ pc[v] \in PublishedPhase
    BY <1>2 DEF Whole
  <2>2. PICK t \in Tree : t = names["final"]
    BY <1>2 DEF SteadyInv, TreeInv, TypeInv, FsOK, NameState, Slot
  <2>3. WholeFor(v, t)'
    BY <2>1, <2>2
  <2>4. WholeFor(v, names["final"])'
    BY <2>2, <2>3 DEF WholeFor, Present
  <2>5. Published = v /\ Published' = v
    BY <1>2, <2>1, <2>4, PublishedIs, PublishedNext
  <2>6. QED
    BY <2>5
<1>3. QED
  BY <1>1, <1>2

\* A step of w tells w at most.
LEMMA OneTold ==
  ASSUME TypeInv, NEW w \in Writers, \A v \in Writers \ {w} : pc'[v] = pc[v]
  PROVE  /\ pc'[w] = "returned" => Told' = [Told EXCEPT ![w] = "won"]
         /\ pc'[w] \in {"failed", "rejected", "dead"} => Told' = [Told EXCEPT ![w] = "lost"]
         /\ pc[w] \notin Ended /\ pc'[w] \notin Ended => Told' = Told
<1>1. ASSUME pc'[w] = "returned" PROVE Told' = [Told EXCEPT ![w] = "won"]
  <2>1. \A v \in Writers : Told'[v] = IF v = w THEN "won" ELSE Told[v]
    BY <1>1 DEF Told
  <2>2. QED
    BY <2>1 DEF Told
<1>2. ASSUME pc'[w] \in {"failed", "rejected", "dead"}
      PROVE  Told' = [Told EXCEPT ![w] = "lost"]
  <2>1. \A v \in Writers : Told'[v] = IF v = w THEN "lost" ELSE Told[v]
    BY <1>2 DEF Told
  <2>2. QED
    BY <2>1 DEF Told
<1>3. ASSUME pc[w] \notin Ended, pc'[w] \notin Ended PROVE Told' = Told
  <2>1. \A v \in Writers : Told'[v] = Told[v]
    BY <1>3 DEF Told, Ended
  <2>2. QED
    BY <2>1 DEF Told
<1>4. QED
  BY <1>1, <1>2, <1>3

\* A transaction that has ended takes no step.
LEMMA EndedStops ==
  ASSUME TypeInv, NEW w \in Writers, WriterStep(w) \/ Fault(w)
  PROVE  pc[w] \notin Ended /\ pc'[w] # "dead"
<1>1. pc[w] \notin Ended
  <2>1. CASE Begin(w) \/ Fault(w)
    BY <2>1 DEF Begin, BeginPreflight, BeginMkdir, BeginOpen, BeginCheck, Fault, Ended
  <2>2. CASE Create(w) \/ PublishAndAdopt(w)
    BY <2>2 DEF Create, CreateDirectory, CreateFile, StartCreate, DirMkdir, DirOpen,
         DirCheck, FileCreate, FileCheck, FileWrite, FileObserve, FileSync,
         FileSeal, PublishAndAdopt, StartPublish, PublishCallback, Adopt,
         AdoptCheck, Ended
  <2>3. CASE Commit(w)
    BY <2>3 DEF Commit, StartCommit, SyncCheck, SyncDo, RenameCheck, Rename,
         Renamed, ParentSync, CommitCheck, ReopenCheck, Validate, Return,
         FinalGate, Ended
  <2>4. QED
    BY <2>1, <2>2, <2>3 DEF WriterStep
<1>2. pc'[w] # "dead"
  BY WayToPublish
<1>3. QED
  BY <1>1, <1>2

LEMMA WriterImplements ==
  ASSUME SteadyInv, Owned, Owned', Whole, NEW w \in Writers, Quiet(w),
         [Next]_vars, WriterStep(w) \/ Fault(w)
  PROVE  [Once!OnceNext]_(Once!onceVars)
<1> USE DEF SteadyInv, TreeInv
<1>0. /\ pc[w] \notin Ended /\ pc'[w] # "dead" /\ Told[w] = "open"
      /\ \A v \in Writers \ {w} : pc'[v] = pc[v]
  BY EndedStops, OwnStep DEF Told, Ended
<1>1. CASE Rename(w) /\ ~Abandon(w)
  <2>1. /\ names["final"] = None /\ names'["final"] = held[w] /\ held[w] \in Tree
        /\ WholeFor(w, held[w])' /\ pc' = [pc EXCEPT ![w] = "renamed"]
        /\ held'[w] = held[w]
    BY <1>1, RenamePublishes
  <2>2. WholeFor(w, names["final"])' /\ names'["final"] # None
    BY <2>1, NoneAssumption, BoundAssumption DEF WholeFor, Tree
  <2>3. Published = None /\ Published' = w
    BY <2>1, <2>2, PublishedNext DEF Published
  <2>4. Told' = Told
    <3>1. pc'[w] \notin Ended
      BY <2>1 DEF TypeInv, PcOK, Ended
    <3>2. QED
      BY <1>0, <3>1, OneTold
  <2>5. Once!Publish(w)
    BY <1>0, <2>3, <2>4 DEF Once!Publish, Told, Published
  <2>6. QED
    BY <2>5 DEF Once!OnceNext
<1>2. CASE Rename(w) => Abandon(w)
  <2>1. Published' = Published
    <3>1. names'["final"] = names["final"]
      BY <1>2, FinalStays
    <3>2. QED
      BY <3>1, WholeStays, PublishedSame
  <2>2. CASE pc'[w] = "returned"
    <3>1. Return(w)
      BY <1>0, <2>2, OnlyReturn DEF Ended
    <3>2. pc[w] = "post.check"
      BY <3>1 DEF Return, FinalGate
    <3>3. names["final"] = held[w] /\ held[w] # None /\ names["final"] # None
      BY <3>2 DEF Owned, PlacedPhase, SettledPhase
    <3>4. Published = w
      <4>1. PICK v \in Writers : WholeFor(v, names["final"])
        BY <3>3 DEF Whole
      <4>2. v = w
        BY <3>3, <4>1 DEF Owned, WholeFor
      <4>3. QED
        BY <3>3, <4>1, <4>2, PublishedIs
    <3>5. Told' = [Told EXCEPT ![w] = "won"]
      BY <1>0, <2>2, OneTold
    <3>6. Once!Win(w)
      BY <1>0, <2>1, <3>4, <3>5 DEF Once!Win, Told, Published
    <3>7. QED
      BY <3>6 DEF Once!OnceNext
  <2>3. CASE pc'[w] \in {"failed", "rejected"}
    <3>1. Told' = [Told EXCEPT ![w] = "lost"]
      BY <1>0, <2>3, OneTold
    <3>2. Once!Lose(w)
      BY <1>0, <2>1, <3>1 DEF Once!Lose, Told, Published
    <3>3. QED
      BY <3>2 DEF Once!OnceNext
  <2>4. CASE pc'[w] \notin Ended
    <3>1. Told' = Told
      BY <1>0, <2>4, OneTold
    <3>2. QED
      BY <2>1, <3>1 DEF Once!onceVars, Told, Published
  <2>5. QED
    BY <1>0, <2>2, <2>3, <2>4 DEF Ended
<1>3. QED
  BY <1>1, <1>2

\* A crash takes back at most a publication whose writer was told nothing.
LEMMA CrashImplements ==
  ASSUME SteadyInv, Owned, Owned', Whole, CrashStep
  PROVE  Once!OnceNext
<1> USE DEF SteadyInv, TreeInv
<1>0. PICK S \in SUBSET Writers : S = {w \in Writers : pc[w] \notin Ended \cup {"idle"}}
  OBVIOUS
<1>a. PICK lost \in SUBSET Losable, torn \in SUBSET Tearable : Crash(lost, torn)
  BY DEF CrashStep
<1>1. \A v \in Writers : pc'[v] = IF v \in S THEN "dead" ELSE pc[v]
  BY <1>0, <1>a DEF Crash
<1>2. \A v \in S : Told[v] = "open"
  BY <1>0 DEF Told, Ended
<1>3. Told' = [v \in Writers |-> IF v \in S THEN "lost" ELSE Told[v]]
  <2>1. \A v \in Writers : Told'[v] = IF v \in S THEN "lost" ELSE Told[v]
    BY <1>1 DEF Told
  <2>2. QED
    BY <2>1 DEF Told
<1>4. PICK binding \in recoverable : names' = binding
  BY <1>a DEF Crash
<1>5. Published' = Published
      \/ /\ Published # None /\ Published' = None
         /\ Told'[Published] = "lost"
  <2>1. CASE names'["final"] = names["final"]
    BY <1>a, <2>1, WholeCrash, PublishedSame
  <2>2. CASE names'["final"] # names["final"]
    <3>1. names'["final"] = None /\ names["final"] # None
      BY <1>4, <2>2 DEF Whole
    <3>2. PICK v \in Writers : WholeFor(v, names["final"]) /\ pc[v] \in PublishedPhase
      BY <3>1 DEF Whole
    <3>3. Published = v /\ Published' = None
      BY <3>1, <3>2, PublishedIs DEF Published
    <3>4. held[v] = names["final"]
      BY <3>2 DEF WholeFor
    <3>5. pc[v] \notin SettledPhase
      BY <1>4, <2>2, <3>4 DEF Owned
    <3>6. v \in S \/ pc[v] \in {"failed", "dead"}
      BY <1>0, <3>2, <3>5 DEF PublishedPhase, PlacedPhase, Ended
    <3>7. Told'[v] = "lost"
      BY <1>3, <3>6 DEF Told
    <3>8. QED
      BY <3>3, <3>7
  <2>3. QED
    BY <2>1, <2>2
<1>6. Once!Forget(S)
  BY <1>2, <1>3, <1>5 DEF Once!Forget, Told, Published
<1>7. QED
  BY <1>6 DEF Once!OnceNext

LEMMA StepImplements ==
  CalmInv /\ CalmInv' /\ [Next]_vars /\ (meddles = 0)'
    => [Once!OnceNext]_(Once!onceVars)
<1> SUFFICES ASSUME CalmInv, CalmInv', [Next]_vars, meddles' = 0
             PROVE  [Once!OnceNext]_(Once!onceVars)
  OBVIOUS
<1>1. SteadyInv /\ TypeInv
  BY DEF CalmInv, SteadyInv, TreeInv
<1>2. meddles = 0 /\ ~MeddleStep
  BY <1>1, MeddlesCount
<1>3. Owned /\ Whole /\ \A w \in Writers : Quiet(w)
  BY <1>2, OwnershipIsOwned DEF CalmInv
<1>4. Owned'
  BY DEF CalmInv, Ownership, Owned
<1>5. ASSUME NEW w \in Writers, WriterStep(w) \/ Fault(w)
      PROVE  [Once!OnceNext]_(Once!onceVars)
  BY <1>1, <1>3, <1>4, <1>5, WriterImplements
<1>6. CASE CrashStep
  BY <1>1, <1>3, <1>4, <1>6, CrashImplements
<1>7. CASE UNCHANGED vars
  <2>1. Told' = Told
    BY <1>7 DEF vars, Told
  <2>2. Published' = Published
    <3>1. ASSUME NEW v \in Writers, NEW t \in Tree, WholeFor(v, t) PROVE WholeFor(v, t)'
      BY <1>7, <3>1 DEF vars, WholeFor, Present, Required
    <3>2. QED
      BY <1>1, <1>3, <1>4, <1>7, <3>1, PublishedSame DEF vars
  <2>3. QED
    BY <2>1, <2>2 DEF Once!onceVars, Told, Published
<1>8. QED
  BY <1>2, <1>5, <1>6, <1>7 DEF Next, Rest

LEMMA InitImplements == Init => Once!OnceInit
<1> SUFFICES ASSUME Init PROVE Once!OnceInit
  OBVIOUS
<1>1. Published = None
  BY DEF Init, Published, Slot
<1>2. Told = [w \in Writers |-> "open"]
  BY DEF Told, Init
<1>3. QED
  BY <1>1, <1>2 DEF Once!OnceInit, Told, Published

\* A behaviour of the transactions that nobody outside interferes with is one of
\* a write-once destination: the exclusive rename publishes, the return after the
\* postcommit check tells the winner, an error or a rejection the loser, and a
\* crash takes back at most what nobody was told of.
THEOREM TransactionIsCreateOnce ==
  Spec /\ [](meddles = 0) => ImplementsCreateOnce
<1>1. Spec => []CalmInv
  BY AlwaysCalm
<1>2. QED
  BY <1>1, InitImplements, StepImplements, PTL
     DEF Spec, ImplementsCreateOnce, Once!OnceSpec
=============================================================================
