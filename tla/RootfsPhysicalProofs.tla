------------------------ MODULE RootfsPhysicalProofs ------------------------
(***************************************************************************)
(* The journal of the physical root filesystem stays sound for every       *)
(* projection and any number of failing calls and interventions, and what  *)
(* cleanup unlinks follows from it.                                        *)
(*                                                                         *)
(* The inductive invariant is the types together with JournalIsSound.  The *)
(* types need it: created_child_count stays a natural number only because  *)
(* it counts the named children, so that an entry about to be unlinked is  *)
(* counted by its directory.                                               *)
(*                                                                         *)
(* The action properties rest on more invariants of the same kind, stated  *)
(* where they are used: the order in which each loop seals, fills, reopens *)
(* and unlinks; that an object has one place; that what was spoiled stays  *)
(* broken; and that nothing but an outsider makes the filesystem differ    *)
(* from the journal.                                                       *)
(***************************************************************************)
EXTENDS RootfsPhysical, FiniteSetTheorems, TLAPS

IInv == TypeOK /\ JournalIsSound

\* The parts of the invariant that do not count.
Tracked ==
  CursorInRange /\ PhaseFollowsStep /\ UnidentifiedIsStuck /\ IdentityIsOwn

\* The plan, as the steps use it.
LEMMA PlanFacts ==
  /\ Entry \subseteq Node /\ 0 \in Node /\ Node \subseteq Object
  /\ Entry \subseteq Nat /\ Node \subseteq Nat /\ Object \subseteq Nat
  /\ 0 \notin Entry
  /\ \A p \in Entry : Parent[p] \in Node /\ Kind[p] \in {"dir", "file", "link"}
  /\ None \notin Object
  /\ \A i \in 1..NumDirs : SealOrder[i] \in Entry
BY SizeAssumption, PlanAssumption, SealOrderAssumption, NoneAssumption
   DEF Entry, Node, Object

\* Where the steps lead.
LEMMA StepNames ==
  /\ BeforeEffect \subseteq Step /\ Building \subseteq Step
  /\ Cleaning \subseteq Step /\ Released \subseteq Step
  /\ "root.pin" \in Step /\ "held" \in Step /\ "recoverable" \in Step
  /\ "quarantined" \in Step
BY DEF Step, Running

LEMMA ErrorTargets == AfterError \in Step
BY StepNames DEF AfterError, Cleaning, Building, Released

-----------------------------------------------------------------------------
(***************************************************************************)
(* Counting.                                                               *)
(***************************************************************************)
LEMMA ChildrenFinite ==
  ASSUME NEW d, NEW S \in SUBSET Children(d)
  PROVE  IsFiniteSet(S) /\ Cardinality(S) \in Nat
<1>1. IsFiniteSet(Entry)
  BY FS_Interval, SizeAssumption DEF Entry
<1>2. S \subseteq Entry
  BY DEF Children
<1>3. QED
  BY <1>1, <1>2, FS_Subset, FS_CardinalityType

\* The entries of directory d the journal holds as named.
NamedIn(d) == {c \in Children(d) : phase[c] # "planned"}

\* A step that makes no planned entry named and no named entry planned keeps
\* the counts.
LEMMA CountsFrame ==
  ASSUME CountsAgree, created' = created,
         \A c \in Entry : phase'[c] = "planned" <=> phase[c] = "planned"
  PROVE  CountsAgree'
<1> SUFFICES ASSUME NEW d \in Node
             PROVE  created'[d] = Cardinality(NamedIn(d)')
  BY DEF CountsAgree, NamedIn, Children
<1>1. NamedIn(d)' = NamedIn(d)
  BY DEF NamedIn, Children
<1>2. created[d] = Cardinality(NamedIn(d))
  BY DEF CountsAgree, NamedIn
<1>3. QED
  BY <1>1, <1>2

\* record_named_entry_infallibly
LEMMA CountsUp ==
  ASSUME TypeOK, CountsAgree, NEW p \in Entry, NEW x \in EntryPhase,
         x # "planned", phase[p] = "planned",
         phase' = [phase EXCEPT ![p] = x],
         created' = [created EXCEPT ![Parent[p]] = @ + 1]
  PROVE  CountsAgree'
<1> SUFFICES ASSUME NEW d \in Node
             PROVE  created'[d] = Cardinality(NamedIn(d)')
  BY DEF CountsAgree, NamedIn, Children
<1>1. created[d] = Cardinality(NamedIn(d))
  BY DEF CountsAgree, NamedIn
<1>2. CASE d = Parent[p]
  <2>1. NamedIn(d)' = NamedIn(d) \cup {p}
    BY <1>2, PlanFacts DEF NamedIn, Children, TypeOK
  <2>2. p \notin NamedIn(d)
    BY DEF NamedIn
  <2>3. IsFiniteSet(NamedIn(d))
    BY ChildrenFinite DEF NamedIn
  <2>4. Cardinality(NamedIn(d) \cup {p}) = Cardinality(NamedIn(d)) + 1
    BY <2>2, <2>3, FS_AddElement
  <2>5. created'[d] = created[d] + 1
    BY <1>2 DEF TypeOK
  <2>6. QED
    BY <1>1, <2>1, <2>4, <2>5
<1>3. CASE d # Parent[p]
  <2>1. NamedIn(d)' = NamedIn(d)
    BY <1>3, PlanFacts DEF NamedIn, Children, TypeOK
  <2>2. created'[d] = created[d]
    BY <1>3 DEF TypeOK
  <2>3. QED
    BY <1>1, <2>1, <2>2
<1>4. QED
  BY <1>2, <1>3

\* The journal of an unlinked entry: its directory counted it.
LEMMA CountsDown ==
  ASSUME TypeOK, CountsAgree, NEW p \in Entry, phase[p] # "planned",
         phase' = [phase EXCEPT ![p] = "planned"],
         created' = [created EXCEPT ![Parent[p]] = @ - 1]
  PROVE  created' \in [Node -> Nat] /\ CountsAgree'
<1> DEFINE q == Parent[p]
<1>1. q \in Node /\ created[q] = Cardinality(NamedIn(q))
  BY PlanFacts DEF CountsAgree, NamedIn
<1>2. p \in NamedIn(q) /\ IsFiniteSet(NamedIn(q))
  BY ChildrenFinite DEF NamedIn, Children
<1>3. /\ IsFiniteSet(NamedIn(q) \ {p})
      /\ Cardinality(NamedIn(q) \ {p}) = Cardinality(NamedIn(q)) - 1
  BY <1>2, FS_RemoveElement
<1>4. Cardinality(NamedIn(q) \ {p}) \in Nat
  BY <1>3, FS_CardinalityType
<1>5. created[q] - 1 \in Nat
  BY <1>1, <1>3, <1>4
<1>6. created' \in [Node -> Nat]
  BY <1>5 DEF TypeOK
<1>7. ASSUME NEW d \in Node PROVE created'[d] = Cardinality(NamedIn(d)')
  <2>1. CASE d = q
    <3>1. NamedIn(d)' = NamedIn(q) \ {p}
      BY <2>1, PlanFacts DEF NamedIn, Children, TypeOK
    <3>2. created'[d] = created[q] - 1
      BY <2>1, <1>1 DEF TypeOK
    <3>3. QED
      BY <1>1, <1>3, <3>1, <3>2
  <2>2. CASE d # q
    <3>1. NamedIn(d)' = NamedIn(d)
      BY <2>2, PlanFacts DEF NamedIn, Children, TypeOK
    <3>2. created'[d] = created[d]
      BY <2>2 DEF TypeOK
    <3>3. QED
      BY <3>1, <3>2 DEF CountsAgree, NamedIn
  <2>3. QED
    BY <2>1, <2>2
<1>8. QED
  BY <1>6, <1>7 DEF CountsAgree, NamedIn, Children

-----------------------------------------------------------------------------
(***************************************************************************)
(* Every error path.                                                       *)
(***************************************************************************)
\* Whatever step fails, the journal it leaves behind is sound.
LEMMA FailKeeps ==
  ASSUME IInv, Fail, pc \in Running \ {"abandon"}
  PROVE  IInv'
<1>1. /\ AfterError \in {"discarded", "quarantined", "cleanup.start",
                         "recoverable"}
      /\ pc = "root.pin" => AfterError = "quarantined"
      /\ pc = "entry.pin" => AfterError = "cleanup.start"
      /\ pc \in {"cleanup.start", "cleanup.finish", "cleanup.refinish"} =>
           AfterError = "recoverable"
  BY DEF AfterError, BeforeEffect, Building
<1>2. TypeOK'
  BY <1>1 DEF IInv, TypeOK, Fail, fsVars, journalVars, historyVars, Step,
     Running, Released, Cleaning
<1>3. CountsAgree'
  BY CountsFrame DEF IInv, JournalIsSound, Fail, journalVars
<1>4. Tracked'
  BY <1>1 DEF IInv, JournalIsSound, Tracked, CursorInRange, PhaseFollowsStep,
     UnidentifiedIsStuck, IdentityIsOwn, Fail, fsVars, journalVars, historyVars,
     Running, Building, Cleaning, BeforeEffect
<1>5. QED
  BY <1>2, <1>3, <1>4 DEF IInv, JournalIsSound, Tracked

LEMMA PreflightKeeps ==
  ASSUME IInv, Preflight
  PROVE  IInv'
<1>1. CASE Fail
  <2>1. pc \in Running \ {"abandon"}
    BY DEF Preflight, Running, BeforeEffect, Building, Cleaning
  <2>2. QED
    BY <1>1, <2>1, FailKeeps
<1>2. CASE ~Fail
  <2>0. pc' \in Step
    BY <1>2, StepNames, ErrorTargets DEF IInv, TypeOK, Preflight, Building,
       Cleaning,
       BeforeEffect, Released
  <2>1. TypeOK'
    BY <1>2, <2>0, PlanFacts DEF IInv, JournalIsSound, CursorInRange, TypeOK,
       Preflight,
       fsVars, journalVars, historyVars, EntryPhase, Look
  <2>2. CountsAgree'
    BY <1>2, PlanFacts, CountsFrame DEF IInv, JournalIsSound, CursorInRange,
       PhaseFollowsStep, TypeOK, Preflight, fsVars, journalVars, historyVars,
       Pinned
  <2>3. Tracked'
    BY <1>2, PlanFacts DEF IInv, JournalIsSound, TypeOK, Tracked, CursorInRange,
       PhaseFollowsStep, UnidentifiedIsStuck, IdentityIsOwn, Preflight,
       fsVars, journalVars, historyVars, Pinned
  <2>4. QED
    BY <2>1, <2>2, <2>3 DEF IInv, JournalIsSound, Tracked
<1>3. QED
  BY <1>1, <1>2

LEMMA MakeRootKeeps ==
  ASSUME IInv, MakeRoot
  PROVE  IInv'
<1>1. CASE Fail
  <2>1. pc \in Running \ {"abandon"}
    BY DEF MakeRoot, Running, BeforeEffect, Building, Cleaning
  <2>2. QED
    BY <1>1, <2>1, FailKeeps
<1>2. CASE ~Fail
  <2>0. pc' \in Step
    BY <1>2, StepNames, ErrorTargets DEF IInv, TypeOK, MakeRoot, Building,
       Cleaning,
       BeforeEffect, Released
  <2>a. /\ name' \in [Node -> Object \cup {None}]
       /\ phase' \in [Node -> EntryPhase]
    BY <1>2, PlanFacts DEF IInv, TypeOK, MakeRoot, EntryPhase
  <2>1. TypeOK'
    BY <2>a, <1>2, <2>0, PlanFacts DEF IInv, JournalIsSound, CursorInRange,
       TypeOK, MakeRoot,
       fsVars, journalVars, historyVars, EntryPhase, Look
  <2>2. CountsAgree'
    BY <1>2, PlanFacts, CountsFrame DEF IInv, JournalIsSound, CursorInRange,
       PhaseFollowsStep, TypeOK, MakeRoot, fsVars, journalVars, historyVars,
       Pinned
  <2>3. Tracked'
    BY <1>2, PlanFacts DEF IInv, JournalIsSound, TypeOK, Tracked, CursorInRange,
       PhaseFollowsStep, UnidentifiedIsStuck, IdentityIsOwn, MakeRoot,
       fsVars, journalVars, historyVars, Pinned
  <2>4. QED
    BY <2>1, <2>2, <2>3 DEF IInv, JournalIsSound, Tracked
<1>3. QED
  BY <1>1, <1>2

LEMMA PinRootKeeps ==
  ASSUME IInv, PinRoot
  PROVE  IInv'
<1>1. CASE Fail
  <2>1. pc \in Running \ {"abandon"}
    BY DEF PinRoot, Running, BeforeEffect, Building, Cleaning
  <2>2. QED
    BY <1>1, <2>1, FailKeeps
<1>2. CASE ~Fail
  <2>0. pc' \in Step
    BY <1>2, StepNames, ErrorTargets DEF IInv, TypeOK, PinRoot, Building,
       Cleaning,
       BeforeEffect, Released
  <2>1. TypeOK'
    BY <1>2, <2>0, PlanFacts, ZenonT(40) DEF IInv, JournalIsSound, CursorInRange, TypeOK,
       PinRoot,
       fsVars, journalVars, historyVars, EntryPhase, Look
  <2>2. CountsAgree'
    BY <1>2, PlanFacts, CountsFrame DEF IInv, JournalIsSound, CursorInRange,
       PhaseFollowsStep, TypeOK, PinRoot, fsVars, journalVars, historyVars,
       Pinned
  <2>3. Tracked'
    BY <1>2, PlanFacts DEF IInv, JournalIsSound, TypeOK, Tracked, CursorInRange,
       PhaseFollowsStep, UnidentifiedIsStuck, IdentityIsOwn, PinRoot,
       fsVars, journalVars, historyVars, Pinned
  <2>4. QED
    BY <2>1, <2>2, <2>3 DEF IInv, JournalIsSound, Tracked
<1>3. QED
  BY <1>1, <1>2

LEMMA OpenRootKeeps ==
  ASSUME IInv, OpenRoot
  PROVE  IInv'
<1>0. pc' \in Step
  BY StepNames, ErrorTargets DEF IInv, TypeOK, OpenRoot, Building, Cleaning,
     BeforeEffect, Released
<1>a. look' = [look EXCEPT ![ident[0]] = "rough"]
  BY DEF OpenRoot
<1>b. look' \in [Object -> Look]
  BY <1>a DEF IInv, TypeOK, Look
<1>c. cursor' = 0 \/ cursor' = 1
  BY DEF OpenRoot
<1>d. cursor' \in Nat
  BY <1>c
<1>1. TypeOK'
  BY <1>a, <1>b, <1>c, <1>d, <1>0, PlanFacts DEF IInv, JournalIsSound,
     CursorInRange, TypeOK, OpenRoot,
     fsVars, journalVars, historyVars, EntryPhase, Look
<1>2. CountsAgree'
  BY PlanFacts, CountsFrame DEF IInv, JournalIsSound, CursorInRange,
     PhaseFollowsStep, TypeOK, OpenRoot, AfterError, fsVars, journalVars,
     historyVars, Pinned
<1>3. Tracked'
  BY PlanFacts DEF IInv, JournalIsSound, TypeOK, Tracked, CursorInRange,
     PhaseFollowsStep, UnidentifiedIsStuck, IdentityIsOwn, OpenRoot, AfterError,
     fsVars, journalVars, historyVars, Pinned
<1>4. QED
  BY <1>1, <1>2, <1>3 DEF IInv, JournalIsSound, Tracked

LEMMA MakeEntryKeeps ==
  ASSUME IInv, MakeEntry
  PROVE  IInv'
<1>1. CASE Fail
  <2>1. pc \in Running \ {"abandon"}
    BY DEF MakeEntry, Running, BeforeEffect, Building, Cleaning
  <2>2. QED
    BY <1>1, <2>1, FailKeeps
<1>2. CASE ~Fail
  <2>0. pc' \in Step
    BY <1>2, StepNames, ErrorTargets DEF IInv, TypeOK, MakeEntry, Building,
       Cleaning,
       BeforeEffect, Released
  <2>a. cursor \in Entry /\ Parent[cursor] \in Node /\ cursor \in Object
    BY PlanFacts DEF MakeEntry
  <2>b. name' \in [Node -> Object \cup {None}]
    BY <1>2, <2>a DEF IInv, TypeOK, MakeEntry
  <2>c. phase' \in [Node -> EntryPhase]
    BY <1>2, <2>a DEF IInv, TypeOK, MakeEntry, EntryPhase
  <2>d. created' \in [Node -> Nat]
    BY <1>2, <2>a DEF IInv, TypeOK, MakeEntry
  <2>1. TypeOK'
    BY <2>a, <2>b, <2>c, <2>d, <1>2, <2>0, PlanFacts DEF IInv, JournalIsSound,
       CursorInRange, TypeOK, MakeEntry, MayMake,
       fsVars, journalVars, historyVars, EntryPhase, Look
  <2>2. CountsAgree'
    <3> DEFINE x == IF Kind[cursor] = "file" THEN "creator" ELSE "named"
    <3>1. x \in EntryPhase /\ x # "planned"
      BY DEF EntryPhase
    <3>2. /\ phase[cursor] = "planned"
          /\ phase' = [phase EXCEPT ![cursor] = x]
          /\ created' = [created EXCEPT ![Parent[cursor]] = @ + 1]
      BY <1>2 DEF MakeEntry, MayMake
    <3>3. QED
      BY <2>a, <3>1, <3>2, CountsUp DEF IInv, JournalIsSound
  <2>3. Tracked'
    BY <1>2, PlanFacts DEF IInv, JournalIsSound, TypeOK, Tracked, CursorInRange,
       PhaseFollowsStep, UnidentifiedIsStuck, IdentityIsOwn, MakeEntry, MayMake,
       fsVars, journalVars, historyVars, Pinned
  <2>4. QED
    BY <2>1, <2>2, <2>3 DEF IInv, JournalIsSound, Tracked
<1>3. QED
  BY <1>1, <1>2

LEMMA EntriesMadeKeeps ==
  ASSUME IInv, EntriesMade
  PROVE  IInv'
<1>0. pc' \in Step
  BY StepNames, ErrorTargets DEF IInv, TypeOK, EntriesMade, Building, Cleaning,
     BeforeEffect, Released
<1>1. TypeOK'
  BY <1>0, PlanFacts DEF IInv, JournalIsSound, CursorInRange, TypeOK,
     EntriesMade,
     fsVars, journalVars, historyVars, EntryPhase, Look
<1>2. CountsAgree'
  BY PlanFacts, CountsFrame DEF IInv, JournalIsSound, CursorInRange,
     PhaseFollowsStep, TypeOK, EntriesMade, fsVars, journalVars, historyVars,
     Pinned
<1>3. Tracked'
  BY PlanFacts DEF IInv, JournalIsSound, TypeOK, Tracked, CursorInRange,
     PhaseFollowsStep, UnidentifiedIsStuck, IdentityIsOwn, EntriesMade,
     fsVars, journalVars, historyVars, Pinned
<1>4. QED
  BY <1>1, <1>2, <1>3 DEF IInv, JournalIsSound, Tracked

LEMMA PinEntryKeeps ==
  ASSUME IInv, PinEntry
  PROVE  IInv'
<1>1. CASE Fail
  <2>1. pc \in Running \ {"abandon"}
    BY DEF PinEntry, Running, BeforeEffect, Building, Cleaning
  <2>2. QED
    BY <1>1, <2>1, FailKeeps
<1>2. CASE ~Fail
  <2>0. pc' \in Step
    BY <1>2, StepNames, ErrorTargets DEF IInv, TypeOK, PinEntry, Building,
       Cleaning,
       BeforeEffect, Released
  <2>a. cursor \in Entry /\ cursor \in Node /\ cursor \in Object
    BY PlanFacts DEF IInv, JournalIsSound, CursorInRange, PinEntry
  <2>b. name[cursor] \in Object \cup {None}
    BY <2>a DEF IInv, TypeOK
  <2>c. ident' \in [Node -> Object \cup {None}]
    BY <1>2, <2>a, <2>b DEF IInv, TypeOK, PinEntry
  <2>d. phase' \in [Node -> EntryPhase]
    BY <1>2 DEF IInv, TypeOK, PinEntry, EntryPhase
  <2>1. TypeOK'
    BY <2>a, <2>b, <2>c, <2>d, <1>2, <2>0, PlanFacts DEF IInv, JournalIsSound,
       CursorInRange, TypeOK, PinEntry,
       fsVars, journalVars, historyVars, EntryPhase, Look
  <2>2. CountsAgree'
    BY <1>2, PlanFacts, CountsFrame DEF IInv, JournalIsSound, CursorInRange,
       PhaseFollowsStep, TypeOK, PinEntry, fsVars, journalVars, historyVars,
       Pinned
  <2>3. Tracked'
    BY <1>2, PlanFacts DEF IInv, JournalIsSound, TypeOK, Tracked, CursorInRange,
       PhaseFollowsStep, UnidentifiedIsStuck, IdentityIsOwn, PinEntry,
       fsVars, journalVars, historyVars, Pinned
  <2>4. QED
    BY <2>1, <2>2, <2>3 DEF IInv, JournalIsSound, Tracked
<1>3. QED
  BY <1>1, <1>2

LEMMA FillDirectoryKeeps ==
  ASSUME IInv, FillDirectory
  PROVE  IInv'
<1>0. pc' \in Step
  BY StepNames, ErrorTargets DEF IInv, TypeOK, FillDirectory, Building,
     Cleaning,
     BeforeEffect, Released
<1>a. look' = [look EXCEPT ![ident[cursor]] = "rough"]
  BY DEF FillDirectory
<1>b. look' \in [Object -> Look]
  BY <1>a DEF IInv, TypeOK, Look
<1>c. cursor' = 0 \/ cursor' = cursor + 1
  BY DEF FillDirectory
<1>d. cursor' \in Nat
  BY <1>c DEF IInv, TypeOK
<1>1. TypeOK'
  BY <1>a, <1>b, <1>c, <1>d, <1>0, PlanFacts DEF IInv, JournalIsSound,
     CursorInRange, TypeOK, FillDirectory,
     fsVars, journalVars, historyVars, EntryPhase, Look
<1>2. CountsAgree'
  BY PlanFacts, CountsFrame DEF IInv, JournalIsSound, CursorInRange,
     PhaseFollowsStep, TypeOK, FillDirectory, AfterError, fsVars, journalVars,
     historyVars, Pinned
<1>3. Tracked'
  BY PlanFacts DEF IInv, JournalIsSound, TypeOK, Tracked, CursorInRange,
     PhaseFollowsStep, UnidentifiedIsStuck, IdentityIsOwn, FillDirectory,
     AfterError,
     fsVars, journalVars, historyVars, Pinned
<1>4. QED
  BY <1>1, <1>2, <1>3 DEF IInv, JournalIsSound, Tracked

LEMMA FillRegularKeeps ==
  ASSUME IInv, FillRegular
  PROVE  IInv'
<1>0. pc' \in Step
  BY StepNames, ErrorTargets DEF IInv, TypeOK, FillRegular, Building, Cleaning,
     BeforeEffect, Released
<1>1. TypeOK'
  BY <1>0, PlanFacts DEF IInv, JournalIsSound, CursorInRange, TypeOK,
     FillRegular, Normalized,
     fsVars, journalVars, historyVars, EntryPhase, Look
<1>2. CountsAgree'
  BY PlanFacts, CountsFrame DEF IInv, JournalIsSound, CursorInRange,
     PhaseFollowsStep, TypeOK, FillRegular, Normalized, fsVars, journalVars,
     historyVars, Pinned
<1>3. Tracked'
  BY PlanFacts DEF IInv, JournalIsSound, TypeOK, Tracked, CursorInRange,
     PhaseFollowsStep, UnidentifiedIsStuck, IdentityIsOwn, FillRegular,
     Normalized,
     fsVars, journalVars, historyVars, Pinned
<1>4. QED
  BY <1>1, <1>2, <1>3 DEF IInv, JournalIsSound, Tracked

LEMMA FillLinkKeeps ==
  ASSUME IInv, FillLink
  PROVE  IInv'
<1>1. CASE Fail
  <2>1. pc \in Running \ {"abandon"}
    BY DEF FillLink, Running, BeforeEffect, Building, Cleaning
  <2>2. QED
    BY <1>1, <2>1, FailKeeps
<1>2. CASE ~Fail
  <2>0. pc' \in Step
    BY <1>2, StepNames, ErrorTargets DEF IInv, TypeOK, FillLink, Building,
       Cleaning,
       BeforeEffect, Released
  <2>a. look' \in [Object -> Look]
    BY <1>2, PlanFacts DEF IInv, JournalIsSound, CursorInRange, TypeOK,
       FillLink,
       Normalized, Look
  <2>b. phase' \in [Node -> EntryPhase]
    BY <1>2 DEF IInv, TypeOK, FillLink, EntryPhase
  <2>1. TypeOK'
    BY <2>a, <2>b, <1>2, <2>0, PlanFacts DEF IInv, JournalIsSound,
       CursorInRange, TypeOK, FillLink, Normalized,
       fsVars, journalVars, historyVars, EntryPhase, Look
  <2>2. CountsAgree'
    BY <1>2, PlanFacts, CountsFrame DEF IInv, JournalIsSound, CursorInRange,
       PhaseFollowsStep, TypeOK, FillLink, Normalized, fsVars, journalVars,
       historyVars, Pinned
  <2>3. Tracked'
    BY <1>2, PlanFacts DEF IInv, JournalIsSound, TypeOK, Tracked, CursorInRange,
       PhaseFollowsStep, UnidentifiedIsStuck, IdentityIsOwn, FillLink,
       Normalized,
       fsVars, journalVars, historyVars, Pinned
  <2>4. QED
    BY <2>1, <2>2, <2>3 DEF IInv, JournalIsSound, Tracked
<1>3. QED
  BY <1>1, <1>2

LEMMA SettleEntryKeeps ==
  ASSUME IInv, SettleEntry
  PROVE  IInv'
<1>1. CASE Fail
  <2>1. pc \in Running \ {"abandon"}
    BY DEF SettleEntry, Running, BeforeEffect, Building, Cleaning
  <2>2. QED
    BY <1>1, <2>1, FailKeeps
<1>2. CASE ~Fail
  <2>0. pc' \in Step
    BY <1>2, StepNames, ErrorTargets DEF IInv, TypeOK, SettleEntry, Building,
       Cleaning,
       BeforeEffect, Released
  <2>a. cursor' \in Nat
    BY <1>2 DEF IInv, TypeOK, SettleEntry
  <2>1. TypeOK'
    BY <2>a, <1>2, <2>0, PlanFacts DEF IInv, JournalIsSound, CursorInRange,
       TypeOK, SettleEntry,
       fsVars, journalVars, historyVars, EntryPhase, Look
  <2>2. CountsAgree'
    BY <1>2, PlanFacts, CountsFrame DEF IInv, JournalIsSound, CursorInRange,
       PhaseFollowsStep, TypeOK, SettleEntry, fsVars, journalVars,
       historyVars, Pinned
  <2>3. Tracked'
    BY <1>2, PlanFacts DEF IInv, JournalIsSound, TypeOK, Tracked, CursorInRange,
       PhaseFollowsStep, UnidentifiedIsStuck, IdentityIsOwn, SettleEntry,
       fsVars, journalVars, historyVars, Pinned
  <2>4. QED
    BY <2>1, <2>2, <2>3 DEF IInv, JournalIsSound, Tracked
<1>3. QED
  BY <1>1, <1>2

LEMMA SealDirectoryKeeps ==
  ASSUME IInv, SealDirectory
  PROVE  IInv'
<1>1. CASE Fail
  <2>1. pc \in Running \ {"abandon"}
    BY DEF SealDirectory, Running, BeforeEffect, Building, Cleaning
  <2>2. QED
    BY <1>1, <2>1, FailKeeps
<1>2. CASE ~Fail
  <2>0. pc' \in Step
    BY <1>2, StepNames, ErrorTargets DEF IInv, TypeOK, SealDirectory,
       Building, Cleaning,
       BeforeEffect, Released
  <2>1. TypeOK'
    BY <1>2, <2>0, PlanFacts, ZenonT(40) DEF IInv, JournalIsSound, CursorInRange, TypeOK,
       SealDirectory,
       fsVars, journalVars, historyVars, EntryPhase, Look
  <2>2. CountsAgree'
    BY <1>2, PlanFacts, CountsFrame DEF IInv, JournalIsSound, CursorInRange,
       PhaseFollowsStep, TypeOK, SealDirectory, fsVars, journalVars,
       historyVars, Pinned
  <2>3. Tracked'
    BY <1>2, PlanFacts DEF IInv, JournalIsSound, TypeOK, Tracked, CursorInRange,
       PhaseFollowsStep, UnidentifiedIsStuck, IdentityIsOwn, SealDirectory,
       fsVars, journalVars, historyVars, Pinned
  <2>4. QED
    BY <2>1, <2>2, <2>3 DEF IInv, JournalIsSound, Tracked
<1>3. QED
  BY <1>1, <1>2

LEMMA SealedDirectoryKeeps ==
  ASSUME IInv, SealedDirectory
  PROVE  IInv'
<1>1. CASE Fail
  <2>1. pc \in Running \ {"abandon"}
    BY DEF SealedDirectory, Running, BeforeEffect, Building, Cleaning
  <2>2. QED
    BY <1>1, <2>1, FailKeeps
<1>2. CASE ~Fail
  <2>0. pc' \in Step
    BY <1>2, StepNames, ErrorTargets DEF IInv, TypeOK, SealedDirectory,
       Building, Cleaning,
       BeforeEffect, Released
  <2>a. cursor' \in Nat
    BY <1>2 DEF IInv, TypeOK, SealedDirectory
  <2>1. TypeOK'
    BY <2>a, <1>2, <2>0, PlanFacts DEF IInv, JournalIsSound, CursorInRange,
       TypeOK, SealedDirectory,
       fsVars, journalVars, historyVars, EntryPhase, Look
  <2>2. CountsAgree'
    BY <1>2, PlanFacts, CountsFrame DEF IInv, JournalIsSound, CursorInRange,
       PhaseFollowsStep, TypeOK, SealedDirectory, fsVars, journalVars,
       historyVars, Pinned
  <2>3. Tracked'
    BY <1>2, PlanFacts DEF IInv, JournalIsSound, TypeOK, Tracked, CursorInRange,
       PhaseFollowsStep, UnidentifiedIsStuck, IdentityIsOwn, SealedDirectory,
       fsVars, journalVars, historyVars, Pinned
  <2>4. QED
    BY <2>1, <2>2, <2>3 DEF IInv, JournalIsSound, Tracked
<1>3. QED
  BY <1>1, <1>2

LEMMA DirectoriesSealedKeeps ==
  ASSUME IInv, DirectoriesSealed
  PROVE  IInv'
<1>0. pc' \in Step
  BY StepNames, ErrorTargets DEF IInv, TypeOK, DirectoriesSealed, Building,
     Cleaning,
     BeforeEffect, Released
<1>1. TypeOK'
  BY <1>0, PlanFacts DEF IInv, JournalIsSound, CursorInRange, TypeOK,
     DirectoriesSealed,
     fsVars, journalVars, historyVars, EntryPhase, Look
<1>2. CountsAgree'
  BY PlanFacts, CountsFrame DEF IInv, JournalIsSound, CursorInRange,
     PhaseFollowsStep, TypeOK, DirectoriesSealed, fsVars, journalVars,
     historyVars, Pinned
<1>3. Tracked'
  BY PlanFacts DEF IInv, JournalIsSound, TypeOK, Tracked, CursorInRange,
     PhaseFollowsStep, UnidentifiedIsStuck, IdentityIsOwn, DirectoriesSealed,
     fsVars, journalVars, historyVars, Pinned
<1>4. QED
  BY <1>1, <1>2, <1>3 DEF IInv, JournalIsSound, Tracked

LEMMA SealRootKeeps ==
  ASSUME IInv, SealRoot
  PROVE  IInv'
<1>1. CASE Fail
  <2>1. pc \in Running \ {"abandon"}
    BY DEF SealRoot, Running, BeforeEffect, Building, Cleaning
  <2>2. QED
    BY <1>1, <2>1, FailKeeps
<1>2. CASE ~Fail
  <2>0. pc' \in Step
    BY <1>2, StepNames, ErrorTargets DEF IInv, TypeOK, SealRoot, Building,
       Cleaning,
       BeforeEffect, Released
  <2>1. TypeOK'
    BY <1>2, <2>0, PlanFacts DEF IInv, JournalIsSound, CursorInRange, TypeOK,
       SealRoot,
       fsVars, journalVars, historyVars, EntryPhase, Look
  <2>2. CountsAgree'
    BY <1>2, PlanFacts, CountsFrame DEF IInv, JournalIsSound, CursorInRange,
       PhaseFollowsStep, TypeOK, SealRoot, fsVars, journalVars, historyVars,
       Pinned
  <2>3. Tracked'
    BY <1>2, PlanFacts DEF IInv, JournalIsSound, TypeOK, Tracked, CursorInRange,
       PhaseFollowsStep, UnidentifiedIsStuck, IdentityIsOwn, SealRoot,
       fsVars, journalVars, historyVars, Pinned
  <2>4. QED
    BY <2>1, <2>2, <2>3 DEF IInv, JournalIsSound, Tracked
<1>3. QED
  BY <1>1, <1>2

LEMMA SealedRootKeeps ==
  ASSUME IInv, SealedRoot
  PROVE  IInv'
<1>1. CASE Fail
  <2>1. pc \in Running \ {"abandon"}
    BY DEF SealedRoot, Running, BeforeEffect, Building, Cleaning
  <2>2. QED
    BY <1>1, <2>1, FailKeeps
<1>2. CASE ~Fail
  <2>0. pc' \in Step
    BY <1>2, StepNames, ErrorTargets DEF IInv, TypeOK, SealedRoot, Building,
       Cleaning,
       BeforeEffect, Released
  <2>1. TypeOK'
    BY <1>2, <2>0, PlanFacts DEF IInv, JournalIsSound, CursorInRange, TypeOK,
       SealedRoot,
       fsVars, journalVars, historyVars, EntryPhase, Look
  <2>2. CountsAgree'
    BY <1>2, PlanFacts, CountsFrame DEF IInv, JournalIsSound, CursorInRange,
       PhaseFollowsStep, TypeOK, SealedRoot, fsVars, journalVars, historyVars,
       Pinned
  <2>3. Tracked'
    BY <1>2, PlanFacts DEF IInv, JournalIsSound, TypeOK, Tracked, CursorInRange,
       PhaseFollowsStep, UnidentifiedIsStuck, IdentityIsOwn, SealedRoot,
       fsVars, journalVars, historyVars, Pinned
  <2>4. QED
    BY <2>1, <2>2, <2>3 DEF IInv, JournalIsSound, Tracked
<1>3. QED
  BY <1>1, <1>2

LEMMA MaterializedKeeps ==
  ASSUME IInv, Materialized
  PROVE  IInv'
<1>1. CASE Fail
  <2>1. pc \in Running \ {"abandon"}
    BY DEF Materialized, Running, BeforeEffect, Building, Cleaning
  <2>2. QED
    BY <1>1, <2>1, FailKeeps
<1>2. CASE ~Fail
  <2>0. pc' \in Step
    BY <1>2, StepNames, ErrorTargets DEF IInv, TypeOK, Materialized, Building,
       Cleaning,
       BeforeEffect, Released
  <2>1. TypeOK'
    BY <1>2, <2>0, PlanFacts DEF IInv, JournalIsSound, CursorInRange, TypeOK,
       Materialized,
       fsVars, journalVars, historyVars, EntryPhase, Look
  <2>2. CountsAgree'
    BY <1>2, PlanFacts, CountsFrame DEF IInv, JournalIsSound, CursorInRange,
       PhaseFollowsStep, TypeOK, Materialized, fsVars, journalVars,
       historyVars, Pinned
  <2>3. Tracked'
    BY <1>2, PlanFacts DEF IInv, JournalIsSound, TypeOK, Tracked, CursorInRange,
       PhaseFollowsStep, UnidentifiedIsStuck, IdentityIsOwn, Materialized,
       fsVars, journalVars, historyVars, Pinned
  <2>4. QED
    BY <2>1, <2>2, <2>3 DEF IInv, JournalIsSound, Tracked
<1>3. QED
  BY <1>1, <1>2

LEMMA AuthenticateKeeps ==
  ASSUME IInv, Authenticate
  PROVE  IInv'
<1>1. CASE Fail
  <2>1. pc \in Running \ {"abandon"}
    BY DEF Authenticate, Running, BeforeEffect, Building, Cleaning
  <2>2. QED
    BY <1>1, <2>1, FailKeeps
<1>2. CASE ~Fail
  <2>a. /\ pc = "materialized" /\ pc' = "held"
        /\ UNCHANGED <<fsVars, journalVars, historyVars, cursor, parentFd>>
    BY <1>2 DEF Authenticate
  <2>0. pc' \in Step
    BY <2>a, StepNames
  <2>1. TypeOK'
    BY <2>a, <2>0, PlanFacts DEF IInv, JournalIsSound, CursorInRange, TypeOK,
       fsVars, journalVars, historyVars, EntryPhase, Look
  <2>2. CountsAgree'
    BY <2>a, PlanFacts, CountsFrame DEF IInv, JournalIsSound, CursorInRange,
       PhaseFollowsStep, TypeOK, fsVars, journalVars, historyVars, Pinned
  <2>3. Tracked'
    BY <2>a, PlanFacts DEF IInv, JournalIsSound, TypeOK, Tracked, CursorInRange,
       PhaseFollowsStep, UnidentifiedIsStuck, IdentityIsOwn,
       fsVars, journalVars, historyVars, Pinned
  <2>4. QED
    BY <2>1, <2>2, <2>3 DEF IInv, JournalIsSound, Tracked
<1>3. QED
  BY <1>1, <1>2

LEMMA CleanupKeeps ==
  ASSUME IInv, Cleanup
  PROVE  IInv'
<1>0. pc' \in Step
  BY StepNames, ErrorTargets DEF IInv, TypeOK, Cleanup, Building, Cleaning,
     BeforeEffect, Released
<1>1. TypeOK'
  BY <1>0, PlanFacts DEF IInv, JournalIsSound, CursorInRange, TypeOK, Cleanup,
     fsVars, journalVars, historyVars, EntryPhase, Look
<1>2. CountsAgree'
  BY PlanFacts, CountsFrame DEF IInv, JournalIsSound, CursorInRange,
     PhaseFollowsStep, TypeOK, Cleanup, fsVars, journalVars, historyVars, Pinned
<1>3. Tracked'
  BY PlanFacts DEF IInv, JournalIsSound, TypeOK, Tracked, CursorInRange,
     PhaseFollowsStep, UnidentifiedIsStuck, IdentityIsOwn, Cleanup,
     fsVars, journalVars, historyVars, Pinned
<1>4. QED
  BY <1>1, <1>2, <1>3 DEF IInv, JournalIsSound, Tracked

LEMMA StartCleanupKeeps ==
  ASSUME IInv, StartCleanup
  PROVE  IInv'
<1>0. pc' \in Step
  BY StepNames, ErrorTargets DEF IInv, TypeOK, StartCleanup, Building, Cleaning,
     BeforeEffect, Released
<1>1. TypeOK'
  BY <1>0, PlanFacts DEF IInv, JournalIsSound, CursorInRange, TypeOK,
     StartCleanup,
     fsVars, journalVars, historyVars, EntryPhase, Look
<1>2. CountsAgree'
  BY PlanFacts, CountsFrame DEF IInv, JournalIsSound, CursorInRange,
     PhaseFollowsStep, TypeOK, StartCleanup, fsVars, journalVars, historyVars,
     Pinned
<1>3. Tracked'
  BY PlanFacts DEF IInv, JournalIsSound, TypeOK, Tracked, CursorInRange,
     PhaseFollowsStep, UnidentifiedIsStuck, IdentityIsOwn, StartCleanup,
     fsVars, journalVars, historyVars, Pinned
<1>4. QED
  BY <1>1, <1>2, <1>3 DEF IInv, JournalIsSound, Tracked

LEMMA ReconcileKeeps ==
  ASSUME IInv, Reconcile
  PROVE  IInv'
<1>1. CASE Fail
  <2>1. pc \in Running \ {"abandon"}
    BY DEF Reconcile, Running, BeforeEffect, Building, Cleaning
  <2>2. QED
    BY <1>1, <2>1, FailKeeps
<1>2. CASE ~Fail
  <2>0. pc' \in Step
    BY <1>2, StepNames, ErrorTargets DEF IInv, TypeOK, Reconcile, Building,
       Cleaning,
       BeforeEffect, Released
  <2>a. phase' \in [Node -> EntryPhase]
    BY <1>2 DEF IInv, TypeOK, Reconcile, EntryPhase
  <2>b. ident' \in [Node -> Object \cup {None}]
    BY <1>2, PlanFacts DEF IInv, TypeOK, Reconcile
  <2>1. TypeOK'
    BY <2>a, <2>b, <1>2, <2>0, PlanFacts, ZenonT(40) DEF IInv, JournalIsSound,
       CursorInRange, TypeOK, Reconcile,
       fsVars, journalVars, historyVars, EntryPhase, Look
  <2>2. CountsAgree'
    BY <1>2, PlanFacts, CountsFrame DEF IInv, JournalIsSound, CursorInRange,
       PhaseFollowsStep, TypeOK, Reconcile, fsVars, journalVars, historyVars,
       Pinned
  <2>3. Tracked'
    BY <1>2, PlanFacts DEF IInv, JournalIsSound, TypeOK, Tracked, CursorInRange,
       PhaseFollowsStep, UnidentifiedIsStuck, IdentityIsOwn, Reconcile,
       fsVars, journalVars, historyVars, Pinned
  <2>4. QED
    BY <2>1, <2>2, <2>3 DEF IInv, JournalIsSound, Tracked
<1>3. QED
  BY <1>1, <1>2

LEMMA ValidateRemainingKeeps ==
  ASSUME IInv, ValidateRemaining
  PROVE  IInv'
<1>1. CASE Fail
  <2>1. pc \in Running \ {"abandon"}
    BY DEF ValidateRemaining, Running, BeforeEffect, Building, Cleaning
  <2>2. QED
    BY <1>1, <2>1, FailKeeps
<1>2. CASE ~Fail
  <2>0. pc' \in Step
    BY <1>2, StepNames, ErrorTargets DEF IInv, TypeOK, ValidateRemaining,
       Building, Cleaning,
       BeforeEffect, Released
  <2>1. TypeOK'
    BY <1>2, <2>0, PlanFacts DEF IInv, JournalIsSound, CursorInRange, TypeOK,
       ValidateRemaining,
       fsVars, journalVars, historyVars, EntryPhase, Look
  <2>2. CountsAgree'
    BY <1>2, PlanFacts, CountsFrame DEF IInv, JournalIsSound, CursorInRange,
       PhaseFollowsStep, TypeOK, ValidateRemaining, fsVars, journalVars,
       historyVars, Pinned
  <2>3. Tracked'
    BY <1>2, PlanFacts DEF IInv, JournalIsSound, TypeOK, Tracked, CursorInRange,
       PhaseFollowsStep, UnidentifiedIsStuck, IdentityIsOwn, ValidateRemaining,
       fsVars, journalVars, historyVars, Pinned
  <2>4. QED
    BY <2>1, <2>2, <2>3 DEF IInv, JournalIsSound, Tracked
<1>3. QED
  BY <1>1, <1>2

LEMMA ReopenRootKeeps ==
  ASSUME IInv, ReopenRoot
  PROVE  IInv'
<1>1. CASE Fail
  <2>1. pc \in Running \ {"abandon"}
    BY DEF ReopenRoot, Running, BeforeEffect, Building, Cleaning
  <2>2. QED
    BY <1>1, <2>1, FailKeeps
<1>2. CASE ~Fail
  <2>0. pc' \in Step
    BY <1>2, StepNames, ErrorTargets DEF IInv, TypeOK, ReopenRoot, Building,
       Cleaning,
       BeforeEffect, Released
  <2>1. TypeOK'
    BY <1>2, <2>0, PlanFacts, SizeAssumption DEF IInv, JournalIsSound,
       CursorInRange, TypeOK, ReopenRoot,
       fsVars, journalVars, historyVars, EntryPhase, Look
  <2>2. CountsAgree'
    BY <1>2, PlanFacts, CountsFrame DEF IInv, JournalIsSound, CursorInRange,
       PhaseFollowsStep, TypeOK, ReopenRoot, fsVars, journalVars, historyVars,
       Pinned
  <2>3. Tracked'
    BY <1>2, PlanFacts DEF IInv, JournalIsSound, TypeOK, Tracked, CursorInRange,
       PhaseFollowsStep, UnidentifiedIsStuck, IdentityIsOwn, ReopenRoot,
       fsVars, journalVars, historyVars, Pinned
  <2>4. QED
    BY <2>1, <2>2, <2>3 DEF IInv, JournalIsSound, Tracked
<1>3. QED
  BY <1>1, <1>2

LEMMA ReopenedRootKeeps ==
  ASSUME IInv, ReopenedRoot
  PROVE  IInv'
<1>1. CASE Fail
  <2>1. pc \in Running \ {"abandon"}
    BY DEF ReopenedRoot, Running, BeforeEffect, Building, Cleaning
  <2>2. QED
    BY <1>1, <2>1, FailKeeps
<1>2. CASE ~Fail
  <2>0. pc' \in Step
    BY <1>2, StepNames, ErrorTargets DEF IInv, TypeOK, ReopenedRoot, Building,
       Cleaning,
       BeforeEffect, Released
  <2>1. TypeOK'
    BY <1>2, <2>0, PlanFacts DEF IInv, JournalIsSound, CursorInRange, TypeOK,
       ReopenedRoot,
       fsVars, journalVars, historyVars, EntryPhase, Look
  <2>2. CountsAgree'
    BY <1>2, PlanFacts, CountsFrame DEF IInv, JournalIsSound, CursorInRange,
       PhaseFollowsStep, TypeOK, ReopenedRoot, fsVars, journalVars,
       historyVars, Pinned
  <2>3. Tracked'
    BY <1>2, PlanFacts DEF IInv, JournalIsSound, TypeOK, Tracked, CursorInRange,
       PhaseFollowsStep, UnidentifiedIsStuck, IdentityIsOwn, ReopenedRoot,
       fsVars, journalVars, historyVars, Pinned
  <2>4. QED
    BY <2>1, <2>2, <2>3 DEF IInv, JournalIsSound, Tracked
<1>3. QED
  BY <1>1, <1>2

LEMMA ReopenDirectoryKeeps ==
  ASSUME IInv, ReopenDirectory
  PROVE  IInv'
<1>1. CASE Fail
  <2>1. pc \in Running \ {"abandon"}
    BY DEF ReopenDirectory, Running, BeforeEffect, Building, Cleaning
  <2>2. QED
    BY <1>1, <2>1, FailKeeps
<1>2. CASE ~Fail
  <2>0. pc' \in Step
    BY <1>2, StepNames, ErrorTargets DEF IInv, TypeOK, ReopenDirectory,
       Building, Cleaning,
       BeforeEffect, Released
  <2>1. TypeOK'
    BY <1>2, <2>0, PlanFacts DEF IInv, JournalIsSound, CursorInRange, TypeOK,
       ReopenDirectory,
       fsVars, journalVars, historyVars, EntryPhase, Look
  <2>2. CountsAgree'
    BY <1>2, PlanFacts, CountsFrame DEF IInv, JournalIsSound, CursorInRange,
       PhaseFollowsStep, TypeOK, ReopenDirectory, fsVars, journalVars,
       historyVars, Pinned
  <2>3. Tracked'
    BY <1>2, PlanFacts DEF IInv, JournalIsSound, TypeOK, Tracked, CursorInRange,
       PhaseFollowsStep, UnidentifiedIsStuck, IdentityIsOwn, ReopenDirectory,
       fsVars, journalVars, historyVars, Pinned
  <2>4. QED
    BY <2>1, <2>2, <2>3 DEF IInv, JournalIsSound, Tracked
<1>3. QED
  BY <1>1, <1>2

LEMMA ReopenedDirectoryKeeps ==
  ASSUME IInv, ReopenedDirectory
  PROVE  IInv'
<1>1. CASE Fail
  <2>1. pc \in Running \ {"abandon"}
    BY DEF ReopenedDirectory, Running, BeforeEffect, Building, Cleaning
  <2>2. QED
    BY <1>1, <2>1, FailKeeps
<1>2. CASE ~Fail
  <2>0. pc' \in Step
    BY <1>2, StepNames, ErrorTargets DEF IInv, TypeOK, ReopenedDirectory,
       Building, Cleaning,
       BeforeEffect, Released
  <2>a. cursor \in Nat /\ cursor - 1 \in Nat
    BY DEF IInv, JournalIsSound, CursorInRange, TypeOK, ReopenedDirectory
  <2>1. TypeOK'
    BY <1>2, <2>0, <2>a DEF IInv, JournalIsSound, CursorInRange, TypeOK,
       ReopenedDirectory,
       fsVars, journalVars, historyVars, EntryPhase, Look
  <2>2. CountsAgree'
    BY <1>2, PlanFacts, CountsFrame DEF IInv, JournalIsSound, CursorInRange,
       PhaseFollowsStep, TypeOK, ReopenedDirectory, fsVars, journalVars,
       historyVars, Pinned
  <2>3. Tracked'
    BY <1>2, PlanFacts DEF IInv, JournalIsSound, TypeOK, Tracked, CursorInRange,
       PhaseFollowsStep, UnidentifiedIsStuck, IdentityIsOwn, ReopenedDirectory,
       fsVars, journalVars, historyVars, Pinned
  <2>4. QED
    BY <2>1, <2>2, <2>3 DEF IInv, JournalIsSound, Tracked
<1>3. QED
  BY <1>1, <1>2

LEMMA DirectoriesReopenedKeeps ==
  ASSUME IInv, DirectoriesReopened
  PROVE  IInv'
<1>0. pc' \in Step
  BY StepNames, ErrorTargets DEF IInv, TypeOK, DirectoriesReopened, Building,
     Cleaning,
     BeforeEffect, Released
<1>1. TypeOK'
  BY <1>0, PlanFacts DEF IInv, JournalIsSound, CursorInRange, TypeOK,
     DirectoriesReopened,
     fsVars, journalVars, historyVars, EntryPhase, Look
<1>2. CountsAgree'
  BY PlanFacts, CountsFrame DEF IInv, JournalIsSound, CursorInRange,
     PhaseFollowsStep, TypeOK, DirectoriesReopened, fsVars, journalVars,
     historyVars, Pinned
<1>3. Tracked'
  BY PlanFacts DEF IInv, JournalIsSound, TypeOK, Tracked, CursorInRange,
     PhaseFollowsStep, UnidentifiedIsStuck, IdentityIsOwn, DirectoriesReopened,
     fsVars, journalVars, historyVars, Pinned
<1>4. QED
  BY <1>1, <1>2, <1>3 DEF IInv, JournalIsSound, Tracked

LEMMA RevalidateRemainingKeeps ==
  ASSUME IInv, RevalidateRemaining
  PROVE  IInv'
<1>1. CASE Fail
  <2>1. pc \in Running \ {"abandon"}
    BY DEF RevalidateRemaining, Running, BeforeEffect, Building, Cleaning
  <2>2. QED
    BY <1>1, <2>1, FailKeeps
<1>2. CASE ~Fail
  <2>0. pc' \in Step
    BY <1>2, StepNames, ErrorTargets DEF IInv, TypeOK, RevalidateRemaining,
       Building, Cleaning,
       BeforeEffect, Released
  <2>1. TypeOK'
    BY <1>2, <2>0, PlanFacts, SizeAssumption DEF IInv, JournalIsSound,
       CursorInRange, TypeOK, RevalidateRemaining,
       fsVars, journalVars, historyVars, EntryPhase, Look
  <2>2. CountsAgree'
    BY <1>2, PlanFacts, CountsFrame DEF IInv, JournalIsSound, CursorInRange,
       PhaseFollowsStep, TypeOK, RevalidateRemaining, fsVars, journalVars,
       historyVars, Pinned
  <2>3. Tracked'
    BY <1>2, PlanFacts DEF IInv, JournalIsSound, TypeOK, Tracked, CursorInRange,
       PhaseFollowsStep, UnidentifiedIsStuck, IdentityIsOwn,
       RevalidateRemaining,
       fsVars, journalVars, historyVars, Pinned
  <2>4. QED
    BY <2>1, <2>2, <2>3 DEF IInv, JournalIsSound, Tracked
<1>3. QED
  BY <1>1, <1>2

LEMMA CheckEntryKeeps ==
  ASSUME IInv, CheckEntry
  PROVE  IInv'
<1>1. CASE Fail
  <2>1. pc \in Running \ {"abandon"}
    BY DEF CheckEntry, Running, BeforeEffect, Building, Cleaning
  <2>2. QED
    BY <1>1, <2>1, FailKeeps
<1>2. CASE ~Fail
  <2>0. pc' \in Step
    BY <1>2, StepNames, ErrorTargets DEF IInv, TypeOK, CheckEntry, Building,
       Cleaning,
       BeforeEffect, Released
  <2>1. TypeOK'
    BY <1>2, <2>0, PlanFacts DEF IInv, JournalIsSound, CursorInRange, TypeOK,
       CheckEntry, MayUnlink, OwnedValid, DirAt,
       fsVars, journalVars, historyVars, EntryPhase, Look
  <2>2. CountsAgree'
    BY <1>2, PlanFacts, CountsFrame DEF IInv, JournalIsSound, CursorInRange,
       PhaseFollowsStep, TypeOK, CheckEntry, MayUnlink, OwnedValid, DirAt,
       fsVars, journalVars, historyVars, Pinned
  <2>3. Tracked'
    BY <1>2, PlanFacts DEF IInv, JournalIsSound, TypeOK, Tracked, CursorInRange,
       PhaseFollowsStep, UnidentifiedIsStuck, IdentityIsOwn, CheckEntry,
       MayUnlink, OwnedValid, DirAt,
       fsVars, journalVars, historyVars, Pinned
  <2>4. QED
    BY <2>1, <2>2, <2>3 DEF IInv, JournalIsSound, Tracked
<1>3. QED
  BY <1>1, <1>2

LEMMA UnlinkEntryKeeps ==
  ASSUME IInv, UnlinkEntry
  PROVE  IInv'
<1>1. CASE Fail
  <2>1. pc \in Running \ {"abandon"}
    BY DEF UnlinkEntry, Running, BeforeEffect, Building, Cleaning
  <2>2. QED
    BY <1>1, <2>1, FailKeeps
<1>2. CASE ~Fail
  <2>0. pc' \in Step
    BY <1>2, StepNames, ErrorTargets DEF IInv, TypeOK, UnlinkEntry, Building,
       Cleaning,
       BeforeEffect, Released
  <2>a. cursor \in Entry /\ cursor \in Node /\ phase[cursor] # "planned"
    BY PlanFacts DEF IInv, JournalIsSound, CursorInRange, PhaseFollowsStep,
       UnlinkEntry, Pinned
  <2>b. /\ phase' = [phase EXCEPT ![cursor] = "planned"]
       /\ created' = [created EXCEPT ![Parent[cursor]] = @ - 1]
    BY <1>2 DEF UnlinkEntry, ForgetEntry
  <2>c. created' \in [Node -> Nat] /\ CountsAgree'
    BY <2>a, <2>b, CountsDown DEF IInv, JournalIsSound
  <2>d. phase' \in [Node -> EntryPhase]
    BY <2>b DEF IInv, TypeOK, EntryPhase
  <2>e. name' \in [Node -> Object \cup {None}]
    BY <1>2 DEF IInv, TypeOK, UnlinkEntry
  <2>f. UNCHANGED <<look, extra, parentNamed, finalTaken, historyVars, cursor,
                    parentFd, ident, cleanupStarted, rootUnlinked>>
    BY <1>2 DEF UnlinkEntry, ForgetEntry
  <2>1. TypeOK'
    BY <2>0, <2>c, <2>d, <2>e, <2>f DEF IInv, TypeOK, historyVars
  <2>2. CountsAgree'
    BY <2>c
  <2>3. Tracked'
    BY <1>2, PlanFacts DEF IInv, JournalIsSound, TypeOK, Tracked, CursorInRange,
       PhaseFollowsStep, UnidentifiedIsStuck, IdentityIsOwn, UnlinkEntry,
       ForgetEntry,
       fsVars, journalVars, historyVars, Pinned
  <2>4. QED
    BY <2>1, <2>2, <2>3 DEF IInv, JournalIsSound, Tracked
<1>3. QED
  BY <1>1, <1>2

LEMMA EntryAbsentKeeps ==
  ASSUME IInv, EntryAbsent
  PROVE  IInv'
<1>1. CASE Fail
  <2>1. pc \in Running \ {"abandon"}
    BY DEF EntryAbsent, Running, BeforeEffect, Building, Cleaning
  <2>2. QED
    BY <1>1, <2>1, FailKeeps
<1>2. CASE ~Fail
  <2>0. pc' \in Step
    BY <1>2, StepNames, ErrorTargets DEF IInv, TypeOK, EntryAbsent, Building,
       Cleaning,
       BeforeEffect, Released
  <2>a. cursor \in Nat /\ cursor - 1 \in Nat
    BY DEF IInv, JournalIsSound, CursorInRange, TypeOK, EntryAbsent, Entry
  <2>1. TypeOK'
    BY <1>2, <2>0, <2>a DEF IInv, JournalIsSound, CursorInRange, TypeOK,
       EntryAbsent,
       fsVars, journalVars, historyVars, EntryPhase, Look
  <2>2. CountsAgree'
    BY <1>2, PlanFacts, CountsFrame DEF IInv, JournalIsSound, CursorInRange,
       PhaseFollowsStep, TypeOK, EntryAbsent, fsVars, journalVars,
       historyVars, Pinned
  <2>3. Tracked'
    BY <1>2, PlanFacts DEF IInv, JournalIsSound, TypeOK, Tracked, CursorInRange,
       PhaseFollowsStep, UnidentifiedIsStuck, IdentityIsOwn, EntryAbsent,
       fsVars, journalVars, historyVars, Pinned
  <2>4. QED
    BY <2>1, <2>2, <2>3 DEF IInv, JournalIsSound, Tracked
<1>3. QED
  BY <1>1, <1>2

LEMMA EntriesUnlinkedKeeps ==
  ASSUME IInv, EntriesUnlinked
  PROVE  IInv'
<1>0. pc' \in Step
  BY StepNames, ErrorTargets DEF IInv, TypeOK, EntriesUnlinked, Building,
     Cleaning,
     BeforeEffect, Released
<1>1. TypeOK'
  BY <1>0, PlanFacts DEF IInv, JournalIsSound, CursorInRange, TypeOK,
     EntriesUnlinked,
     fsVars, journalVars, historyVars, EntryPhase, Look
<1>2. CountsAgree'
  BY PlanFacts, CountsFrame DEF IInv, JournalIsSound, CursorInRange,
     PhaseFollowsStep, TypeOK, EntriesUnlinked, fsVars, journalVars,
     historyVars, Pinned
<1>3. Tracked'
  BY PlanFacts DEF IInv, JournalIsSound, TypeOK, Tracked, CursorInRange,
     PhaseFollowsStep, UnidentifiedIsStuck, IdentityIsOwn, EntriesUnlinked,
     fsVars, journalVars, historyVars, Pinned
<1>4. QED
  BY <1>1, <1>2, <1>3 DEF IInv, JournalIsSound, Tracked

LEMMA CheckEmptyRootKeeps ==
  ASSUME IInv, CheckEmptyRoot
  PROVE  IInv'
<1>1. CASE Fail
  <2>1. pc \in Running \ {"abandon"}
    BY DEF CheckEmptyRoot, Running, BeforeEffect, Building, Cleaning
  <2>2. QED
    BY <1>1, <2>1, FailKeeps
<1>2. CASE ~Fail
  <2>0. pc' \in Step
    BY <1>2, StepNames, ErrorTargets DEF IInv, TypeOK, CheckEmptyRoot,
       Building, Cleaning,
       BeforeEffect, Released
  <2>1. TypeOK'
    BY <1>2, <2>0, PlanFacts DEF IInv, JournalIsSound, CursorInRange, TypeOK,
       CheckEmptyRoot,
       fsVars, journalVars, historyVars, EntryPhase, Look
  <2>2. CountsAgree'
    BY <1>2, PlanFacts, CountsFrame DEF IInv, JournalIsSound, CursorInRange,
       PhaseFollowsStep, TypeOK, CheckEmptyRoot, fsVars, journalVars,
       historyVars, Pinned
  <2>3. Tracked'
    BY <1>2, PlanFacts DEF IInv, JournalIsSound, TypeOK, Tracked, CursorInRange,
       PhaseFollowsStep, UnidentifiedIsStuck, IdentityIsOwn, CheckEmptyRoot,
       fsVars, journalVars, historyVars, Pinned
  <2>4. QED
    BY <2>1, <2>2, <2>3 DEF IInv, JournalIsSound, Tracked
<1>3. QED
  BY <1>1, <1>2

LEMMA UnlinkRootKeeps ==
  ASSUME IInv, UnlinkRoot
  PROVE  IInv'
<1>1. CASE Fail
  <2>1. pc \in Running \ {"abandon"}
    BY DEF UnlinkRoot, Running, BeforeEffect, Building, Cleaning
  <2>2. QED
    BY <1>1, <2>1, FailKeeps
<1>2. CASE ~Fail
  <2>0. pc' \in Step
    BY <1>2, StepNames, ErrorTargets DEF IInv, TypeOK, UnlinkRoot, Building,
       Cleaning,
       BeforeEffect, Released
  <2>1. TypeOK'
    BY <1>2, <2>0, PlanFacts DEF IInv, JournalIsSound, CursorInRange, TypeOK,
       UnlinkRoot,
       fsVars, journalVars, historyVars, EntryPhase, Look
  <2>2. CountsAgree'
    BY <1>2, PlanFacts, CountsFrame DEF IInv, JournalIsSound, CursorInRange,
       PhaseFollowsStep, TypeOK, UnlinkRoot, fsVars, journalVars, historyVars,
       Pinned
  <2>3. Tracked'
    BY <1>2, PlanFacts DEF IInv, JournalIsSound, TypeOK, Tracked, CursorInRange,
       PhaseFollowsStep, UnidentifiedIsStuck, IdentityIsOwn, UnlinkRoot,
       fsVars, journalVars, historyVars, Pinned
  <2>4. QED
    BY <2>1, <2>2, <2>3 DEF IInv, JournalIsSound, Tracked
<1>3. QED
  BY <1>1, <1>2

LEMMA FinishCleanupKeeps ==
  ASSUME IInv, FinishCleanup
  PROVE  IInv'
<1>1. CASE Fail
  <2>1. pc \in Running \ {"abandon"}
    BY DEF FinishCleanup, Running, BeforeEffect, Building, Cleaning
  <2>2. QED
    BY <1>1, <2>1, FailKeeps
<1>2. CASE ~Fail
  <2>0. pc' \in Step
    BY <1>2, StepNames, ErrorTargets DEF IInv, TypeOK, FinishCleanup,
       Building, Cleaning,
       BeforeEffect, Released
  <2>1. TypeOK'
    BY <1>2, <2>0, PlanFacts DEF IInv, JournalIsSound, CursorInRange, TypeOK,
       FinishCleanup,
       fsVars, journalVars, historyVars, EntryPhase, Look
  <2>2. CountsAgree'
    BY <1>2, PlanFacts, CountsFrame DEF IInv, JournalIsSound, CursorInRange,
       PhaseFollowsStep, TypeOK, FinishCleanup, fsVars, journalVars,
       historyVars, Pinned
  <2>3. Tracked'
    BY <1>2, PlanFacts DEF IInv, JournalIsSound, TypeOK, Tracked, CursorInRange,
       PhaseFollowsStep, UnidentifiedIsStuck, IdentityIsOwn, FinishCleanup,
       fsVars, journalVars, historyVars, Pinned
  <2>4. QED
    BY <2>1, <2>2, <2>3 DEF IInv, JournalIsSound, Tracked
<1>3. QED
  BY <1>1, <1>2

LEMMA RefinishCleanupKeeps ==
  ASSUME IInv, RefinishCleanup
  PROVE  IInv'
<1>1. CASE Fail
  <2>1. pc \in Running \ {"abandon"}
    BY DEF RefinishCleanup, Running, BeforeEffect, Building, Cleaning
  <2>2. QED
    BY <1>1, <2>1, FailKeeps
<1>2. CASE ~Fail
  <2>0. pc' \in Step
    BY <1>2, StepNames, ErrorTargets DEF IInv, TypeOK, RefinishCleanup,
       Building, Cleaning,
       BeforeEffect, Released
  <2>1. TypeOK'
    BY <1>2, <2>0, PlanFacts DEF IInv, JournalIsSound, CursorInRange, TypeOK,
       RefinishCleanup,
       fsVars, journalVars, historyVars, EntryPhase, Look
  <2>2. CountsAgree'
    BY <1>2, PlanFacts, CountsFrame DEF IInv, JournalIsSound, CursorInRange,
       PhaseFollowsStep, TypeOK, RefinishCleanup, fsVars, journalVars,
       historyVars, Pinned
  <2>3. Tracked'
    BY <1>2, PlanFacts DEF IInv, JournalIsSound, TypeOK, Tracked, CursorInRange,
       PhaseFollowsStep, UnidentifiedIsStuck, IdentityIsOwn, RefinishCleanup,
       fsVars, journalVars, historyVars, Pinned
  <2>4. QED
    BY <2>1, <2>2, <2>3 DEF IInv, JournalIsSound, Tracked
<1>3. QED
  BY <1>1, <1>2

LEMMA AbandonKeeps ==
  ASSUME IInv, Abandon
  PROVE  IInv'
<1>0. pc' \in Step
  BY StepNames, ErrorTargets DEF IInv, TypeOK, Abandon, Building, Cleaning,
     BeforeEffect, Released
<1>1. TypeOK'
  BY <1>0, PlanFacts DEF IInv, JournalIsSound, CursorInRange, TypeOK, Abandon,
     fsVars, journalVars, historyVars, EntryPhase, Look
<1>2. CountsAgree'
  BY PlanFacts, CountsFrame DEF IInv, JournalIsSound, CursorInRange,
     PhaseFollowsStep, TypeOK, Abandon, fsVars, journalVars, historyVars, Pinned
<1>3. Tracked'
  BY PlanFacts DEF IInv, JournalIsSound, TypeOK, Tracked, CursorInRange,
     PhaseFollowsStep, UnidentifiedIsStuck, IdentityIsOwn, Abandon,
     fsVars, journalVars, historyVars, Pinned
<1>4. QED
  BY <1>1, <1>2, <1>3 DEF IInv, JournalIsSound, Tracked

LEMMA FaultKeeps ==
  ASSUME IInv, Fault
  PROVE  IInv'
<1>1. /\ AfterError \in {"discarded", "quarantined", "cleanup.start",
                         "recoverable"}
      /\ pc = "root.pin" => AfterError = "quarantined"
      /\ pc = "entry.pin" => AfterError = "cleanup.start"
      /\ pc \in {"cleanup.start", "cleanup.finish", "cleanup.refinish"} =>
           AfterError = "recoverable"
  BY DEF AfterError, BeforeEffect, Building
<1>2. /\ pc' = AfterError /\ cursor' = 0 /\ parentFd' = None
      /\ UNCHANGED <<fsVars, phase, ident, created, rootUnlinked, slipped,
                     spoiled, meddles>>
      /\ pc # "closed" /\ pc # "terminal" /\ pc # "abandon"
      /\ pc # "quarantined" /\ pc # "recoverable" /\ pc # "discarded"
  BY DEF Fault, Running, Building, Cleaning, BeforeEffect
<1>3. cleanupStarted' \in BOOLEAN
  BY DEF Fault
<1>4. faults' \in 0..MaxFaults
  BY SizeAssumption DEF Fault, IInv, TypeOK
<1>5. TypeOK'
  BY <1>2, <1>3, <1>4, ErrorTargets DEF IInv, TypeOK, fsVars
<1>6. CountsAgree'
  BY <1>2, CountsFrame DEF IInv, JournalIsSound
<1>7. Tracked'
  BY <1>1, <1>2 DEF IInv, JournalIsSound, Tracked, CursorInRange,
     PhaseFollowsStep, UnidentifiedIsStuck, IdentityIsOwn, fsVars
<1>8. QED
  BY <1>5, <1>6, <1>7 DEF IInv, JournalIsSound, Tracked

LEMMA RefusedKeeps ==
  ASSUME IInv, Refused
  PROVE  IInv'
<1>1. UNCHANGED vars
  BY DEF Refused
<1>2. TypeOK'
  BY <1>1 DEF IInv, TypeOK, vars
<1>3. CountsAgree'
  BY <1>1, CountsFrame DEF IInv, JournalIsSound, vars
<1>4. Tracked'
  BY <1>1 DEF IInv, JournalIsSound, Tracked, CursorInRange, PhaseFollowsStep,
     UnidentifiedIsStuck, IdentityIsOwn, vars
<1>5. QED
  BY <1>2, <1>3, <1>4 DEF IInv, JournalIsSound, Tracked

-----------------------------------------------------------------------------
(***************************************************************************)
(* The outsider.  An intervention keeps the types, and a name it changes   *)
(* in an unguarded window is recorded as slipped.                          *)
(***************************************************************************)
Recorded ==
  /\ slipped \subseteq slipped'
  /\ \A p \in Node : Unguarded(p) =>
       name'[p] \in {name[p],
       None} \cup slipped' \/ (p = 0 /\ name'[p] = ident[0])

FsTyped ==
  /\ name \in [Node -> Object \cup {None}]
  /\ look \in [Object -> Look]
  /\ extra \in SUBSET Node
  /\ parentNamed \in BOOLEAN
  /\ finalTaken \in BOOLEAN
  /\ slipped \in SUBSET Object
  /\ spoiled \in BOOLEAN

LEMMA OutsiderIsAnObject ==
  ASSUME TypeOK, Meddle
  PROVE  Outsider \in Object /\ meddles' \in 0..MaxMeddles
BY SizeAssumption DEF TypeOK, Meddle, Outsider, Object

LEMMA DisplaceIsRecorded ==
  ASSUME TypeOK, Outsider \in Object, Displace
  PROVE  FsTyped' /\ Recorded
<1>1. PICK p \in Node, new \in {None, Outsider}, gone \in BOOLEAN :
        /\ name[p] # None
        /\ name' = [c \in Node |->
                      IF c = p THEN new
                      ELSE IF c \in Below(p) THEN None ELSE name[c]]
        /\ look' = [o \in Object |->
                      IF o = new THEN look[name[p]]
                      ELSE IF gone /\ o = name[p] THEN "unlinked" ELSE look[o]]
        /\ extra' = IF p = 0 THEN extra ELSE extra \ ({p} \cup Below(p))
        /\ slipped' = IF new # None /\ Unguarded(p)
                      THEN slipped \cup {new} ELSE slipped
        /\ spoiled' =
             (spoiled \/ (p # 0 /\ phase[p] \in Pinned /\ ValidationAhead))
        /\ UNCHANGED <<parentNamed, finalTaken>>
  BY SMTT(40), ZenonT(40) DEF Displace
<1>2. name[p] \in Object
  BY <1>1 DEF TypeOK
<1>3. name' \in [Node -> Object \cup {None}]
  BY <1>1 DEF TypeOK
<1>4. look' \in [Object -> Look]
  BY <1>1, <1>2 DEF TypeOK, Look
<1>5. extra' \in SUBSET Node /\ slipped' \in SUBSET Object
  BY <1>1 DEF TypeOK
<1>6. spoiled' \in BOOLEAN
  BY <1>1
<1>7. FsTyped'
  BY <1>1, <1>3, <1>4, <1>5, <1>6 DEF FsTyped, TypeOK
<1>8. Recorded
  BY <1>1 DEF Recorded
<1>9. QED
  BY <1>7, <1>8

LEMMA PlantIsRecorded ==
  ASSUME TypeOK, Outsider \in Object, Plant
  PROVE  FsTyped' /\ Recorded
<1>1. PICK p \in Node, l \in {"rough", "whole"} :
        /\ name' = [name EXCEPT ![p] = Outsider]
        /\ look' = [look EXCEPT ![Outsider] = l]
        /\ slipped' = IF Unguarded(p) THEN slipped \cup {Outsider} ELSE slipped
        /\ UNCHANGED <<extra, parentNamed, finalTaken, spoiled>>
  BY DEF Plant
<1>2. FsTyped'
  BY <1>1 DEF FsTyped, TypeOK, Look
<1>3. Recorded
  BY <1>1 DEF Recorded, TypeOK
<1>4. QED
  BY <1>2, <1>3

LEMMA AlterIsRecorded ==
  ASSUME TypeOK, Alter
  PROVE  FsTyped' /\ Recorded
<1>1. PICK p \in Node, l \in {"tainted", "odd"} :
        /\ look' = [look EXCEPT ![name[p]] = l]
        /\ UNCHANGED <<name, extra, parentNamed, finalTaken, slipped>>
  BY DEF Alter
<1>2. spoiled' \in BOOLEAN
  BY DEF Alter
<1>3. FsTyped'
  BY <1>1, <1>2 DEF FsTyped, TypeOK, Look
<1>4. Recorded
  BY <1>1 DEF Recorded
<1>5. QED
  BY <1>3, <1>4

LEMMA LitterIsRecorded ==
  ASSUME TypeOK, Litter
  PROVE  FsTyped' /\ Recorded
<1>1. PICK d \in Dirs \cup {0} :
        /\ extra' = IF d \in extra THEN extra \ {d} ELSE extra \cup {d}
        /\ UNCHANGED <<name, look, parentNamed, finalTaken, slipped, spoiled>>
  BY DEF Litter
<1>2. d \in Node
  BY PlanFacts DEF Dirs
<1>3. extra' \in SUBSET Node
  BY <1>1, <1>2 DEF TypeOK
<1>4. FsTyped' /\ Recorded
  BY <1>1, <1>3 DEF FsTyped, TypeOK, Recorded
<1>5. QED
  BY <1>4

LEMMA RestoreIsRecorded ==
  ASSUME TypeOK, RestoreRoot
  PROVE  FsTyped' /\ Recorded
<1>1. FsTyped'
  BY PlanFacts DEF RestoreRoot, FsTyped, TypeOK
<1>2. Recorded
  BY PlanFacts DEF RestoreRoot, Recorded, TypeOK
<1>3. QED
  BY <1>1, <1>2

LEMMA ParentMovesAreRecorded ==
  ASSUME TypeOK, MoveParent \/ TakeFinal
  PROVE  FsTyped' /\ Recorded
BY DEF MoveParent, TakeFinal, FsTyped, TypeOK, Recorded

LEMMA InterfereKeeps ==
  ASSUME IInv, Interfere
  PROVE  IInv'
<1>1. /\ Outsider \in Object /\ meddles' \in 0..MaxMeddles
      /\ UNCHANGED <<pc, cursor, journalVars, parentFd, faults>>
  BY OutsiderIsAnObject DEF Interfere, Meddle, IInv
<1>2. FsTyped' /\ Recorded
  BY <1>1, DisplaceIsRecorded, PlantIsRecorded, AlterIsRecorded,
     LitterIsRecorded, RestoreIsRecorded, ParentMovesAreRecorded
     DEF Interfere, IInv
<1>3. TypeOK'
  BY <1>1, <1>2 DEF IInv, TypeOK, FsTyped, journalVars
<1>4. CountsAgree'
  BY <1>1, CountsFrame DEF IInv, JournalIsSound, journalVars
<1>5. CursorInRange' /\ PhaseFollowsStep' /\ UnidentifiedIsStuck'
  BY <1>1 DEF IInv, JournalIsSound, CursorInRange, PhaseFollowsStep,
     UnidentifiedIsStuck, journalVars
<1>6. IdentityIsOwn'
  <2>1. \A p \in Node : (ident[p] \in {p, None} \cup slipped)'
    BY <1>1, <1>2 DEF IInv, JournalIsSound, IdentityIsOwn, Recorded, journalVars
  <2>2. ASSUME pc \in {"root.pin", "cleanup.rmroot"}
        PROVE  (name[0] \in {0, None} \cup slipped)'
    BY <1>2, <2>2, PlanFacts DEF IInv, JournalIsSound, IdentityIsOwn, Recorded,
       Unguarded
  <2>3. ASSUME pc = "entry.pin", Kind[cursor] # "file"
        PROVE  name'[cursor] \in {cursor, None} \cup slipped'
    <3>1. cursor \in Node /\ cursor # 0
      BY <2>3, PlanFacts DEF IInv, JournalIsSound, CursorInRange
    <3>2. QED
      BY <1>2, <2>3, <3>1 DEF IInv, JournalIsSound, IdentityIsOwn, Recorded,
         Unguarded
  <2>4. ASSUME pc = "cleanup.unlink"
        PROVE  name'[cursor] \in {cursor, None} \cup slipped'
    <3>1. cursor \in Node /\ cursor # 0
      BY <2>4, PlanFacts DEF IInv, JournalIsSound, CursorInRange
    <3>2. QED
      BY <1>2, <2>4, <3>1 DEF IInv, JournalIsSound, IdentityIsOwn, Recorded,
         Unguarded
  <2>5. QED
    BY <1>1, <2>1, <2>2, <2>3, <2>4 DEF IdentityIsOwn
<1>7. QED
  BY <1>3, <1>4, <1>5, <1>6 DEF IInv, JournalIsSound

-----------------------------------------------------------------------------
(***************************************************************************)
(* The invariant and what follows from it.                                 *)
(***************************************************************************)
LEMMA InitIsSound == Init => IInv
<1> SUFFICES ASSUME Init PROVE IInv
  OBVIOUS
<1>1. pc = "preflight" /\ pc \in Step
  BY DEF Init, Step, Running, BeforeEffect
<1>2. TypeOK
  <2>1. /\ name \in [Node -> Object \cup {None}]
        /\ ident \in [Node -> Object \cup {None}]
    BY DEF Init
  <2>2. look \in [Object -> Look] /\ phase \in [Node -> EntryPhase]
    BY DEF Init, Look, EntryPhase
  <2>3. created \in [Node -> Nat]
    BY DEF Init
  <2>4. meddles \in 0..MaxMeddles /\ faults \in 0..MaxFaults /\ cursor \in Nat
    BY SizeAssumption DEF Init
  <2>5. /\ extra \in SUBSET Node /\ slipped \in SUBSET Object
        /\ parentFd \in Object \cup {None}
    BY DEF Init
  <2>6. /\ parentNamed \in BOOLEAN /\ finalTaken \in BOOLEAN
        /\ cleanupStarted \in BOOLEAN /\ rootUnlinked \in BOOLEAN
        /\ spoiled \in BOOLEAN
    BY DEF Init
  <2>7. QED
    BY <1>1, <2>1, <2>2, <2>3, <2>4, <2>5, <2>6 DEF TypeOK
<1>3. CountsAgree
  <2> SUFFICES ASSUME NEW d \in Node
               PROVE  created[d] = Cardinality({c \in Children(d) : phase[c] # "planned"})
    BY DEF CountsAgree
  <2>1. {c \in Children(d) : phase[c] # "planned"} = {}
    BY PlanFacts DEF Init, Children
  <2>2. QED
    BY <2>1, FS_EmptySet DEF Init
<1>4. Tracked
  BY <1>1, PlanFacts DEF Init, Tracked, CursorInRange, PhaseFollowsStep,
     UnidentifiedIsStuck,
     IdentityIsOwn
<1>5. QED
  BY <1>2, <1>3, <1>4 DEF IInv, JournalIsSound, Tracked

LEMMA NextIsSound == IInv /\ [Next]_vars => IInv'
<1> SUFFICES ASSUME IInv, [Next]_vars PROVE IInv'
  OBVIOUS
<1>1. CASE Build
  BY <1>1, PreflightKeeps, MakeRootKeeps, PinRootKeeps, OpenRootKeeps,
     MakeEntryKeeps, EntriesMadeKeeps, PinEntryKeeps, FillDirectoryKeeps,
     FillRegularKeeps, FillLinkKeeps, SettleEntryKeeps, SealDirectoryKeeps,
     SealedDirectoryKeeps, DirectoriesSealedKeeps, SealRootKeeps,
     SealedRootKeeps, MaterializedKeeps, AuthenticateKeeps DEF Build
<1>2. CASE CleanUp
  BY <1>2, StartCleanupKeeps, ReconcileKeeps, ValidateRemainingKeeps,
     ReopenRootKeeps, ReopenedRootKeeps, ReopenDirectoryKeeps,
     ReopenedDirectoryKeeps, DirectoriesReopenedKeeps, RevalidateRemainingKeeps,
     CheckEntryKeeps, UnlinkEntryKeeps, EntryAbsentKeeps, EntriesUnlinkedKeeps,
     CheckEmptyRootKeeps, UnlinkRootKeeps, FinishCleanupKeeps,
     RefinishCleanupKeeps, AbandonKeeps DEF CleanUp
<1>3. CASE Cleanup
  BY <1>3, CleanupKeeps
<1>4. CASE Refused
  BY <1>4, RefusedKeeps
<1>5. CASE Fault
  BY <1>5, FaultKeeps
<1>6. CASE Interfere
  BY <1>6, InterfereKeeps
<1>7. CASE UNCHANGED vars
  <2>1. TypeOK'
    BY <1>7 DEF IInv, TypeOK, vars
  <2>2. CountsAgree'
    BY <1>7, CountsFrame DEF IInv, JournalIsSound, vars
  <2>3. Tracked'
    BY <1>7 DEF IInv, JournalIsSound, Tracked, CursorInRange, PhaseFollowsStep,
       UnidentifiedIsStuck, IdentityIsOwn, vars
  <2>4. QED
    BY <2>1, <2>2, <2>3 DEF IInv, JournalIsSound, Tracked
<1>8. QED
  BY <1>1, <1>2, <1>3, <1>4, <1>5, <1>6, <1>7 DEF Next

\* Types and journal together are an invariant of every behaviour.
THEOREM InvariantHolds == Spec => []IInv
BY InitIsSound, NextIsSound, PTL DEF Spec

\* Every variable keeps its type: in particular no count of children, of the
\* root or of a directory, ever goes below zero.
THEOREM RootfsTypeCorrect == Spec => []TypeOK
<1>1. IInv => TypeOK
  BY DEF IInv
<1>2. QED
  BY <1>1, InvariantHolds, PTL

\* For every projection, and after any failures, retries and interventions, the
\* journal's child counts are the numbers of its named entries, what it has
\* not identified is where it can only be refused, and every identity in it is
\* the finalizer's own object or one slipped in through an unguarded window.
THEOREM JournalHolds == Spec => []JournalIsSound
<1>1. IInv => JournalIsSound
  BY DEF IInv
<1>2. QED
  BY <1>1, InvariantHolds, PTL

\* The counting part by itself: checked_sub in cleanup_owned_entry succeeds.
THEOREM CountsHold == Spec => []CountsAgree
<1>1. IInv => CountsAgree
  BY DEF IInv, JournalIsSound
<1>2. QED
  BY <1>1, InvariantHolds, PTL

-----------------------------------------------------------------------------
(***************************************************************************)
(* What is unlinked, and where.                                            *)
(***************************************************************************)
\* Only unlinkat of the entry in hand or of the staging name takes a name away.
LEMMA UnlinksOnlyThere ==
  ASSUME IInv, [Next]_vars, NEW p \in Node, Unlinks(p)
  PROVE  \/ pc = "cleanup.unlink" /\ p = cursor
         \/ pc = "cleanup.rmroot" /\ p = 0
<1>1. meddles' = meddles /\ name[p] # None /\ name'[p] = None /\ name' # name
  BY DEF Unlinks
<1>2. ~Interfere
  <2>1. meddles \in Nat
    BY DEF IInv, TypeOK
  <2>2. QED
    BY <1>1, <2>1 DEF Interfere, Meddle
<1>3. ~Build
  <2>1. CASE MakeRoot
    BY <1>1, <2>1 DEF IInv, TypeOK, MakeRoot, Fail, fsVars
  <2>2. CASE MakeEntry
    BY <1>1, <2>2 DEF IInv, TypeOK, MakeEntry, MayMake, Fail, fsVars
  <2>3. CASE Build /\ ~MakeRoot /\ ~MakeEntry
    BY <1>1, <2>3 DEF Build, Preflight, PinRoot, OpenRoot, EntriesMade,
       PinEntry,
       FillDirectory, FillRegular, FillLink, SettleEntry, SealDirectory,
       SealedDirectory, DirectoriesSealed, SealRoot, SealedRoot, Materialized,
       Authenticate, Fail, fsVars
  <2>4. QED
    BY <2>1, <2>2, <2>3
<1>4. UnlinkEntry \/ UnlinkRoot
  BY <1>1, <1>2, <1>3 DEF Next, Cleanup, CleanUp, StartCleanup, Reconcile,
     ValidateRemaining, ReopenRoot, ReopenedRoot, ReopenDirectory,
     ReopenedDirectory, DirectoriesReopened, RevalidateRemaining, CheckEntry,
     EntryAbsent, EntriesUnlinked, CheckEmptyRoot, FinishCleanup,
     RefinishCleanup, Abandon, Refused, Fault, Fail, fsVars, vars
<1>5. CASE UnlinkEntry
  BY <1>1, <1>5 DEF IInv, TypeOK, UnlinkEntry, Fail, fsVars
<1>6. CASE UnlinkRoot
  BY <1>1, <1>6 DEF IInv, TypeOK, UnlinkRoot, Fail, fsVars
<1>7. QED
  BY <1>4, <1>5, <1>6

\* No call of cleanup, first or retried, unlinks an object the finalizer did not
\* make, unless it came under its name in one of the two unguarded windows.
THEOREM OnlyOwn == Spec => OnlyOwnIsUnlinked
<1>1. ASSUME IInv, [Next]_vars
      PROVE  \A p \in Node : Unlinks(p) => name[p] = p \/ name[p] \in slipped
  <2> SUFFICES ASSUME NEW p \in Node, Unlinks(p)
               PROVE  name[p] = p \/ name[p] \in slipped
    OBVIOUS
  <2>1. \/ pc = "cleanup.unlink" /\ p = cursor
        \/ pc = "cleanup.rmroot" /\ p = 0
    BY <1>1, UnlinksOnlyThere
  <2>2. name[p] # None
    BY DEF Unlinks
  <2>3. QED
    BY <1>1, <2>1, <2>2 DEF IInv, JournalIsSound, IdentityIsOwn
<1>2. QED
  BY <1>1, InvariantHolds, PTL DEF Spec, OnlyOwnIsUnlinked

\* Once the staging root has been unlinked, no retry unlinks anything again,
\* whatever stands at the staging name by then.
THEOREM UnlinkedOnce == Spec => RootIsUnlinkedOnce
<1>1. ASSUME IInv, [Next]_vars
      PROVE  rootUnlinked => \A p \in Node : ~Unlinks(p)
  <2>1. ASSUME rootUnlinked, NEW p \in Node, Unlinks(p) PROVE FALSE
    <3>1. pc \in {"cleanup.unlink", "cleanup.rmroot"}
      BY <1>1, <2>1, UnlinksOnlyThere
    <3>2. QED
      BY <1>1, <2>1, <3>1 DEF IInv, JournalIsSound, UnidentifiedIsStuck
  <2>2. QED
    BY <2>1
<1>2. QED
  BY <1>1, InvariantHolds, PTL DEF Spec, RootIsUnlinkedOnce

\* A name the journal could not identify is never adopted and never unlinked,
\* by no cleanup and no retry, and neither is anything else of its tree.
THEOREM UnidentifiedKept == Spec => UnidentifiedIsKept
<1>1. ASSUME IInv, [Next]_vars, NEW p \in Node, phase[p] = "named",
             pc \notin {"root.pin", "entry.pin"}
      PROVE  phase'[p] = "named" /\ \A q \in Node : ~Unlinks(q)
  <2>1. pc \in {"quarantined", "cleanup.start", "recoverable"}
    BY <1>1 DEF IInv, JournalIsSound, UnidentifiedIsStuck, Node, Entry
  <2>2. \A q \in Node : ~Unlinks(q)
    BY <1>1, <2>1, UnlinksOnlyThere
  <2>3. ~Build
    BY <2>1 DEF Build, Preflight, MakeRoot, PinRoot, OpenRoot, MakeEntry,
       EntriesMade, PinEntry, FillDirectory, FillRegular, FillLink, SettleEntry,
       SealDirectory, SealedDirectory, DirectoriesSealed, SealRoot, SealedRoot,
       Materialized, Authenticate
  <2>4. CleanUp => phase' = phase
    BY <2>1 DEF CleanUp, StartCleanup, Reconcile,
       ValidateRemaining, ReopenRoot, ReopenedRoot, ReopenDirectory,
       ReopenedDirectory, DirectoriesReopened, RevalidateRemaining, CheckEntry,
       UnlinkEntry, EntryAbsent, EntriesUnlinked, CheckEmptyRoot, UnlinkRoot,
       FinishCleanup, RefinishCleanup, Abandon
  <2>5. phase' = phase
    BY <1>1, <2>3, <2>4 DEF Next, Cleanup, Refused, Fault, Interfere, Meddle,
       journalVars, vars
  <2>6. QED
    BY <1>1, <2>2, <2>5
<1>2. ASSUME IInv, [Next]_vars
      PROVE  \A p \in Node :
               phase[p] = "named" /\ pc \notin {"root.pin", "entry.pin"} =>
                 phase'[p] = "named" /\ \A q \in Node : ~Unlinks(q)
  BY <1>1, <1>2
<1>3. QED
  BY <1>2, InvariantHolds, PTL DEF Spec, UnidentifiedIsKept

-----------------------------------------------------------------------------
(***************************************************************************)
(* The loops.                                                              *)
(***************************************************************************)
\* A failing step leaves everything but its place in the code as it was.
LEMMA FailLeads ==
  ASSUME Fail
  PROVE  /\ pc' = AfterError /\ cursor' = 0 /\ parentFd' = None
         /\ UNCHANGED <<name, look, extra, parentNamed, finalTaken, phase, ident,
                        created, cleanupStarted, rootUnlinked, slipped, spoiled,
                        meddles, faults>>
BY DEF Fail, fsVars, journalVars, historyVars

\* Where errors lead, by the step that met them.
LEMMA ErrorLeads ==
  /\ AfterError \in {"discarded", "quarantined", "cleanup.start", "recoverable"}
  /\ AfterError = "discarded" <=> pc \in BeforeEffect
  /\ AfterError = "quarantined" <=> pc = "root.pin"
  /\ AfterError = "cleanup.start" <=> pc \in Building
BY DEF AfterError, BeforeEffect, Building

\* Where the steps are taken.
LEMMA StepsRun ==
  /\ Build => pc \in BeforeEffect \cup {"root.pin"} \cup Building
  /\ CleanUp => pc \in Cleaning
<1>1. Build => pc \in BeforeEffect \cup {"root.pin"} \cup Building
  BY DEF Build, Preflight, MakeRoot, PinRoot, OpenRoot, MakeEntry,
     EntriesMade, PinEntry, FillDirectory, FillRegular, FillLink, SettleEntry,
     SealDirectory, SealedDirectory, DirectoriesSealed, SealRoot, SealedRoot,
     Materialized, Authenticate, BeforeEffect, Building
<1>2. CleanUp => pc \in Cleaning
  BY DEF CleanUp, StartCleanup, Reconcile,
     ValidateRemaining, ReopenRoot, ReopenedRoot, ReopenDirectory,
     ReopenedDirectory, DirectoriesReopened, RevalidateRemaining, CheckEntry,
     UnlinkEntry, EntryAbsent, EntriesUnlinked, CheckEmptyRoot, UnlinkRoot,
     FinishCleanup, RefinishCleanup, Abandon, Cleaning
<1> QED
  BY <1>1, <1>2

\* Which steps change a name or an identity.
LEMMA NamesChangeThere ==
  ASSUME [Next]_vars
  PROVE  \/ UNCHANGED <<name, ident>> \/ Interfere
         \/ (MakeRoot \/ PinRoot \/ MakeEntry \/ PinEntry \/ Reconcile \/ UnlinkEntry
              \/ UnlinkRoot) /\ ~Fail
<1>1. CASE Fail
  BY <1>1, FailLeads
<1>2. CASE Build /\ ~Fail
  BY <1>2 DEF Build, Preflight, OpenRoot, EntriesMade, FillDirectory,
     FillRegular, FillLink, SettleEntry, SealDirectory, SealedDirectory,
     DirectoriesSealed, SealRoot, SealedRoot, Materialized, Authenticate,
     fsVars, journalVars
<1>3. CASE CleanUp /\ ~Fail
  BY <1>3
     DEF CleanUp, StartCleanup, ValidateRemaining, ReopenRoot, ReopenedRoot,
         ReopenDirectory, ReopenedDirectory, DirectoriesReopened,
         RevalidateRemaining, CheckEntry, EntryAbsent, EntriesUnlinked,
         CheckEmptyRoot, FinishCleanup, RefinishCleanup, Abandon, fsVars,
         journalVars
<1>4. CASE Cleanup \/ Refused \/ Fault \/ UNCHANGED vars
  BY <1>4 DEF Cleanup, Refused, Fault, vars, fsVars, journalVars
<1> QED
  BY <1>1, <1>2, <1>3, <1>4 DEF Next

-----------------------------------------------------------------------------
(***************************************************************************)
(* Materialization: what materialize_private returns.                      *)
(***************************************************************************)
\* A pinned position has an identity, surplus names are in directories only, and
\* what the seals have passed is complete.
SealedInOrder ==
  /\ pc \in Building \cup Cleaning \cup {"held", "recoverable"} =>
       phase[0] \in Pinned
  /\ \A p \in Node : phase[p] \in Pinned => ident[p] # None
  /\ extra \subseteq Dirs \cup {0}
  /\ pc = "seal" =>
       /\ cursor >= 1
       /\ \A i \in 1..NumDirs : i < cursor => phase[SealOrder[i]] = "complete"
  /\ pc = "seal.check" =>
       \A i \in 1..NumDirs : i <= cursor => phase[SealOrder[i]] = "complete"
  /\ pc \in {"root.seal", "root.seal.check", "final.check"} =>
       \A d \in Dirs : phase[d] = "complete"

\* Every step keeps the order of the seals.
LEMMA SealKept ==
  ASSUME IInv, SealedInOrder, [Next]_vars
  PROVE  SealedInOrder'
<1>t. /\ phase \in [Node -> EntryPhase] /\ ident \in [Node -> Object \cup {None}]
      /\ name \in [Node -> Object \cup {None}] /\ cursor \in Nat
  BY DEF IInv, TypeOK
<1>c. /\ pc = "entry.pin" => cursor \in Entry
      /\ pc \in {"entry.fill", "entry.settle"} => cursor \in Entry /\ phase[cursor] \in Pinned
      /\ pc = "seal.check" => cursor \in 1..NumDirs
      /\ pc = "cleanup.unlink" => cursor \in Entry
  BY DEF IInv, JournalIsSound, CursorInRange, PhaseFollowsStep
<1> USE PlanFacts, <1>t, <1>c
<1>f. CASE Fail /\ (Build \/ CleanUp)
  <2>1. pc' \in {"cleanup.start", "recoverable"} => pc \in Building \cup Cleaning
    BY <1>f, FailLeads, ErrorLeads, StepsRun
  <2>2. pc' \in {"discarded", "quarantined", "cleanup.start", "recoverable"}
    BY <1>f, FailLeads, ErrorLeads
  <2> QED
    BY <1>f, <2>1, <2>2, FailLeads DEF SealedInOrder, Building, Cleaning
<1>1. CASE Build /\ ~Fail
  <2> USE <1>1
  <2>1. CASE Preflight
    BY <2>1
       DEF Preflight, SealedInOrder, Building, Cleaning, fsVars, journalVars
  <2>2. CASE MakeRoot
    BY <2>2 DEF MakeRoot, SealedInOrder, Building, Cleaning, Pinned
  <2>3. CASE PinRoot
    BY <2>3 DEF PinRoot, SealedInOrder, Building, Cleaning, Pinned, fsVars
  <2>4. CASE OpenRoot
    BY <2>4, ErrorLeads
       DEF OpenRoot, SealedInOrder, Building, Cleaning, journalVars
  <2>5. CASE MakeEntry
    BY <2>5 DEF MakeEntry, SealedInOrder, Building, Cleaning, Pinned
  <2>6. CASE EntriesMade
    BY <2>6
       DEF EntriesMade, SealedInOrder, Building, Cleaning, fsVars, journalVars
  <2>7. CASE PinEntry
    BY <2>7 DEF PinEntry, SealedInOrder, Building, Cleaning, Pinned, fsVars
  <2>8. CASE FillDirectory
    BY <2>8, ErrorLeads
       DEF FillDirectory, SealedInOrder, Building, Cleaning, journalVars
  <2>9. CASE FillRegular
    BY <2>9 DEF FillRegular, SealedInOrder, Building, Cleaning, Pinned
  <2>10. CASE FillLink
    BY <2>10 DEF FillLink, SealedInOrder, Building, Cleaning, Pinned
  <2>11. CASE SettleEntry
    BY <2>11
       DEF SettleEntry, SealedInOrder, Building, Cleaning, fsVars, journalVars
  <2>12. CASE SealDirectory
    <3>1. /\ cursor \in 1..NumDirs
          /\ phase[SealOrder[cursor]] = "identified"
          /\ phase' = [phase EXCEPT ![SealOrder[cursor]] = "complete"]
          /\ pc = "seal" /\ pc' = "seal.check"
          /\ UNCHANGED <<name, extra, ident, cursor>>
      BY <2>12 DEF SealDirectory
    <3> QED
      <4>1. SealOrder[cursor] \in Entry /\ SealOrder[cursor] # 0
        BY <3>1
      <4>2. \A p \in Node : phase'[p] \in Pinned => phase[p] \in Pinned
        BY <3>1, <4>1 DEF Pinned
      <4>3. \A p \in Node : phase[p] = "complete" => phase'[p] = "complete"
        BY <3>1, <4>1
      <4>4. phase'[SealOrder[cursor]] = "complete" /\ phase'[0] = phase[0]
        BY <3>1, <4>1
      <4>5. \A i \in 1..NumDirs : i <= cursor => i < cursor \/ i = cursor
        BY <3>1, SizeAssumption
      <4> QED
        BY <3>1, <4>2, <4>3, <4>4, <4>5 DEF SealedInOrder, Building
  <2>13. CASE SealedDirectory
    BY <2>13, SizeAssumption
       DEF SealedDirectory, SealedInOrder, Building, Cleaning, fsVars,
           journalVars
  <2>14. CASE DirectoriesSealed
    <3>1. \A i \in 1..NumDirs : phase[SealOrder[i]] = "complete"
      BY <2>14, SizeAssumption DEF DirectoriesSealed, SealedInOrder
    <3>2. \A d \in Dirs : phase[d] = "complete"
      BY <3>1, SealOrderAssumption
    <3> QED
      BY <2>14, <3>2
         DEF DirectoriesSealed, SealedInOrder, Building, Cleaning, fsVars,
             journalVars
  <2>15. CASE SealRoot
    BY <2>15 DEF SealRoot, SealedInOrder, Building, Cleaning, Pinned, Dirs
  <2>16. CASE SealedRoot \/ Materialized \/ Authenticate
    BY <2>16
       DEF SealedRoot, Materialized, Authenticate, SealedInOrder, Building,
           Cleaning, fsVars, journalVars
  <2> QED
    BY <2>1, <2>2, <2>3, <2>4, <2>5, <2>6, <2>7, <2>8, <2>9, <2>10, <2>11,
       <2>12,
       <2>13, <2>14, <2>15, <2>16 DEF Build
<1>2. CASE CleanUp /\ ~Fail
  <2> USE <1>2
  <2>1. CASE Reconcile
    BY <2>1 DEF Reconcile, SealedInOrder, Building, Cleaning, Pinned, fsVars
  <2>2. CASE ReopenRoot
    BY <2>2 DEF ReopenRoot, SealedInOrder, Building, Cleaning, Pinned
  <2>3. CASE ReopenDirectory
    BY <2>3
       DEF ReopenDirectory, SealedInOrder, Building, Cleaning, Pinned, fsVars,
           journalVars
  <2>4. CASE UnlinkEntry
    <3>1. /\ pc = "cleanup.unlink" /\ pc' = "cleanup.absent"
          /\ phase' = [phase EXCEPT ![cursor] = "planned"]
          /\ UNCHANGED <<ident, extra, cursor>>
      BY <2>4 DEF UnlinkEntry, ForgetEntry
    <3> QED
      BY <3>1 DEF SealedInOrder, Building, Cleaning, Pinned
  <2>5. CASE UnlinkRoot
    BY <2>5 DEF UnlinkRoot, SealedInOrder, Building, Cleaning
  <2>6. CASE ~(Reconcile \/ ReopenRoot \/ ReopenDirectory \/ UnlinkEntry \/ UnlinkRoot)
    BY <2>6
       DEF CleanUp, StartCleanup, ValidateRemaining, ReopenedRoot,
           ReopenedDirectory, DirectoriesReopened, RevalidateRemaining,
           CheckEntry, EntryAbsent, EntriesUnlinked, CheckEmptyRoot,
           FinishCleanup, RefinishCleanup, Abandon, SealedInOrder, Building,
           Cleaning, fsVars, journalVars
  <2> QED
    BY <2>1, <2>2, <2>3, <2>4, <2>5, <2>6
<1>3. CASE Cleanup
  BY <1>3 DEF Cleanup, fsVars, journalVars, SealedInOrder, Cleaning
<1>6. CASE Refused \/ UNCHANGED vars
  BY <1>6 DEF Refused, vars, SealedInOrder
<1>4. CASE Fault
  <2>1. pc' \in {"cleanup.start", "recoverable"} => pc \in Building \cup Cleaning \cup {"held"}
    BY <1>4, ErrorLeads DEF Fault, Running
  <2>2. pc' \in {"discarded", "quarantined", "cleanup.start", "recoverable"}
    BY <1>4, ErrorLeads DEF Fault
  <2> QED
    BY <1>4, <2>1, <2>2 DEF Fault, fsVars, SealedInOrder, Building, Cleaning
<1>5. CASE Interfere
  <2>1. extra' \subseteq Dirs \cup {0}
    BY <1>5
       DEF SealedInOrder, Interfere, Displace, Plant, Alter, Litter,
           RestoreRoot, MoveParent, TakeFinal
  <2> QED
    BY <1>5, <2>1 DEF Interfere, Meddle, journalVars, SealedInOrder
<1> QED
  BY <1>f, <1>1, <1>2, <1>3, <1>4, <1>5, <1>6 DEF Next

\* Nothing is pinned at first.
LEMMA SealedAtFirst == Init => SealedInOrder
BY PlanFacts DEF Init, SealedInOrder, Pinned, Building, Cleaning

\* materialize_private returns exactly the projected tree, for every projection:
\* comparing only cardinalities misses no surplus name.
THEOREM MaterializedExactly == Spec => MaterializedIsExact
<1>2. Spec => []SealedInOrder
  BY SealedAtFirst, SealKept, InvariantHolds, PTL DEF Spec
<1>3. ASSUME IInv, SealedInOrder, [Next]_vars,
             pc = "final.check", pc' = "materialized"
      PROVE  /\ name[0] = ident[0]
             /\ extra = {}
             /\ \A p \in Entry : name[p] = ident[p] /\ name[p] # None
             /\ \A p \in Node : look[ident[p]] = "whole"
  <2> USE PlanFacts
  <2>1. TreeValid(TRUE)
    <3>1. ~CleanUp
      BY <1>3, StepsRun DEF Cleaning
    <3>2. ~Cleanup /\ ~Refused /\ pc' # pc
      BY <1>3 DEF Cleanup, Refused, Released
    <3>3. ~Fault
      BY <1>3, ErrorLeads DEF Fault
    <3>4. ~Interfere
      BY <3>2 DEF Interfere, Meddle
    <3>5. Build
      BY <1>3, <3>1, <3>2, <3>3, <3>4 DEF Next, vars
    <3>6. Materialized
      BY <1>3, <3>5
         DEF Build, Preflight, MakeRoot, PinRoot, OpenRoot, MakeEntry,
             EntriesMade, PinEntry, FillDirectory, FillRegular, FillLink,
             SettleEntry, SealDirectory, SealedDirectory, DirectoriesSealed,
             SealRoot, SealedRoot, Authenticate
    <3> QED
      BY <1>3, <3>6, FailLeads, ErrorLeads DEF Materialized
  <2>2. /\ name[0] = ident[0] /\ look[ident[0]] = "whole"
        /\ created[0] = Expected(0) /\ Count(0) = created[0]
    BY <2>1 DEF TreeValid, DirectoryValid
  <2>3. ASSUME NEW p \in Entry
        PROVE  /\ name[p] = ident[p] /\ name[p] # None /\ look[ident[p]] = "whole"
               /\ p \in Dirs => created[p] = Expected(p) /\ Count(p) = created[p]
    <3>1. EntryValid(p, TRUE)
      BY <2>1 DEF TreeValid
    <3>2. phase[p] \in Pinned /\ PinnedEntryValid(p) /\ ident[p] # None
      BY <1>3, <3>1 DEF EntryValid, SealedInOrder
    <3>3. CASE Kind[p] = "dir"
      <4>1. p \in Dirs /\ phase[p] = "complete"
        BY <1>3, <3>3 DEF Dirs, SealedInOrder
      <4>2. DirectoryValid(p) /\ created[p] = Expected(p)
        BY <3>1, <3>2, <3>3 DEF PinnedEntryValid, EntryValid
      <4> QED
        BY <3>2, <4>1, <4>2 DEF DirectoryValid, DirAt
    <3>4. CASE Kind[p] # "dir"
      BY <3>1, <3>2, <3>4 DEF EntryValid, PinnedEntryValid, OwnedValid, Dirs
    <3> QED
      BY <3>3, <3>4
  <2>4. ASSUME NEW d \in Dirs \cup {0} PROVE d \notin extra
    <3>1. {c \in Children(d) : name[c] # None} = Children(d)
      BY <2>3 DEF Children
    <3>2. Cardinality(Children(d)) \in Nat
      BY ChildrenFinite
    <3>3. Count(d) = Cardinality(Children(d))
      BY <2>2, <2>3 DEF Expected, Dirs
    <3>4. ASSUME d \in extra PROVE FALSE
      <4>1. Count(d) = Cardinality({c \in Children(d) : name[c] # None}) + 1
        BY <3>4 DEF Count
      <4>2. Count(d) = Cardinality(Children(d)) + 1
        BY <3>1, <4>1, Zenon
      <4> QED
        BY <3>2, <3>3, <4>2
    <3> QED
      BY <3>4
  <2>5. extra = {}
    BY <1>3, <2>4 DEF SealedInOrder
  <2>6. \A p \in Node : p = 0 \/ p \in Entry
    BY SizeAssumption DEF Node, Entry
  <2> QED
    BY <2>2, <2>3, <2>5, <2>6
<1> QED
  BY <1>2, <1>3, InvariantHolds, PTL DEF Spec, MaterializedIsExact

-----------------------------------------------------------------------------
(***************************************************************************)
(* Custody: what is left when it is given up.                              *)
(***************************************************************************)
\* A name in the tree has a directory to be in.
EntriesAreReached ==
  \A p \in Entry : name[p] # None => DirAt(Parent[p]) # None

\* Cleanup unlinks backwards: behind its cursor everything is forgotten, and what
\* is forgotten is gone.  The directory it holds open is the entry's, unless the
\* entry is no longer there.
RemovedInOrder ==
  /\ pc \in BeforeEffect => \A p \in Node : phase[p] = "planned"
  /\ \A p \in Entry : phase[p] = "planned" => name[p] # p
  /\ pc = "cleanup.entry" =>
       cursor \in Node /\ \A p \in Entry : p > cursor => phase[p] = "planned"
  /\ pc = "cleanup.unlink" =>
       /\ \A p \in Entry : p > cursor => phase[p] = "planned"
       /\ DirAt(Parent[cursor]) # parentFd => name[cursor] # cursor
  /\ pc = "cleanup.absent" =>
       \A p \in Entry : p >= cursor => phase[p] = "planned"
  /\ pc \in {"cleanup.rmroot.check", "cleanup.rmroot"} \/ rootUnlinked =>
       \A p \in Entry : phase[p] = "planned"
  /\ pc \in {"cleanup.finish", "cleanup.refinish", "abandon"} => rootUnlinked

\* What is below a child of a displaced directory, or below one of its
\* descendants, is below it.
LEMMA BelowCloses ==
  ASSUME NEW c \in Entry, NEW q \in Entry, Parent[c] = q \/ Parent[c] \in Below(q)
  PROVE  c \in Below(q)
<1> USE PlanFacts
<1>1. SUFFICES ASSUME NEW S \in SUBSET Entry,
                      \A k \in S \cup {c} : Parent[k] \in S \cup {0}
               PROVE  q \in S
  BY DEF Below, AncestorsOf
<1>2. Parent[c] \in S \cup {0}
  BY <1>1
<1>3. CASE Parent[c] = q
  BY <1>2, <1>3
<1>4. CASE Parent[c] \in Below(q)
  <2>1. Parent[c] \in Entry /\ q \in AncestorsOf[Parent[c]]
    BY <1>4 DEF Below
  <2>2. Parent[c] \in S
    BY <1>2, <2>1
  <2>3. \A k \in S \cup {Parent[c]} : Parent[k] \in S \cup {0}
    BY <1>1, <2>2
  <2> QED
    BY <2>1, <2>3 DEF AncestorsOf
<1> QED
  BY <1>3, <1>4

\* A parent comes before its entries, so nothing is below itself.
LEMMA NothingBelowItself ==
  ASSUME NEW p \in Entry
  PROVE  p \notin Below(p)
<1> DEFINE S == {k \in Entry : k < p}
<1>1. \A k \in S \cup {p} : Parent[k] \in S \cup {0}
  <2>1. SUFFICES ASSUME NEW k \in Entry, k < p \/ k = p PROVE Parent[k] \in S \cup {0}
    BY PlanFacts
  <2>2. Parent[k] \in Node /\ Parent[k] < k /\ k \in Nat /\ p \in Nat
    BY PlanFacts, PlanAssumption
  <2>3. Parent[k] = 0 \/ Parent[k] \in Entry
    BY <2>2, SizeAssumption DEF Node, Entry
  <2>a. Parent[k] \in Nat
    BY <2>2, PlanFacts
  <2>4. Parent[k] < p
    BY <2>1, <2>2, <2>a
  <2> QED
    BY <2>3, <2>4
<1>2. p \notin S /\ S \in SUBSET Entry
  BY PlanFacts
<1> HIDE DEF S
<1> QED
  BY <1>1, <1>2 DEF Below, AncestorsOf

\* An intervention does not bring the finalizer's own object back to a position
\* it left, nor move a directory without what it holds.
LEMMA NothingComesBack ==
  ASSUME IInv, EntriesAreReached, Interfere, NEW p \in Entry
  PROVE  /\ name'[p] = p => name[p] = p
         /\ DirAt(Parent[p])' # DirAt(Parent[p]) => name'[p] # p
<1> USE PlanFacts
<1>t. /\ name \in [Node -> Object \cup {None}] /\ ident' = ident
      /\ meddles \in Nat /\ Outsider # p /\ None # p /\ Outsider \notin Node
      /\ p \in Node /\ p # 0
  BY SizeAssumption
     DEF IInv, TypeOK, Interfere, Meddle, journalVars, Outsider, Entry, Node
<1>1. CASE Displace
  <2>1. PICK q \in Node, new \in {None, Outsider} :
          name' = [c \in Node |-> IF c = q THEN new
                                  ELSE IF c \in Below(q) THEN None ELSE name[c]]
    BY <1>1, SMTT(40), ZenonT(40) DEF Displace
  <2>2. name'[p] = p => name[p] = p /\ p # q /\ p \notin Below(q)
    BY <1>t, <2>1
  <2>3. ASSUME DirAt(Parent[p])' # DirAt(Parent[p]), name'[p] = p PROVE FALSE
    <3>1. Parent[p] # 0 /\ name'[Parent[p]] # name[Parent[p]]
      BY <1>t, <2>3 DEF DirAt
    <3>2. Parent[p] = q \/ Parent[p] \in Below(q)
      BY <2>1, <3>1
    <3>3. q \in Entry
      <4>1. q = 0 => Below(q) = {}
        BY SizeAssumption DEF Below, AncestorsOf, Entry
      <4> QED
        BY <3>1, <3>2, <4>1, SizeAssumption DEF Node, Entry
    <3> QED
      BY <2>2, <2>3, <3>2, <3>3, BelowCloses
  <2> QED
    BY <2>2, <2>3
<1>2. CASE Plant
  <2>1. PICK q \in Node : name[q] = None /\ name' = [name EXCEPT ![q] = Outsider]
                          /\ (q # 0 => DirAt(Parent[q]) # None)
    BY <1>2 DEF Plant
  <2>2. name'[p] = p => name[p] = p
    BY <1>t, <2>1
  <2> QED
    BY <1>t, <2>1, <2>2 DEF DirAt, EntriesAreReached
<1>3. CASE RestoreRoot
  BY <1>3, <1>t DEF RestoreRoot, DirAt
<1>4. CASE Alter \/ Litter \/ MoveParent \/ TakeFinal
  BY <1>4, <1>t DEF Alter, Litter, MoveParent, TakeFinal, DirAt
<1> QED
  BY <1>1, <1>2, <1>3, <1>4 DEF Interfere

\* Every step keeps the tree reached: a directory is unlinked only when empty
\* and displaced only with what is below it.
LEMMA ReachKept ==
  ASSUME IInv, EntriesAreReached, [Next]_vars
  PROVE  EntriesAreReached'
<1> USE PlanFacts
<1>t. name \in [Node -> Object \cup {None}] /\ ident \in [Node -> Object \cup {None}]
  BY DEF IInv, TypeOK
<1>1. CASE UNCHANGED <<name, ident>>
  BY <1>1 DEF EntriesAreReached, DirAt
<1>2. CASE MakeRoot /\ ~Fail
  BY <1>2, <1>t DEF MakeRoot, EntriesAreReached, DirAt
<1>3. CASE PinRoot /\ ~Fail
  <2>1. name' = name /\ name[0] # None /\ ident' = [ident EXCEPT ![0] = name[0]]
    BY <1>3 DEF PinRoot, fsVars
  <2> QED
    BY <2>1, <1>t DEF EntriesAreReached, DirAt
<1>4. CASE MakeEntry /\ ~Fail
  <2>1. cursor \in Entry /\ MayMake(cursor) /\ name' = [name EXCEPT ![cursor] = cursor]
        /\ ident' = ident
    BY <1>4 DEF MakeEntry
  <2>2. DirAt(Parent[cursor]) # None
    BY <2>1 DEF MayMake, Writable
  <2> QED
    BY <2>1, <2>2, <1>t DEF EntriesAreReached, DirAt
<1>5. CASE PinEntry /\ ~Fail
  <2>1. cursor \in Entry /\ name' = name /\ ident'[0] = ident[0]
    BY <1>5, <1>t DEF IInv, JournalIsSound, CursorInRange, PinEntry, fsVars
  <2> QED
    BY <2>1 DEF EntriesAreReached, DirAt
<1>6. CASE Reconcile /\ ~Fail
  <2>1. name' = name /\ ident'[0] = ident[0]
    BY <1>6 DEF Reconcile, fsVars
  <2> QED
    BY <2>1 DEF EntriesAreReached, DirAt
<1>7. CASE UnlinkEntry /\ ~Fail
  <2>0. cursor \in Entry /\ ident' = ident
    BY <1>7 DEF IInv, JournalIsSound, CursorInRange, UnlinkEntry, ForgetEntry
  <2>1. CASE name' = name
    BY <1>1, <2>0, <2>1
  <2>2. CASE name' # name
    <3>1. name' = [name EXCEPT ![cursor] = None] /\ (Kind[cursor] = "dir" => Count(cursor) = 0)
      BY <1>7, <2>2 DEF UnlinkEntry
    <3>2. \A p \in Entry : Parent[p] = cursor => name[p] = None
      <4>1. SUFFICES ASSUME Kind[cursor] = "dir", NEW p \in Entry, Parent[p] = cursor
                     PROVE  name[p] = None
        BY <2>0, PlanAssumption
      <4>2. IsFiniteSet({c \in Children(cursor) : name[c] # None})
            /\ Cardinality({c \in Children(cursor) : name[c] # None}) \in Nat
        BY ChildrenFinite
      <4>3. Cardinality({c \in Children(cursor) : name[c] # None}) = 0
        <5>1. CASE cursor \in extra
          <6>1. Count(cursor) = Cardinality({c \in Children(cursor) : name[c] # None}) + 1
            BY <5>1 DEF Count
          <6> QED
            BY <3>1, <4>1, <4>2, <6>1
        <5>2. CASE cursor \notin extra
          <6>1. Count(cursor) = Cardinality({c \in Children(cursor) : name[c] # None}) + 0
            BY <5>2 DEF Count
          <6> QED
            BY <3>1, <4>1, <4>2, <6>1
        <5> QED
          BY <5>1, <5>2
      <4>4. {c \in Children(cursor) : name[c] # None} = {}
        BY <4>2, <4>3, FS_EmptySet
      <4> QED
        BY <4>1, <4>4 DEF Children
    <3> QED
      BY <2>0, <3>1, <3>2, <1>t DEF EntriesAreReached, DirAt
  <2> QED
    BY <2>1, <2>2
<1>8. CASE UnlinkRoot /\ ~Fail
  <2>1. name' = [name EXCEPT ![0] = None] /\ ident' = ident
    BY <1>8 DEF UnlinkRoot
  <2> QED
    BY <2>1, <1>t DEF EntriesAreReached, DirAt
<1>9. CASE Interfere
  <2>t. ident' = ident /\ None # Outsider
    BY <1>9, OutsiderIsAnObject DEF Interfere, Meddle, journalVars, IInv
  <2>1. CASE Displace
    <3>1. PICK q \in Node, new \in {None, Outsider} :
            /\ name[q] # None
            /\ name' = [c \in Node |-> IF c = q THEN new
                                       ELSE IF c \in Below(q) THEN None ELSE name[c]]
      BY <2>1, SMTT(40), ZenonT(40) DEF Displace
    <3>2. SUFFICES ASSUME NEW p \in Entry, name'[p] # None
                   PROVE  DirAt(Parent[p])' # None
      BY DEF EntriesAreReached
    <3>3. name[p] # None /\ DirAt(Parent[p]) # None
      BY <3>1, <3>2 DEF EntriesAreReached
    <3>4. CASE Parent[p] = 0
      BY <2>t, <3>3, <3>4 DEF DirAt
    <3>5. CASE Parent[p] # 0
      <4>1. Parent[p] \in Entry /\ name[Parent[p]] # None
        BY <3>3, <3>5, SizeAssumption DEF DirAt, Node, Entry
      <4>2. Parent[p] \notin Below(q)
        <5>1. ASSUME Parent[p] \in Below(q) PROVE FALSE
          <6>1. q \in Entry
            BY <5>1 DEF Below, AncestorsOf
          <6>2. p \in Below(q)
            BY <5>1, <6>1, BelowCloses
          <6>3. p = q
            BY <3>1, <3>2, <6>2
          <6> QED
            BY <6>2, <6>3, NothingBelowItself
        <5> QED
          BY <5>1
      <4>3. CASE Parent[p] = q
        <5>1. q \in Entry /\ p \in Below(q)
          BY <4>1, <4>3, BelowCloses
        <5>2. p # q
          BY <4>3, PlanAssumption
        <5> QED
          BY <3>1, <3>2, <5>1, <5>2
      <4>4. CASE Parent[p] # q
        BY <3>1, <3>5, <4>1, <4>2, <4>4 DEF DirAt
      <4> QED
        BY <4>3, <4>4
    <3> QED
      BY <3>4, <3>5
  <2>2. CASE Plant
    <3>1. PICK q \in Node : /\ name[q] = None /\ name' = [name EXCEPT ![q] = Outsider]
                            /\ (q # 0 => DirAt(Parent[q]) # None)
      BY <2>2 DEF Plant
    <3> QED
      BY <3>1, <2>t, <1>t DEF EntriesAreReached, DirAt
  <2>3. CASE RestoreRoot
    BY <2>3, <2>t, <1>t DEF RestoreRoot, EntriesAreReached, DirAt
  <2>4. CASE Alter \/ Litter \/ MoveParent \/ TakeFinal
    <3>1. name' = name
      BY <2>4 DEF Alter, Litter, MoveParent, TakeFinal
    <3> QED
      BY <1>1, <2>t, <3>1
  <2> QED
    BY <1>9, <2>1, <2>2, <2>3, <2>4 DEF Interfere
<1> QED
  BY <1>1, <1>2, <1>3, <1>4, <1>5, <1>6, <1>7, <1>8, <1>9, NamesChangeThere

\* Every step keeps the order of the unlinks.
LEMMA RemovalKept ==
  ASSUME IInv, EntriesAreReached, RemovedInOrder, [Next]_vars
  PROVE  RemovedInOrder'
<1> USE PlanFacts
<1>t. /\ phase \in [Node -> EntryPhase] /\ name \in [Node -> Object \cup {None}]
      /\ cursor \in Nat
  BY DEF IInv, TypeOK
<1>c. /\ pc \in {"entry.pin", "cleanup.unlink", "cleanup.absent"} => cursor \in Entry
      /\ pc \in {"entry.fill", "entry.settle"} => cursor \in Entry /\ phase[cursor] \in Pinned
  BY DEF IInv, JournalIsSound, CursorInRange, PhaseFollowsStep
<1>r. rootUnlinked => pc \in {"cleanup.start", "cleanup.finish", "cleanup.refinish",
                             "recoverable", "abandon", "closed", "terminal"}
  BY DEF IInv, JournalIsSound, UnidentifiedIsStuck
<1>a. ASSUME UNCHANGED <<name, phase, rootUnlinked>>,
             pc' \notin BeforeEffect \cup {"cleanup.entry", "cleanup.unlink",
                "cleanup.absent", "cleanup.rmroot.check", "cleanup.rmroot",
                "cleanup.finish", "cleanup.refinish", "abandon"}
      PROVE  RemovedInOrder'
  BY <1>a DEF RemovedInOrder
<1>f. CASE Fail
  <2>1. pc' \in {"discarded", "quarantined", "cleanup.start", "recoverable"}
    BY <1>f, FailLeads, ErrorLeads
  <2> QED
    BY <1>a, <1>f, <2>1, FailLeads DEF BeforeEffect
<1>1. CASE Build /\ ~Fail
  <2>1. pc \notin {"cleanup.start", "cleanup.finish", "cleanup.refinish",
                   "recoverable", "abandon", "closed", "terminal"}
    BY <1>1, StepsRun DEF BeforeEffect, Building
  <2>2. rootUnlinked' = FALSE
    <3>1. rootUnlinked' = rootUnlinked
      BY <1>1
         DEF Build, Preflight, MakeRoot, PinRoot, OpenRoot, MakeEntry,
             EntriesMade, PinEntry, FillDirectory, FillRegular, FillLink,
             SettleEntry, SealDirectory, SealedDirectory, DirectoriesSealed,
             SealRoot, SealedRoot, Materialized, Authenticate, journalVars
    <3> QED
      BY <1>r, <2>1, <3>1 DEF IInv, TypeOK
  <2>3. CASE Preflight
    BY <1>1, <2>2, <2>3
       DEF Preflight, fsVars, journalVars, RemovedInOrder, BeforeEffect
  <2>4. CASE ~Preflight
    <3>1. pc' \in {"root.pin", "cleanup.start", "held"} \cup Building
      BY <1>1, <2>4, ErrorLeads
         DEF Build, MakeRoot, PinRoot, OpenRoot, MakeEntry, EntriesMade,
             PinEntry, FillDirectory, FillRegular, FillLink, SettleEntry,
             SealDirectory, SealedDirectory, DirectoriesSealed, SealRoot,
             SealedRoot, Materialized, Authenticate, Building, BeforeEffect
    <3>2. \A p \in Entry : phase'[p] = "planned" => phase[p] = "planned" /\ name'[p] = name[p]
      <4>1. CASE MakeRoot
        BY <1>1, <1>t, <4>1 DEF MakeRoot
      <4>2. CASE MakeEntry
        BY <1>1, <1>t, <4>2 DEF MakeEntry
      <4>3. CASE PinRoot \/ PinEntry
        BY <1>1, <1>t, <1>c, <4>3 DEF PinRoot, PinEntry, fsVars
      <4>4. CASE FillRegular \/ FillLink
        BY <1>1, <1>t, <1>c, <4>4 DEF FillRegular, FillLink
      <4>5. CASE SealDirectory \/ SealRoot
        BY <1>1, <1>t, <4>5 DEF SealDirectory, SealRoot
      <4>6. CASE OpenRoot \/ EntriesMade \/ FillDirectory \/ SettleEntry \/ SealedDirectory
                 \/ DirectoriesSealed \/ SealedRoot \/ Materialized \/ Authenticate
        BY <1>1, <4>6
           DEF OpenRoot, EntriesMade, FillDirectory, SettleEntry,
               SealedDirectory, DirectoriesSealed, SealedRoot, Materialized,
               Authenticate, fsVars, journalVars
      <4> QED
        BY <1>1, <2>4, <4>1, <4>2, <4>3, <4>4, <4>5, <4>6 DEF Build
    <3> QED
      BY <2>2, <3>1, <3>2 DEF RemovedInOrder, BeforeEffect, Building
  <2> QED
    BY <2>3, <2>4
<1>2. CASE CleanUp /\ ~Fail
  <2>1. CASE StartCleanup
    <3>1. /\ UNCHANGED <<name, phase, rootUnlinked>>
          /\ pc' \in {"cleanup.refinish", "recoverable", "cleanup.reconcile"}
          /\ pc' = "cleanup.refinish" => rootUnlinked
      BY <2>1 DEF StartCleanup, fsVars
    <3> QED
      BY <3>1 DEF RemovedInOrder, BeforeEffect
  <2>2. CASE Reconcile
    <3>1. /\ UNCHANGED <<name, rootUnlinked>> /\ pc = "cleanup.reconcile"
          /\ pc' = "cleanup.validate"
          /\ \A p \in Entry : phase'[p] = "planned" => phase[p] = "planned"
      BY <1>2, <2>2 DEF Reconcile, fsVars
    <3> QED
      BY <1>r, <3>1 DEF RemovedInOrder, BeforeEffect
  <2>3. CASE ReopenRoot
    <3>1. /\ UNCHANGED <<name, rootUnlinked>> /\ pc = "cleanup.root"
          /\ pc' \in {"cleanup.root.check", "cleanup.dirs"}
          /\ \A p \in Entry : phase'[p] = phase[p]
      BY <1>2, <1>t, <2>3 DEF ReopenRoot
    <3> QED
      BY <1>r, <3>1 DEF RemovedInOrder, BeforeEffect
  <2>4. CASE ReopenDirectory
    <3>1. /\ UNCHANGED <<name, rootUnlinked>> /\ pc = "cleanup.dirs"
          /\ pc' \in {"cleanup.dirs", "cleanup.dirs.check"}
          /\ \A p \in Entry : phase'[p] = "planned" => phase[p] = "planned"
      BY <1>2, <1>t, <2>4 DEF ReopenDirectory, fsVars, journalVars
    <3> QED
      BY <1>r, <3>1 DEF RemovedInOrder, BeforeEffect
  <2>5. CASE ValidateRemaining \/ ReopenedRoot \/ ReopenedDirectory \/ DirectoriesReopened
    <3>1. /\ UNCHANGED <<name, phase, rootUnlinked>>
          /\ pc' \in {"cleanup.root", "cleanup.dirs", "cleanup.revalidate"}
      BY <1>2, <2>5 DEF ValidateRemaining, ReopenedRoot, ReopenedDirectory,
         DirectoriesReopened, fsVars, journalVars
    <3> QED
      BY <1>a, <3>1 DEF BeforeEffect
  <2>6. CASE RevalidateRemaining
    <3>1. /\ UNCHANGED <<name, phase, rootUnlinked>>
          /\ pc = "cleanup.revalidate" /\ pc' = "cleanup.entry" /\ cursor' = N
      BY <1>2, <2>6 DEF RevalidateRemaining, fsVars, journalVars
    <3>2. N \in Node /\ \A p \in Entry : ~(p > N)
      BY SizeAssumption DEF Node, Entry
    <3> QED
      BY <1>r, <3>1, <3>2 DEF RemovedInOrder, BeforeEffect
  <2>7. CASE CheckEntry
    <3>1. /\ UNCHANGED <<name, ident, phase, rootUnlinked>>
          /\ pc = "cleanup.entry" /\ cursor \in Entry
          /\ \/ pc' = "cleanup.entry" /\ phase[cursor] = "planned" /\ cursor' = cursor - 1
             \/ pc' = "cleanup.unlink" /\ cursor' = cursor /\ parentFd' = DirAt(Parent[cursor])
      BY <1>2, <2>7 DEF CheckEntry, fsVars, journalVars
    <3>3. CASE pc' = "cleanup.entry"
      <4>1. cursor' \in Node /\ \A p \in Entry : p > cursor' => p > cursor \/ p = cursor
        BY <3>1, <3>3, SizeAssumption DEF Node, Entry
      <4> QED
        BY <1>r, <3>1, <3>3, <4>1 DEF RemovedInOrder, BeforeEffect
    <3>4. CASE pc' = "cleanup.unlink"
      <4>1. (DirAt(Parent[cursor]) = parentFd)'
        BY <3>1, <3>4 DEF DirAt
      <4> QED
        BY <1>r, <3>1, <3>4, <4>1 DEF RemovedInOrder, BeforeEffect
    <3> QED
      BY <3>1, <3>3, <3>4
  <2>8. CASE UnlinkEntry
    <3>1. /\ pc = "cleanup.unlink" /\ pc' = "cleanup.absent"
          /\ phase' = [phase EXCEPT ![cursor] = "planned"]
          /\ name' = IF DirAt(Parent[cursor]) = parentFd
                     THEN [name EXCEPT ![cursor] = None] ELSE name
          /\ UNCHANGED <<cursor, rootUnlinked>>
      BY <1>2, <2>8 DEF UnlinkEntry, ForgetEntry
    <3>2. cursor \in Entry /\ cursor # None
      BY <1>c, <3>1
    <3>3. name'[cursor] # cursor /\ \A p \in Entry : p # cursor => name'[p] = name[p]
      BY <1>t, <3>1, <3>2 DEF RemovedInOrder
    <3>4. \A p \in Entry : phase'[p] = "planned" <=> phase[p] = "planned" \/ p = cursor
      BY <1>t, <3>1, <3>2
    <3>5. \A p \in Entry : p >= cursor => p > cursor \/ p = cursor
      BY <3>2
    <3> QED
      BY <1>r, <3>1, <3>3, <3>4, <3>5 DEF RemovedInOrder, BeforeEffect
  <2>9. CASE EntryAbsent
    <3>1. /\ UNCHANGED <<name, phase, rootUnlinked>>
          /\ pc = "cleanup.absent" /\ pc' = "cleanup.entry" /\ cursor' = cursor - 1
          /\ cursor \in Entry
      BY <1>2, <1>c, <2>9 DEF EntryAbsent, fsVars, journalVars
    <3>2. cursor' \in Node /\ \A p \in Entry : p > cursor' => p >= cursor
      BY <3>1, SizeAssumption DEF Node, Entry
    <3> QED
      BY <1>r, <3>1, <3>2 DEF RemovedInOrder, BeforeEffect
  <2>10. CASE EntriesUnlinked
    <3>1. /\ UNCHANGED <<name, phase, rootUnlinked>>
          /\ pc = "cleanup.entry" /\ pc' = "cleanup.rmroot.check" /\ cursor \notin Entry
      BY <2>10 DEF EntriesUnlinked, fsVars, journalVars
    <3>2. \A p \in Entry : p > cursor
      BY <3>1, SizeAssumption DEF RemovedInOrder, Node, Entry
    <3> QED
      BY <3>1, <3>2 DEF RemovedInOrder, BeforeEffect
  <2>11. CASE CheckEmptyRoot
    BY <1>2, <2>11
       DEF CheckEmptyRoot, fsVars, journalVars, RemovedInOrder, BeforeEffect
  <2>12. CASE UnlinkRoot
    <3>1. /\ phase' = phase /\ rootUnlinked' = TRUE /\ pc = "cleanup.rmroot"
          /\ pc' = "cleanup.finish" /\ name' = [name EXCEPT ![0] = None]
      BY <1>2, <2>12 DEF UnlinkRoot
    <3>2. \A p \in Entry : name'[p] = name[p]
      BY <1>t, <3>1
    <3> QED
      BY <3>1, <3>2 DEF RemovedInOrder, BeforeEffect
  <2>13. CASE FinishCleanup \/ RefinishCleanup
    <3>1. /\ UNCHANGED <<name, phase, rootUnlinked>>
          /\ pc \in {"cleanup.finish", "cleanup.refinish"} /\ pc' = "abandon"
      BY <1>2, <2>13 DEF FinishCleanup, RefinishCleanup, fsVars, journalVars
    <3> QED
      BY <3>1 DEF RemovedInOrder, BeforeEffect
  <2>14. CASE Abandon
    BY <1>a, <2>14 DEF Abandon, fsVars, journalVars, BeforeEffect
  <2> QED
    BY <1>2, <2>1, <2>2, <2>3, <2>4, <2>5, <2>6, <2>7, <2>8, <2>9, <2>10,
       <2>11,
       <2>12, <2>13, <2>14 DEF CleanUp
<1>3. CASE Cleanup
  BY <1>a, <1>3 DEF Cleanup, fsVars, journalVars, BeforeEffect
<1>4. CASE Fault
  <2>1. pc' \in {"discarded", "quarantined", "cleanup.start", "recoverable"}
    BY <1>4, ErrorLeads DEF Fault
  <2> QED
    BY <1>a, <1>4, <2>1 DEF Fault, fsVars, BeforeEffect
<1>5. CASE Interfere
  <2>1. UNCHANGED <<pc, cursor, phase, parentFd, rootUnlinked>>
    BY <1>5 DEF Interfere, Meddle, journalVars
  <2>2. \A p \in Entry : /\ name'[p] = p => name[p] = p
                         /\ DirAt(Parent[p])' # DirAt(Parent[p]) => name'[p] # p
    BY <1>5, NothingComesBack
  <2>3. pc = "cleanup.unlink" => (DirAt(Parent[cursor]) # parentFd => name[cursor] # cursor)'
    <3>1. SUFFICES ASSUME pc = "cleanup.unlink", (DirAt(Parent[cursor]))' # parentFd
                   PROVE  name'[cursor] # cursor
      BY <2>1
    <3>2. cursor \in Entry /\ (DirAt(Parent[cursor]) # parentFd => name[cursor] # cursor)
      BY <1>c, <3>1 DEF RemovedInOrder
    <3>3. name'[cursor] = cursor => name[cursor] = cursor /\ DirAt(Parent[cursor])' = DirAt(Parent[cursor])
      BY <2>1, <2>2, <3>2 DEF DirAt
    <3> QED
      BY <3>1, <3>2, <3>3
  <2> QED
    BY <2>1, <2>2, <2>3 DEF RemovedInOrder
<1>6. CASE Refused \/ UNCHANGED vars
  BY <1>6 DEF Refused, vars, RemovedInOrder, DirAt
<1> QED
  BY <1>f, <1>1, <1>2, <1>3, <1>4, <1>5, <1>6 DEF Next

\* Nothing is named at first.
LEMMA RemovedAtFirst == Init => EntriesAreReached /\ RemovedInOrder
<1>1. Init => EntriesAreReached
  BY PlanFacts DEF Init, EntriesAreReached
<1>2. Init => RemovedInOrder
  BY PlanFacts DEF Init, RemovedInOrder
<1> QED
  BY <1>1, <1>2

\* Custody is given up only before anything was named, or when the staging name
\* is free and the journal and the tree agree that nothing of the finalizer's is
\* left, whatever failed and whoever interfered before.
THEOREM CustodyKept == Spec => CustodyUntilGone
<1>2. Spec => [](EntriesAreReached /\ RemovedInOrder)
  <2>1. IInv /\ (EntriesAreReached /\ RemovedInOrder) /\ [Next]_vars
          => (EntriesAreReached /\ RemovedInOrder)'
    BY ReachKept, RemovalKept
  <2> QED
    BY RemovedAtFirst, <2>1, InvariantHolds, PTL DEF Spec
<1>3. ASSUME IInv, EntriesAreReached /\ RemovedInOrder, [Next]_vars,
             pc' \in Released \cup {"abandon"},
             pc \notin Released \cup {"abandon"}
      PROVE  \/ phase[0] = "planned"
             \/ name[0] = None /\ \A p \in Entry : name[p] # p /\ phase[p] = "planned"
  <2> USE PlanFacts
  <2>1. CASE pc \in BeforeEffect
    BY <1>3, <2>1 DEF RemovedInOrder
  <2>2. CASE pc \notin BeforeEffect
    <3>1. ~Fail /\ ~Fault
      <4>1. AfterError \notin Released \cup {"abandon"}
        BY <2>2, ErrorLeads DEF Released
      <4> QED
        BY <1>3, <4>1, FailLeads DEF Fault
    <3>2. ~Build
      BY <1>3, <2>2, <3>1, ErrorLeads
         DEF Build, Preflight, MakeRoot, PinRoot, OpenRoot, MakeEntry,
             EntriesMade, PinEntry, FillDirectory, FillRegular, FillLink,
             SettleEntry, SealDirectory, SealedDirectory, DirectoriesSealed,
             SealRoot, SealedRoot, Materialized, Authenticate, Released,
             BeforeEffect
    <3>3. ~Cleanup /\ ~Refused /\ ~Interfere /\ pc' # pc
      BY <1>3 DEF Cleanup, Refused, Interfere, Meddle, Released, vars
    <3>4. CleanUp
      BY <1>3, <3>1, <3>2, <3>3 DEF Next, vars
    <3>5. FinishCleanup \/ RefinishCleanup
      BY <1>3, <3>1, <3>4
         DEF CleanUp, StartCleanup, Reconcile, ValidateRemaining, ReopenRoot,
             ReopenedRoot, ReopenDirectory, ReopenedDirectory,
             DirectoriesReopened, RevalidateRemaining, CheckEntry, UnlinkEntry,
             EntryAbsent, EntriesUnlinked, CheckEmptyRoot, UnlinkRoot, Abandon,
             Released
    <3>6. name[0] = None /\ rootUnlinked
      BY <1>3, <3>1, <3>5 DEF FinishCleanup, RefinishCleanup, RemovedInOrder
    <3> QED
      BY <1>3, <3>6 DEF RemovedInOrder
  <2> QED
    BY <2>1, <2>2
<1> QED
  BY <1>2, <1>3, InvariantHolds, PTL DEF Spec, CustodyUntilGone

-----------------------------------------------------------------------------
(***************************************************************************)
(* A spoiled tree: no step mends what an outsider broke.                   *)
(***************************************************************************)
\* The objects brought from outside so far.
Arrived == (N + 1)..(N + meddles)

\* An object is found, by name or in the journal, at one position only.
EachHasItsPlace ==
  /\ \A p \in Node : name[p] \in {p, None} \cup Arrived
  /\ \A p \in Node : ident[p] \in {p, None} \cup Arrived
  /\ \A p, q \in Node : p # q =>
       /\ name[p] = name[q] => name[p] = None
       /\ name[p] = ident[q] => name[p] = None
       /\ ident[p] = ident[q] => ident[p] = None

\* Nothing beyond the entry in hand is pinned, so a directory is opened once.
FilledInOrder ==
  /\ pc \in {"root.pin", "root.open"} => \A p \in Entry : phase[p] = "planned"
  /\ pc \in {"entry.make", "entry.pin"} =>
       \A p \in Entry : phase[p] \in Pinned => p < cursor
  /\ pc \in {"entry.fill", "entry.settle"} =>
       \A p \in Entry : phase[p] \in Pinned => p <= cursor
  /\ pc = "entry.fill" => phase[cursor] = "identified"
  /\ pc = "root.pin" => phase[0] = "named"
  /\ pc = "root.open" => phase[0] = "identified"

\* Position p can no longer pass a validation: another object has its name, or it
\* looks as no journal entry allows.  A directory about to be opened may still be
\* set right.
Broken(p) ==
  /\ phase[p] \in Pinned
  /\ \/ name[p] # ident[p]
     \/ /\ Kind[p] = "dir"
        /\ look[ident[p]] \in {"tainted", "odd"}
        /\ ~(pc = "entry.fill" /\ cursor = p)
     \/ /\ Kind[p] # "dir"
        /\ \/ look[ident[p]] = "odd"
           \/ look[ident[p]] = "tainted" /\ phase[p] = "complete"

\* What was spoiled is still broken, and the cleanup has not passed a validation.
SpoiledStaysBroken ==
  spoiled => ValidationAhead /\ \E p \in Entry : Broken(p)

\* Only an intervention is counted as one.
LEMMA HistoryChangesThere ==
  ASSUME [Next]_vars, ~Interfere
  PROVE  UNCHANGED <<slipped, spoiled, meddles>>
<1>1. CASE Fail
  BY <1>1, FailLeads
<1>2. CASE Build /\ ~Fail
  BY <1>2 DEF Build, Preflight, MakeRoot, PinRoot, OpenRoot, MakeEntry,
     EntriesMade, PinEntry, FillDirectory, FillRegular, FillLink, SettleEntry,
     SealDirectory, SealedDirectory, DirectoriesSealed, SealRoot, SealedRoot,
     Materialized, Authenticate, historyVars
<1>3. CASE CleanUp /\ ~Fail
  BY <1>3
     DEF CleanUp, StartCleanup, Reconcile, ValidateRemaining, ReopenRoot,
         ReopenedRoot, ReopenDirectory, ReopenedDirectory, DirectoriesReopened,
         RevalidateRemaining, CheckEntry, UnlinkEntry, EntryAbsent,
         EntriesUnlinked, CheckEmptyRoot, UnlinkRoot, FinishCleanup,
         RefinishCleanup, Abandon, historyVars
<1>4. CASE Cleanup \/ Refused \/ Fault \/ UNCHANGED vars
  BY <1>4 DEF Cleanup, Refused, Fault, vars, historyVars
<1> QED
  BY <1>1, <1>2, <1>3, <1>4 DEF Next

\* An object keeps the one position it was made or brought for.
LEMMA PlaceKept ==
  ASSUME IInv, EachHasItsPlace, [Next]_vars
  PROVE  EachHasItsPlace'
<1> USE PlanFacts
<1>t. name \in [Node -> Object \cup {None}] /\ ident \in [Node -> Object \cup {None}]
  BY DEF IInv, TypeOK
<1>m. meddles \in Nat /\ N \in Nat
  BY SizeAssumption DEF IInv, TypeOK
<1>n. /\ \A p \in Node : p \notin Arrived /\ p # None
      /\ None \notin Arrived
  BY <1>m, NoneAssumption DEF Node, Arrived
<1>1. CASE UNCHANGED <<name, ident>> /\ ~Interfere
  BY <1>1, HistoryChangesThere DEF EachHasItsPlace, Arrived
<1>2. CASE (MakeRoot \/ PinRoot \/ MakeEntry \/ PinEntry \/ Reconcile \/ UnlinkEntry
             \/ UnlinkRoot) /\ ~Fail /\ ~Interfere
  <2>0. Arrived' = Arrived
    BY <1>2, HistoryChangesThere DEF Arrived
  <2>1. \A p \in Node : /\ name'[p] \in {name[p], p, None}
                        /\ ident'[p] \in {ident[p], p, name[p]}
    <3>1. CASE MakeRoot
      BY <1>2, <1>t, <3>1 DEF MakeRoot
    <3>2. CASE PinRoot
      BY <1>2, <1>t, <3>2 DEF PinRoot, fsVars
    <3>3. CASE MakeEntry
      BY <1>2, <1>t, <3>3 DEF MakeEntry
    <3>4. CASE PinEntry
      BY <1>2, <1>t, <3>4 DEF PinEntry, fsVars
    <3>5. CASE Reconcile
      BY <1>2, <1>t, <3>5 DEF Reconcile, fsVars
    <3>6. CASE UnlinkEntry \/ UnlinkRoot
      BY <1>2, <1>t, <3>6 DEF UnlinkEntry, UnlinkRoot, ForgetEntry
    <3> QED
      BY <1>2, <3>1, <3>2, <3>3, <3>4, <3>5, <3>6
  <2>2. \A p \in Node : /\ name'[p] \in {p, None} \cup Arrived
                        /\ ident'[p] \in {p, None} \cup Arrived
    BY <2>1 DEF EachHasItsPlace
  <2>3. \A p, q \in Node : p # q =>
          /\ name'[p] = name'[q] => name'[p] = None
          /\ name'[p] = ident'[q] => name'[p] = None
          /\ ident'[p] = ident'[q] => ident'[p] = None
    BY <1>n, <2>1, <2>2 DEF EachHasItsPlace
  <2> QED
    BY <2>0, <2>2, <2>3 DEF EachHasItsPlace
<1>3. CASE Interfere
  <2>1. meddles' = meddles + 1 /\ ident' = ident
    BY <1>3 DEF Interfere, Meddle, journalVars
  <2>2. Arrived' = Arrived \cup {Outsider} /\ Outsider \notin Arrived /\ Outsider \notin Node
        /\ Outsider # None
    BY <1>m, <2>1, NoneAssumption DEF Arrived, Outsider, Node
  <2>3. \A p \in Node : ident[p] # Outsider /\ name[p] # Outsider
    BY <2>2 DEF EachHasItsPlace
  <2>4. PICK q \in Node : /\ \A p \in Node \ {q} : name'[p] \in {name[p], None}
                          /\ name'[q] \in {name[q], None, Outsider, ident[q]}
    <3>1. CASE Displace
      BY <1>t, <3>1, SMTT(40) DEF Displace
    <3>2. CASE Plant
      BY <1>t, <3>2 DEF Plant
    <3>3. CASE RestoreRoot
      BY <1>t, <3>3 DEF RestoreRoot
    <3>4. CASE Alter \/ Litter \/ MoveParent \/ TakeFinal
      <4>1. name' = name
        BY <3>4 DEF Alter, Litter, MoveParent, TakeFinal
      <4> QED
        BY <4>1
    <3> QED
      BY <1>3, <3>1, <3>2, <3>3, <3>4 DEF Interfere
  <2>5. \A p \in Node : /\ name'[p] \in {p, None} \cup Arrived'
                        /\ ident'[p] \in {p, None} \cup Arrived'
    BY <2>1, <2>2, <2>4 DEF EachHasItsPlace
  <2>6. \A p, s \in Node : p # s =>
          /\ name'[p] = name'[s] => name'[p] = None
          /\ name'[p] = ident'[s] => name'[p] = None
          /\ ident'[p] = ident'[s] => ident'[p] = None
    BY <2>1, <2>2, <2>3, <2>4 DEF EachHasItsPlace
  <2> QED
    BY <2>5, <2>6 DEF EachHasItsPlace
<1> QED
  BY <1>1, <1>2, <1>3, NamesChangeThere

\* Every step keeps the order in which entries are filled.
LEMMA FillingKept ==
  ASSUME IInv, RemovedInOrder, FilledInOrder, [Next]_vars
  PROVE  FilledInOrder'
<1> USE PlanFacts
<1>t. phase \in [Node -> EntryPhase] /\ cursor \in Nat
  BY DEF IInv, TypeOK
<1>c. pc \in {"entry.pin", "entry.fill", "entry.settle"} => cursor \in Entry
  BY DEF IInv, JournalIsSound, CursorInRange
<1>f. CASE Fail
  BY <1>f, FailLeads, ErrorLeads DEF FilledInOrder
<1>1. CASE Build /\ ~Fail
  <2>1. CASE MakeRoot
    BY <1>1, <1>t, <2>1
       DEF MakeRoot, FilledInOrder, RemovedInOrder, BeforeEffect
  <2>2. CASE PinRoot
    BY <1>1, <1>t, <2>2 DEF PinRoot, FilledInOrder
  <2>3. CASE OpenRoot
    BY <1>1, <2>3, ErrorLeads DEF OpenRoot, journalVars, FilledInOrder, Pinned
  <2>4. CASE MakeEntry
    BY <1>1, <1>t, <2>4 DEF MakeEntry, FilledInOrder, Pinned
  <2>5. CASE PinEntry
    BY <1>1, <1>t, <1>c, <2>5 DEF PinEntry, FilledInOrder
  <2>6. CASE FillDirectory
    BY <1>1, <1>t, <1>c, <2>6, ErrorLeads
       DEF FillDirectory, journalVars, FilledInOrder
  <2>7. CASE FillRegular \/ FillLink
    BY <1>1, <1>t, <1>c, <2>7 DEF FillRegular, FillLink, FilledInOrder
  <2>8. CASE SettleEntry
    <3>1. /\ pc = "entry.settle" /\ pc' = "entry.make" /\ cursor' = cursor + 1
          /\ phase' = phase /\ cursor \in Entry
      BY <1>1, <1>c, <2>8 DEF SettleEntry, journalVars
    <3>2. \A p \in Entry : p <= cursor => p < cursor + 1
      BY <3>1
    <3> QED
      BY <3>1, <3>2 DEF FilledInOrder
  <2>9. CASE Preflight \/ EntriesMade \/ SealDirectory \/ SealedDirectory
             \/ DirectoriesSealed \/ SealRoot \/ SealedRoot \/ Materialized \/ Authenticate
    BY <1>1, <2>9
       DEF Preflight, EntriesMade, SealDirectory, SealedDirectory,
           DirectoriesSealed, SealRoot, SealedRoot, Materialized, Authenticate,
           FilledInOrder
  <2> QED
    BY <1>1, <2>1, <2>2, <2>3, <2>4, <2>5, <2>6, <2>7, <2>8, <2>9 DEF Build
<1>2. CASE CleanUp /\ ~Fail
  BY <1>2
     DEF CleanUp, StartCleanup, Reconcile, ValidateRemaining, ReopenRoot,
         ReopenedRoot, ReopenDirectory, ReopenedDirectory, DirectoriesReopened,
         RevalidateRemaining, CheckEntry, UnlinkEntry, EntryAbsent,
         EntriesUnlinked, CheckEmptyRoot, UnlinkRoot, FinishCleanup,
         RefinishCleanup, Abandon, FilledInOrder
<1>3. CASE Cleanup \/ Fault
  BY <1>3, ErrorLeads DEF Cleanup, Fault, FilledInOrder
<1>4. CASE Refused \/ Interfere \/ UNCHANGED vars
  BY <1>4 DEF Refused, Interfere, Meddle, journalVars, vars, FilledInOrder
<1> QED
  BY <1>f, <1>1, <1>2, <1>3, <1>4 DEF Next

\* A broken entry is refused by every validation of the whole tree.
LEMMA BrokenIsRefused ==
  ASSUME NEW p \in Entry, Broken(p), NEW b, pc # "entry.fill"
  PROVE  ~TreeValid(b)
<1>1. ASSUME TreeValid(b) PROVE FALSE
  <2>1. phase[p] \in Pinned /\ PinnedEntryValid(p)
    BY <1>1 DEF TreeValid, EntryValid, Broken
  <2>2. CASE Kind[p] = "dir"
    BY <2>1, <2>2, PlanFacts
       DEF Broken, PinnedEntryValid, DirectoryValid, DirAt
  <2>3. CASE Kind[p] # "dir"
    BY <2>1, <2>3 DEF Broken, PinnedEntryValid, OwnedValid
  <2> QED
    BY <2>2, <2>3
<1> QED
  BY <1>1

\* What the argument about broken entries rests on.
SpoilInv ==
  SealedInOrder /\ RemovedInOrder /\ EachHasItsPlace /\ FilledInOrder

\* No step of the finalizer mends a broken entry.
LEMMA BrokenIsKept ==
  ASSUME IInv, SpoilInv, [Next]_vars, ~Interfere, ValidationAhead,
         NEW p \in Entry, Broken(p)
  PROVE  Broken(p)' /\ ValidationAhead'
<1> USE PlanFacts
<1>t. /\ phase \in [Node -> EntryPhase] /\ name \in [Node -> Object \cup {None}]
      /\ ident \in [Node -> Object \cup {None}] /\ look \in [Object -> Look]
  BY DEF IInv, TypeOK
<1>p. p \in Node /\ p # 0 /\ phase[p] \in Pinned /\ ident[p] # None /\ ident[p] \in Object
  BY <1>t DEF Broken, SpoilInv, SealedInOrder
<1>c. /\ pc = "entry.pin" => cursor \in Entry /\ phase[cursor] \notin Pinned
      /\ pc \in {"entry.fill", "entry.settle"} => cursor \in Entry
      /\ pc = "entry.fill" => phase[cursor] = "identified"
      /\ ~rootUnlinked
  BY <1>p DEF IInv, JournalIsSound, CursorInRange, PhaseFollowsStep, Pinned,
     SpoilInv, FilledInOrder, RemovedInOrder
<1>d. \A q \in Node : q # p => name[q] # ident[p] /\ ident[q] # ident[p]
  BY <1>p DEF SpoilInv, EachHasItsPlace
<1>v. Kind[p] = "dir" /\ name[p] = ident[p] => ~DirectoryValid(p)
  BY <1>p DEF Broken, DirectoryValid
<1>a. ASSUME name'[p] = name[p], ident'[p] = ident[p], phase'[p] \in Pinned,
             Kind[p] # "dir" => phase'[p] = phase[p] \/ phase'[p] = "complete",
             name[p] = ident[p] => look'[ident[p]] = look[ident[p]],
             pc' = "entry.fill" => cursor' # p
      PROVE  Broken(p)'
  BY <1>a, <1>p DEF Broken
<1>b. ASSUME UNCHANGED <<name, ident, phase, look>>, pc' # "entry.fill"
      PROVE  Broken(p)'
  BY <1>a, <1>b, <1>p
<1>f. CASE Fail
  <2>1. pc' \in {"discarded", "quarantined", "cleanup.start", "recoverable"}
    BY <1>f, FailLeads, ErrorLeads
  <2> QED
    BY <1>b, <1>f, <2>1, FailLeads DEF ValidationAhead
<1>1. CASE Build /\ ~Fail
  <2>0. ValidationAhead'
    BY <1>1, ErrorLeads
       DEF Build, Preflight, MakeRoot, PinRoot, OpenRoot, MakeEntry,
           EntriesMade, PinEntry, FillDirectory, FillRegular, FillLink,
           SettleEntry, SealDirectory, SealedDirectory, DirectoriesSealed,
           SealRoot, SealedRoot, Materialized, Authenticate, ValidationAhead
  <2> SUFFICES Broken(p)'
    BY <2>0
  <2>1. CASE MakeRoot
    BY <1>1, <1>a, <1>p, <1>t, <2>1 DEF MakeRoot
  <2>2. CASE PinRoot
    BY <1>1, <1>a, <1>p, <1>t, <2>2 DEF PinRoot, fsVars
  <2>3. CASE OpenRoot
    <3>1. /\ look' = [look EXCEPT ![ident[0]] = "rough"]
          /\ UNCHANGED <<name, ident, phase>> /\ pc' # "entry.fill"
      BY <2>3, ErrorLeads DEF OpenRoot, journalVars
    <3>2. look'[ident[p]] = look[ident[p]]
      BY <3>1, <1>p, <1>d, <1>t
    <3> QED
      BY <1>a, <1>p, <3>1, <3>2
  <2>4. CASE MakeEntry
    <3>1. /\ cursor # p /\ cursor \in Entry /\ name' = [name EXCEPT ![cursor] = cursor]
          /\ \E ph : phase' = [phase EXCEPT ![cursor] = ph]
          /\ UNCHANGED <<look, ident>> /\ pc' # "entry.fill"
      BY <1>1, <1>p, <2>4 DEF MakeEntry, MayMake, Pinned
    <3> QED
      BY <1>a, <1>p, <1>t, <3>1
  <2>5. CASE PinEntry
    <3>1. /\ cursor # p /\ cursor \in Entry /\ cursor' = cursor
          /\ phase' = [phase EXCEPT ![cursor] = "identified"]
          /\ \E o : ident' = [ident EXCEPT ![cursor] = o]
          /\ UNCHANGED <<look, name>>
      BY <1>1, <1>c, <1>p, <2>5 DEF PinEntry, fsVars
    <3> QED
      BY <1>a, <1>p, <1>t, <3>1
  <2>6. CASE FillDirectory
    <3>1. /\ look' = [look EXCEPT ![ident[cursor]] = "rough"] /\ cursor \in Entry
          /\ UNCHANGED <<name, ident, phase>> /\ pc' # "entry.fill" /\ pc = "entry.fill"
          /\ Kind[cursor] = "dir"
      BY <1>c, <2>6, ErrorLeads DEF FillDirectory, journalVars
    <3>2. name[p] = ident[p] => cursor # p
      BY <3>1 DEF Broken
    <3>3. name[p] = ident[p] => look'[ident[p]] = look[ident[p]]
      BY <3>1, <3>2, <1>p, <1>d, <1>t
    <3> QED
      BY <1>a, <1>p, <3>1, <3>3
  <2>7. CASE FillRegular \/ FillLink
    <3>1. PICK o \in Object : 
          /\ o \in {ident[cursor], name[cursor]}
          /\ look' \in {[look EXCEPT ![o] = Normalized(look[o])],
                       [look EXCEPT ![o] = IF look[o] = "tainted" THEN "whole"
                                           ELSE Normalized(look[o])]}
          /\ phase' = [phase EXCEPT ![cursor] = "complete"]
          /\ cursor \in Entry /\ pc = "entry.fill" /\ pc' = "entry.settle"
          /\ UNCHANGED <<name, ident>> /\ Kind[cursor] # "dir"
      <4>1. CASE FillRegular
        <5>1. ident[cursor] \in Object
          BY <1>c, <1>t, <4>1 DEF FillRegular, SpoilInv, SealedInOrder, Pinned
        <5> QED
          BY <1>c, <4>1, <5>1 DEF FillRegular
      <4>2. CASE FillLink
        <5>1. name[cursor] \in Object
          BY <1>1, <1>c, <1>t, <4>2 DEF FillLink
        <5> QED
          BY <1>1, <1>c, <4>2, <5>1 DEF FillLink
      <4> QED
        BY <2>7, <4>1, <4>2
    <3>2. CASE cursor = p
      <4>1. name[p] # ident[p] \/ look[ident[p]] = "odd"
        BY <1>c, <3>1, <3>2 DEF Broken
      <4>2. name[p] = ident[p] => look'[ident[p]] = "odd"
        BY <1>p, <1>t, <3>1, <3>2, <4>1 DEF Normalized
      <4>3. phase'[p] \in Pinned
        BY <1>p, <1>t, <3>1, <3>2 DEF Pinned
      <4> QED
        BY <3>1, <3>2, <4>2, <4>3 DEF Broken
    <3>3. CASE cursor # p
      <4>1. o # ident[p]
        BY <1>d, <3>1, <3>3
      <4>2. look'[ident[p]] = look[ident[p]]
        BY <1>p, <1>t, <3>1, <4>1
      <4> QED
        BY <1>a, <1>p, <1>t, <3>1, <3>3, <4>2
    <3> QED
      BY <3>2, <3>3
  <2>8. CASE SealDirectory
    <3>1. PICK d \in Entry :
          /\ look' = [look EXCEPT ![ident[d]] = "whole"] /\ DirectoryValid(d)
          /\ phase' = [phase EXCEPT ![d] = "complete"]
          /\ UNCHANGED <<name, ident>> /\ pc' # "entry.fill" /\ d \in Dirs
      <4>1. cursor \in 1..NumDirs /\ SealOrder[cursor] \in Dirs /\ SealOrder[cursor] \in Entry
        BY <2>8, SealOrderAssumption DEF SealDirectory
      <4> QED
        BY <1>1, <2>8, <4>1 DEF SealDirectory
    <3>2. name[p] = ident[p] => look'[ident[p]] = look[ident[p]]
      BY <3>1, <1>p, <1>d, <1>v, <1>t DEF Dirs
    <3>3. phase'[p] \in Pinned
      BY <3>1, <1>p, <1>t DEF Pinned
    <3> QED
      BY <1>a, <1>p, <1>t, <3>1, <3>2, <3>3 DEF Dirs
  <2>9. CASE SealRoot
    <3>1. /\ look' = [look EXCEPT ![ident[0]] = "whole"]
          /\ phase' = [phase EXCEPT ![0] = "complete"]
          /\ UNCHANGED <<name, ident>> /\ pc' # "entry.fill"
      BY <1>1, <2>9 DEF SealRoot
    <3>2. look'[ident[p]] = look[ident[p]] /\ phase'[p] = phase[p]
      BY <3>1, <1>p, <1>d, <1>t
    <3> QED
      BY <1>a, <1>p, <3>1, <3>2
  <2>10. CASE Preflight \/ EntriesMade \/ SettleEntry \/ SealedDirectory
              \/ DirectoriesSealed \/ SealedRoot \/ Materialized \/ Authenticate
    BY <1>1, <1>b, <2>10
       DEF Preflight, EntriesMade, SettleEntry, SealedDirectory,
           DirectoriesSealed, SealedRoot, Materialized, Authenticate, fsVars,
           journalVars
  <2> QED
    BY <1>1, <2>0, <2>1, <2>2, <2>3, <2>4, <2>5, <2>6, <2>7, <2>8, <2>9, <2>10
       DEF Build
<1>2. CASE CleanUp /\ ~Fail
  <2>1. CASE StartCleanup
    <3>1. /\ UNCHANGED <<name, ident, phase, look>>
          /\ pc' \in {"cleanup.refinish", "recoverable", "cleanup.reconcile"}
          /\ pc' = "cleanup.refinish" => rootUnlinked
      BY <2>1 DEF StartCleanup, fsVars
    <3> QED
      BY <1>b, <1>c, <3>1 DEF ValidationAhead
  <2>2. CASE Reconcile
    <3>1. /\ UNCHANGED <<name, look>> /\ pc' = "cleanup.validate"
          /\ phase'[p] = phase[p] /\ ident'[p] = ident[p]
      BY <1>2, <1>p, <2>2 DEF Reconcile, fsVars, Pinned
    <3> QED
      BY <1>a, <1>p, <3>1 DEF ValidationAhead
  <2>3. CASE ReopenRoot
    <3>1. /\ look' = [look EXCEPT ![ident[0]] = "rough"]
          /\ phase' = [phase EXCEPT ![0] = "identified"]
          /\ UNCHANGED <<name, ident>> /\ pc' \in {"cleanup.root.check", "cleanup.dirs"}
      BY <1>2, <2>3 DEF ReopenRoot
    <3>2. look'[ident[p]] = look[ident[p]] /\ phase'[p] = phase[p]
      BY <3>1, <1>p, <1>d, <1>t
    <3> QED
      BY <1>a, <1>p, <3>1, <3>2 DEF ValidationAhead
  <2>4. CASE ReopenDirectory
    <3>1. PICK d \in Entry :
          /\ pc' \in {"cleanup.dirs", "cleanup.dirs.check"} /\ d \in Dirs
          /\ UNCHANGED <<name, ident>>
          /\ \/ UNCHANGED <<look, phase>>
             \/ /\ DirectoryValid(d)
                /\ look' = [look EXCEPT ![ident[d]] = "rough"]
                /\ phase' = [phase EXCEPT ![d] = "identified"]
      <4>1. cursor \in 1..NumDirs /\ SealOrder[cursor] \in Dirs /\ SealOrder[cursor] \in Entry
        BY <2>4, SealOrderAssumption DEF ReopenDirectory
      <4> QED
        BY <1>2, <2>4, <4>1 DEF ReopenDirectory, fsVars, journalVars
    <3>2. name[p] = ident[p] => look'[ident[p]] = look[ident[p]]
      BY <3>1, <1>p, <1>d, <1>v, <1>t DEF Dirs
    <3>3. phase'[p] \in Pinned /\ (Kind[p] # "dir" => phase'[p] = phase[p])
      BY <3>1, <1>p, <1>t DEF Pinned, Dirs
    <3> QED
      BY <1>a, <1>p, <1>t, <3>1, <3>2, <3>3 DEF ValidationAhead
  <2>5. CASE ValidateRemaining \/ ReopenedRoot \/ ReopenedDirectory \/ DirectoriesReopened
    <3>1. /\ UNCHANGED <<name, ident, phase, look>>
          /\ pc' \in {"cleanup.root", "cleanup.dirs", "cleanup.revalidate"}
      BY <1>2, <2>5 DEF ValidateRemaining, ReopenedRoot, ReopenedDirectory,
         DirectoriesReopened, fsVars, journalVars
    <3> QED
      BY <1>b, <3>1 DEF ValidationAhead
  <2>6. CASE RevalidateRemaining
    <3>1. pc # "entry.fill" /\ TreeValid(FALSE)
      BY <1>2, <2>6 DEF RevalidateRemaining
    <3> QED
      BY <3>1, BrokenIsRefused
  <2>7. ~(CheckEntry \/ UnlinkEntry \/ EntryAbsent \/ EntriesUnlinked \/ CheckEmptyRoot
          \/ UnlinkRoot \/ FinishCleanup \/ RefinishCleanup \/ Abandon)
    BY
       DEF ValidationAhead, CheckEntry, UnlinkEntry, EntryAbsent,
           EntriesUnlinked, CheckEmptyRoot, UnlinkRoot, FinishCleanup,
           RefinishCleanup, Abandon
  <2> QED
    BY <1>2, <2>1, <2>2, <2>3, <2>4, <2>5, <2>6, <2>7 DEF CleanUp
<1>3. CASE Cleanup
  BY <1>b, <1>3 DEF Cleanup, fsVars, journalVars, ValidationAhead
<1>4. CASE Fault
  <2>1. pc' \in {"discarded", "quarantined", "cleanup.start", "recoverable"}
    BY <1>4, ErrorLeads DEF Fault
  <2> QED
    BY <1>b, <1>4, <2>1 DEF Fault, fsVars, ValidationAhead
<1>5. CASE Refused \/ UNCHANGED vars
  BY <1>5, <1>p DEF Refused, vars, Broken, ValidationAhead
<1> QED
  BY <1>f, <1>1, <1>2, <1>3, <1>4, <1>5 DEF Next

\* Nor does an outsider, and what he spoils is broken.
LEMMA SpoiledIsBroken ==
  ASSUME IInv, SpoilInv, SpoiledStaysBroken, Interfere
  PROVE  SpoiledStaysBroken'
<1> USE PlanFacts
<1>t. /\ phase \in [Node -> EntryPhase] /\ name \in [Node -> Object \cup {None}]
      /\ ident \in [Node -> Object \cup {None}] /\ look \in [Object -> Look]
      /\ spoiled \in BOOLEAN
  BY DEF IInv, TypeOK
<1>u. UNCHANGED <<pc, cursor, phase, ident>>
  BY DEF Interfere, Meddle, journalVars
<1>o. Outsider \in Object /\ Outsider # None
      /\ \A q \in Node : name[q] # Outsider /\ ident[q] # Outsider
  <2>1. Outsider \in Object
    BY OutsiderIsAnObject DEF Interfere, IInv
  <2>2. Outsider \notin Node /\ Outsider \notin Arrived
    BY SizeAssumption DEF Outsider, Node, Arrived, IInv, TypeOK
  <2> QED
    BY <2>1, <2>2 DEF SpoilInv, EachHasItsPlace
<1>i. \A p \in Entry : phase[p] \in Pinned => ident[p] # None /\ ident[p] \in Object
  BY <1>t DEF SpoilInv, SealedInOrder
<1>d. \A p \in Entry : phase[p] \in Pinned => \A q \in Node : q # p => name[q] # ident[p]
  BY <1>i DEF SpoilInv, EachHasItsPlace
<1>k. ASSUME NEW p \in Entry, Broken(p),
             name'[p] = name[p] \/ name'[p] # ident[p],
             name[p] = ident[p] /\ name'[p] = ident[p] =>
               \/ look'[ident[p]] = look[ident[p]]
               \/ look[ident[p]] # "odd" /\ look'[ident[p]] \in {"tainted", "odd"}
      PROVE  Broken(p)'
  BY <1>k, <1>u DEF Broken
<1>v. ValidationAhead' = ValidationAhead
  BY <1>u DEF ValidationAhead
<1>1. CASE Displace
  <2>1. PICK q \in Node, new \in {None, Outsider}, gone \in BOOLEAN :
        /\ name[q] # None
        /\ name' = [c \in Node |->
                      IF c = q THEN new
                      ELSE IF c \in Below(q) THEN None ELSE name[c]]
        /\ look' = [o \in Object |->
                      IF o = new THEN look[name[q]]
                      ELSE IF gone /\ o = name[q] THEN "unlinked" ELSE look[o]]
        /\ spoiled' = (spoiled \/ (q # 0 /\ phase[q] \in Pinned /\ ValidationAhead))
    BY <1>1, SMTT(40), ZenonT(40) DEF Displace
  <2>2. ASSUME NEW p \in Entry, Broken(p) PROVE Broken(p)'
    <3>1. phase[p] \in Pinned /\ p \in Node
      BY <2>2 DEF Broken
    <3>2. name'[p] = name[p] \/ name'[p] # ident[p]
      BY <1>i, <1>o, <2>1, <3>1
    <3>3. name[p] = ident[p] /\ name'[p] = ident[p] => look'[ident[p]] = look[ident[p]]
      <4>1. SUFFICES ASSUME name[p] = ident[p], name'[p] = ident[p]
                     PROVE  look'[ident[p]] = look[ident[p]]
        OBVIOUS
      <4>2. p # q
        BY <1>i, <1>o, <2>1, <3>1, <4>1
      <4>3. name[q] # ident[p] /\ new # ident[p] /\ ident[p] \in Object
        BY <1>d, <1>i, <1>o, <2>1, <3>1, <4>2
      <4> QED
        BY <2>1, <4>3
    <3> QED
      BY <1>k, <2>2, <3>2, <3>3
  <2>3. ASSUME q # 0, phase[q] \in Pinned PROVE q \in Entry /\ Broken(q)'
    <3>1. q \in Entry
      BY <2>3, SizeAssumption DEF Node, Entry
    <3>2. name'[q] # ident[q]
      BY <1>i, <1>o, <2>1, <2>3, <3>1
    <3> QED
      BY <1>u, <2>3, <3>1, <3>2 DEF Broken
  <2> QED
    BY <1>v, <2>1, <2>2, <2>3 DEF SpoiledStaysBroken
<1>2. CASE Plant
  <2>1. PICK q \in Node, l \in {"rough", "whole"} :
        /\ name[q] = None
        /\ name' = [name EXCEPT ![q] = Outsider]
        /\ look' = [look EXCEPT ![Outsider] = l]
        /\ spoiled' = spoiled
    BY <1>2 DEF Plant
  <2>2. ASSUME NEW p \in Entry, Broken(p) PROVE Broken(p)'
    <3>1. phase[p] \in Pinned /\ p \in Node
      BY <2>2 DEF Broken
    <3>2. name'[p] = name[p] \/ name'[p] # ident[p]
      BY <1>o, <1>t, <2>1, <3>1
    <3>3. look'[ident[p]] = look[ident[p]]
      BY <1>i, <1>o, <1>t, <2>1, <3>1
    <3> QED
      BY <1>k, <2>2, <3>2, <3>3
  <2> QED
    BY <1>v, <2>1, <2>2 DEF SpoiledStaysBroken
<1>3. CASE Alter
  <2>1. PICK q \in Node, l \in {"tainted", "odd"} :
        /\ name[q] # None /\ look[name[q]] # "odd" /\ name' = name
        /\ look' = [look EXCEPT ![name[q]] = l]
        /\ spoiled' =
             (spoiled \/
                /\ q # 0 /\ phase[q] \in Pinned /\ ValidationAhead
                /\ phase[q] = "complete" \/ Kind[q] = "dir" \/ l = "odd"
                /\ ~(Kind[q] = "dir" /\ pc = "entry.fill" /\ cursor = q))
    BY <1>3 DEF Alter
  <2>o. name[q] \in Object
    BY <1>t, <2>1
  <2>2. ASSUME NEW p \in Entry, Broken(p) PROVE Broken(p)'
    <3>1. phase[p] \in Pinned /\ p \in Node
      BY <2>2 DEF Broken
    <3>2. \/ look'[ident[p]] = look[ident[p]]
          \/ look[ident[p]] # "odd" /\ look'[ident[p]] \in {"tainted", "odd"}
      BY <1>i, <1>t, <2>1, <2>o, <3>1
    <3> QED
      BY <1>k, <2>1, <2>2, <3>2
  <2>3. ASSUME q # 0, phase[q] \in Pinned,
               phase[q] = "complete" \/ Kind[q] = "dir" \/ l = "odd",
               ~(Kind[q] = "dir" /\ pc = "entry.fill" /\ cursor = q)
        PROVE  q \in Entry /\ Broken(q)'
    <3>1. q \in Entry
      BY <2>3, SizeAssumption DEF Node, Entry
    <3>2. look'[name[q]] = l
      BY <1>t, <2>1, <2>o
    <3> QED
      BY <1>u, <2>1, <2>3, <3>1, <3>2 DEF Broken
  <2> QED
    BY <1>v, <2>1, <2>2, <2>3 DEF SpoiledStaysBroken
<1>4. CASE RestoreRoot
  <2>1. name' = [name EXCEPT ![0] = ident[0]] /\ look' = look /\ spoiled' = spoiled
    BY <1>4 DEF RestoreRoot
  <2>2. ASSUME NEW p \in Entry, Broken(p) PROVE Broken(p)'
    <3>1. name'[p] = name[p]
      BY <1>t, <2>1
    <3> QED
      BY <1>k, <2>1, <2>2, <3>1
  <2> QED
    BY <1>v, <2>1, <2>2 DEF SpoiledStaysBroken
<1>5. CASE Litter \/ MoveParent \/ TakeFinal
  <2>1. name' = name /\ look' = look /\ spoiled' = spoiled
    BY <1>5 DEF Litter, MoveParent, TakeFinal
  <2>2. ASSUME NEW p \in Entry, Broken(p) PROVE Broken(p)'
    BY <1>k, <2>1, <2>2
  <2> QED
    BY <1>v, <2>1, <2>2 DEF SpoiledStaysBroken
<1> QED
  BY <1>1, <1>2, <1>3, <1>4, <1>5 DEF Interfere

\* Once an entry the journal had pinned was displaced or altered before a
\* validation, no cleanup and no retry unlinks anything of the tree, for every
\* projection and however often it is retried.
THEOREM SpoiledKept == Spec => SpoiledIsLeftAlone
<1> DEFINE J == EntriesAreReached /\ SpoilInv /\ SpoiledStaysBroken
<1>1. Init => J
  <2>1. ASSUME Init PROVE SpoilInv
    BY <2>1, PlanFacts, SealedAtFirst, RemovedAtFirst
       DEF SpoilInv, Init, EachHasItsPlace, FilledInOrder
  <2>2. Init => EntriesAreReached /\ SpoiledStaysBroken
    BY PlanFacts DEF Init, EntriesAreReached, SpoiledStaysBroken
  <2> QED
    BY <2>1, <2>2
<1>2. ASSUME IInv, J, [Next]_vars PROVE J'
  <2>1. EntriesAreReached' /\ SpoilInv'
    BY <1>2, ReachKept, SealKept, RemovalKept, PlaceKept, FillingKept
       DEF SpoilInv
  <2>2. CASE Interfere
    BY <1>2, <2>1, <2>2, SpoiledIsBroken
  <2>3. CASE ~Interfere
    <3>1. spoiled' = spoiled
      BY <1>2, <2>3, HistoryChangesThere
    <3>2. SpoiledStaysBroken'
      <4>1. SUFFICES ASSUME spoiled
                     PROVE  ValidationAhead' /\ \E p \in Entry : Broken(p)'
        BY <3>1 DEF SpoiledStaysBroken
      <4>2. PICK p \in Entry : ValidationAhead /\ Broken(p)
        BY <1>2, <4>1 DEF SpoiledStaysBroken
      <4>3. Broken(p)' /\ ValidationAhead'
        BY <1>2, <2>3, <4>2, BrokenIsKept
      <4> QED
        BY <4>3
    <3> QED
      BY <2>1, <3>2
  <2> QED
    BY <2>2, <2>3
<1>3. ASSUME IInv, J, [Next]_vars
      PROVE  spoiled => \A p \in Node : ~Unlinks(p)
  <2>1. SUFFICES ASSUME spoiled, NEW p \in Node, Unlinks(p) PROVE FALSE
    OBVIOUS
  <2>2. pc \in {"cleanup.unlink", "cleanup.rmroot"}
    BY <1>3, <2>1, UnlinksOnlyThere
  <2> QED
    BY <1>3, <2>1, <2>2 DEF SpoiledStaysBroken, ValidationAhead
<1> HIDE DEF J
<1>4. Spec => []J
  BY <1>1, <1>2, InvariantHolds, PTL DEF Spec
<1> QED
  BY <1>3, <1>4, InvariantHolds, PTL DEF Spec, SpoiledIsLeftAlone

-----------------------------------------------------------------------------
(***************************************************************************)
(* Refusals: without an outsider the journal is right about the filesystem, *)
(* and a right journal is never refused.                                   *)
(***************************************************************************)
\* How far the cleanup has come before its first unlink: no creator descriptor
\* is left, then the root is open, then the directories from the top down.
ReopenedInOrder ==
  /\ pc \in Cleaning \ {"cleanup.start", "cleanup.reconcile"} =>
       \A p \in Entry : phase[p] # "creator"
  /\ pc \in {"cleanup.root.check", "cleanup.dirs", "cleanup.dirs.check",
             "cleanup.revalidate", "cleanup.entry", "cleanup.unlink",
             "cleanup.absent", "cleanup.rmroot.check", "cleanup.rmroot"} =>
       phase[0] = "identified"
  /\ pc \in {"cleanup.root.check", "cleanup.dirs"} =>
       /\ cursor \in 0..NumDirs
       /\ \A i \in 1..NumDirs : i > cursor => phase[SealOrder[i]] # "complete"
  /\ pc = "cleanup.dirs.check" =>
       /\ phase[SealOrder[cursor]] = "identified"
       /\ \A i \in 1..NumDirs : i >= cursor => phase[SealOrder[i]] # "complete"
  /\ pc \in {"cleanup.revalidate", "cleanup.entry", "cleanup.unlink",
             "cleanup.absent"} =>
       \A d \in Dirs : phase[d] # "complete"

\* The filesystem is what the journal says, down to every name and every look.
AsRecorded ==
  /\ parentNamed /\ ~finalTaken /\ extra = {}
  /\ \A p \in Entry : name[p] = IF phase[p] = "planned" THEN None ELSE p
  /\ name[0] = IF phase[0] = "planned" \/ rootUnlinked THEN None ELSE 0
  /\ \A p \in Node : phase[p] \in Pinned =>
       ident[p] = p /\ look[p] = IF phase[p] = "complete" THEN "whole" ELSE "rough"
  /\ \A p \in Node : phase[p] \in {"named", "creator"} => look[p] = "rough"
  /\ pc \in BeforeEffect \cup {"root.pin"} \cup Building =>
       \A p \in Node : phase[p] = "planned" => look[p] = "rough"
  /\ \A p \in Entry : phase[p] # "planned" => phase[Parent[p]] \in Pinned
  /\ pc \in {"materialized", "held"} => TreeValid(TRUE)
  /\ pc = "cleanup.unlink" => parentFd = DirAt(Parent[cursor])

\* And so it is until somebody interferes, whichever calls fail.
Undisturbed == meddles = 0 => AsRecorded

\* Every step keeps the order of the reopenings.
LEMMA ReopeningKept ==
  ASSUME IInv, RemovedInOrder, ReopenedInOrder, [Next]_vars
  PROVE  ReopenedInOrder'
<1> USE PlanFacts
<1>t. phase \in [Node -> EntryPhase] /\ cursor \in Nat /\ NumDirs \in Nat
  BY SizeAssumption DEF IInv, TypeOK
<1>c. /\ pc = "cleanup.dirs.check" => cursor \in 1..NumDirs
      /\ pc \in {"cleanup.unlink", "cleanup.absent"} => cursor \in Entry
  BY DEF IInv, JournalIsSound, CursorInRange
<1>a. ASSUME pc' \notin Cleaning \/ pc' \in {"cleanup.start", "cleanup.reconcile"}
      PROVE  ReopenedInOrder'
  BY <1>a DEF ReopenedInOrder, Cleaning
<1>f. CASE Fail
  BY <1>a, <1>f, FailLeads, ErrorLeads DEF Cleaning
<1>1. CASE Build /\ ~Fail
  <2>1. pc' \in {"root.mkdir", "root.pin", "cleanup.start", "held"} \cup Building
    BY <1>1, ErrorLeads
       DEF Build, Preflight, MakeRoot, PinRoot, OpenRoot, MakeEntry,
           EntriesMade, PinEntry, FillDirectory, FillRegular, FillLink,
           SettleEntry, SealDirectory, SealedDirectory, DirectoriesSealed,
           SealRoot, SealedRoot, Materialized, Authenticate, Building,
           BeforeEffect
  <2> QED
    BY <1>a, <2>1 DEF Building, Cleaning
<1>2. CASE CleanUp /\ ~Fail
  <2>1. CASE StartCleanup
    <3>1. /\ phase' = phase
          /\ pc' \in {"cleanup.refinish", "recoverable", "cleanup.reconcile"}
          /\ pc' = "cleanup.refinish" => rootUnlinked
      BY <2>1 DEF StartCleanup
    <3> QED
      BY <3>1 DEF RemovedInOrder, ReopenedInOrder, Cleaning
  <2>2. CASE Reconcile
    <3>1. pc' = "cleanup.validate" /\ \A p \in Entry : phase'[p] # "creator"
      BY <1>2, <2>2 DEF Reconcile
    <3> QED
      BY <3>1 DEF ReopenedInOrder
  <2>3. CASE ValidateRemaining
    BY <1>2, <2>3 DEF ValidateRemaining, journalVars, ReopenedInOrder, Cleaning
  <2>4. CASE ReopenRoot
    <3>1. /\ pc = "cleanup.root" /\ pc' \in {"cleanup.root.check", "cleanup.dirs"}
          /\ cursor' = NumDirs /\ phase'[0] = "identified"
          /\ \A p \in Entry : phase'[p] = phase[p]
      BY <1>2, <1>t, <2>4 DEF ReopenRoot
    <3>2. NumDirs \in 0..NumDirs /\ \A i \in 1..NumDirs : ~(i > NumDirs)
      BY <1>t
    <3> QED
      BY <3>1, <3>2 DEF ReopenedInOrder, Cleaning
  <2>5. CASE ReopenedRoot
    BY <1>2, <2>5 DEF ReopenedRoot, journalVars, ReopenedInOrder, Cleaning
  <2>6. CASE ReopenDirectory
    <3>0. /\ pc = "cleanup.dirs" /\ cursor \in 1..NumDirs
          /\ \/ /\ phase[SealOrder[cursor]] # "complete" /\ cursor' = cursor - 1
                /\ phase' = phase /\ pc' = "cleanup.dirs"
             \/ /\ phase[SealOrder[cursor]] = "complete" /\ cursor' = cursor
                /\ phase' = [phase EXCEPT ![SealOrder[cursor]] = "identified"]
                /\ pc' = "cleanup.dirs.check"
      BY <1>2, <2>6 DEF ReopenDirectory, journalVars, Pinned
    <3>1. CASE pc' = "cleanup.dirs"
      <4>1. cursor' \in 0..NumDirs /\ \A i \in 1..NumDirs : i > cursor' => i > cursor \/ i = cursor
        BY <1>t, <3>0, <3>1
      <4> QED
        BY <3>0, <3>1, <4>1 DEF ReopenedInOrder, Cleaning
    <3>2. CASE pc' = "cleanup.dirs.check"
      <4>1. \A i \in 1..NumDirs : i >= cursor => i > cursor \/ i = cursor
        BY <1>t, <3>0
      <4>2. /\ phase'[SealOrder[cursor]] = "identified" /\ phase'[0] = phase[0]
            /\ \A p \in Entry : phase'[p] = phase[p] \/ phase'[p] = "identified"
        <5>1. /\ SealOrder[cursor] \in Entry
              /\ phase' = [phase EXCEPT ![SealOrder[cursor]] = "identified"]
          BY <3>0, <3>2
        <5> QED
          BY <1>t, <5>1
      <4>3. \A i \in 1..NumDirs : i >= cursor' => phase'[SealOrder[i]] # "complete"
        BY <3>0, <3>2, <4>1, <4>2 DEF ReopenedInOrder
      <4> QED
        BY <3>0, <3>2, <4>2, <4>3 DEF ReopenedInOrder, Cleaning
    <3> QED
      BY <3>0, <3>1, <3>2
  <2>7. CASE ReopenedDirectory
    <3>1. /\ pc = "cleanup.dirs.check" /\ cursor \in 1..NumDirs /\ cursor' = cursor - 1
          /\ phase' = phase /\ pc' = "cleanup.dirs"
      BY <1>2, <1>c, <2>7 DEF ReopenedDirectory, journalVars
    <3>2. cursor' \in 0..NumDirs /\ \A i \in 1..NumDirs : i > cursor' => i >= cursor
      BY <1>t, <3>1
    <3> QED
      BY <3>1, <3>2 DEF ReopenedInOrder, Cleaning
  <2>8. CASE DirectoriesReopened
    <3>1. /\ pc = "cleanup.dirs" /\ cursor \notin 1..NumDirs /\ pc' = "cleanup.revalidate"
          /\ phase' = phase
      BY <2>8 DEF DirectoriesReopened, journalVars
    <3>2. \A i \in 1..NumDirs : phase[SealOrder[i]] # "complete"
      BY <1>t, <3>1 DEF ReopenedInOrder
    <3>3. \A d \in Dirs : phase[d] # "complete"
      BY <3>2, SealOrderAssumption
    <3> QED
      BY <3>1, <3>3 DEF ReopenedInOrder, Cleaning
  <2>9. CASE UnlinkEntry
    <3>1. /\ pc = "cleanup.unlink" /\ pc' = "cleanup.absent" /\ cursor \in Entry
          /\ phase' = [phase EXCEPT ![cursor] = "planned"]
      BY <1>2, <1>c, <2>9 DEF UnlinkEntry, ForgetEntry
    <3>2. phase'[0] = phase[0] /\ \A p \in Entry : phase'[p] = phase[p] \/ phase'[p] = "planned"
      BY <1>t, <3>1
    <3> QED
      BY <3>1, <3>2 DEF ReopenedInOrder, Cleaning, Dirs
  <2>10. CASE ~(StartCleanup \/ Reconcile \/ ValidateRemaining \/ ReopenRoot \/ ReopenedRoot
                \/ ReopenDirectory \/ ReopenedDirectory \/ DirectoriesReopened \/ UnlinkEntry)
    BY <1>2, <2>10
       DEF CleanUp, RevalidateRemaining, CheckEntry, EntryAbsent,
           EntriesUnlinked, CheckEmptyRoot, UnlinkRoot, FinishCleanup,
           RefinishCleanup, Abandon, journalVars, ReopenedInOrder, Cleaning
  <2> QED
    BY <2>1, <2>2, <2>3, <2>4, <2>5, <2>6, <2>7, <2>8, <2>9, <2>10
<1>3. CASE Cleanup
  BY <1>a, <1>3 DEF Cleanup, Cleaning
<1>4. CASE Fault
  BY <1>a, <1>4, ErrorLeads DEF Fault, Cleaning
<1>5. CASE Refused \/ Interfere \/ UNCHANGED vars
  BY <1>5 DEF Refused, Interfere, Meddle, journalVars, vars, ReopenedInOrder
<1> QED
  BY <1>f, <1>1, <1>2, <1>3, <1>4, <1>5 DEF Next

\* One value of a function is replaced.
LEMMA Replaced ==
  ASSUME NEW S, NEW T, NEW f \in [S -> T], NEW d \in S, NEW e, NEW g,
         g = [f EXCEPT ![d] = e]
  PROVE  g[d] = e /\ \A p \in S : p = d \/ g[p] = f[p]
OBVIOUS

\* Validations read nothing but the filesystem and the journal.
LEMMA ValidityFrame ==
  ASSUME UNCHANGED <<name, look, extra, parentNamed, finalTaken, phase, ident, created>>,
         TreeValid(TRUE)
  PROVE  TreeValid(TRUE)'
BY
   DEF TreeValid, DirectoryValid, DirAt, Count, EntryValid, PinnedEntryValid,
       OwnedValid

\* The orders of all loops, which hold whoever interferes.
OrderInv ==
  SealedInOrder /\ RemovedInOrder /\ FilledInOrder /\ ReopenedInOrder

\* Left to itself, the finalizer keeps the filesystem as its journal has it.
LEMMA RecordKept ==
  ASSUME IInv, OrderInv, AsRecorded, [Next]_vars, ~Interfere
  PROVE  AsRecorded'
<1> USE PlanFacts
<1>t. /\ phase \in [Node -> EntryPhase] /\ name \in [Node -> Object \cup {None}]
      /\ ident \in [Node -> Object \cup {None}] /\ look \in [Object -> Look]
  BY DEF IInv, TypeOK
<1>c. /\ pc \in {"entry.pin", "entry.fill", "cleanup.unlink"} => cursor \in Entry
      /\ pc = "entry.pin" => phase[cursor] \in {"named", "creator"}
      /\ pc = "cleanup.unlink" => phase[cursor] \in Pinned
      /\ pc = "entry.fill" => phase[cursor] = "identified"
      /\ pc = "root.pin" => phase[0] = "named"
      /\ pc = "root.open" => phase[0] = "identified"
      /\ pc \in Building \cup Cleaning => phase[0] \in Pinned
      /\ pc \in BeforeEffect => phase[0] = "planned"
  BY
     DEF IInv, JournalIsSound, CursorInRange, PhaseFollowsStep, OrderInv,
         SealedInOrder, RemovedInOrder, FilledInOrder
<1>r. rootUnlinked => pc \in {"cleanup.start", "cleanup.finish", "cleanup.refinish",
                             "recoverable", "abandon", "closed", "terminal"}
  BY DEF IInv, JournalIsSound, UnidentifiedIsStuck
<1>n. None \notin Node
  OBVIOUS
<1>a. ASSUME UNCHANGED <<name, look, extra, parentNamed, finalTaken, phase, ident,
                         rootUnlinked>>,
             pc' \notin {"materialized", "held", "cleanup.unlink"},
             pc' \in BeforeEffect \cup {"root.pin"} \cup Building =>
               pc \in BeforeEffect \cup {"root.pin"} \cup Building
      PROVE  AsRecorded'
  BY <1>a DEF AsRecorded
<1>f. CASE Fail
  <2>1. pc' \in {"discarded", "quarantined", "cleanup.start", "recoverable"}
    BY <1>f, FailLeads, ErrorLeads
  <2> QED
    BY <1>a, <1>f, <2>1, FailLeads DEF BeforeEffect, Building
<1>1. CASE Build /\ ~Fail
  <2>b. pc \in BeforeEffect \cup {"root.pin"} \cup Building /\ ~rootUnlinked
    BY <1>1, <1>r, StepsRun DEF BeforeEffect, Building
  <2>1. CASE MakeRoot
    <3>1. /\ pc \in BeforeEffect /\ pc' = "root.pin" /\ name' = [name EXCEPT ![0] = 0]
          /\ phase' = [phase EXCEPT ![0] = "named"] /\ phase[0] = "planned"
          /\ UNCHANGED <<look, extra, parentNamed, finalTaken, ident, rootUnlinked>>
      BY <1>1, <1>c, <2>1 DEF MakeRoot, BeforeEffect
    <3>2. phase'[0] = "named" /\ \A p \in Entry : phase'[p] = phase[p] /\ name'[p] = name[p]
      BY <1>t, <3>1
    <3>3. name'[0] = 0 /\ \A p \in Node : p = 0 \/ phase'[p] = phase[p]
      BY <1>t, <3>1
    <3>4. \A p \in Entry : phase[p] = "planned"
      BY <3>1 DEF OrderInv, RemovedInOrder
    <3> QED
      BY <2>b, <3>1, <3>2, <3>3, <3>4 DEF AsRecorded, Pinned, BeforeEffect
  <2>2. CASE PinRoot
    <3>1. /\ pc = "root.pin" /\ pc' = "root.open" /\ name[0] # None /\ phase[0] = "named"
          /\ phase' = [phase EXCEPT ![0] = "identified"]
          /\ ident' = [ident EXCEPT ![0] = name[0]]
          /\ UNCHANGED <<name, look, extra, parentNamed, finalTaken, rootUnlinked>>
      BY <1>1, <1>c, <2>2 DEF PinRoot, fsVars
    <3>2. name[0] = 0 /\ look[0] = "rough"
      BY <3>1 DEF AsRecorded
    <3>3. /\ phase'[0] = "identified" /\ ident'[0] = 0
          /\ \A p \in Node : p = 0 \/ (phase'[p] = phase[p] /\ ident'[p] = ident[p])
          /\ \A p \in Entry : phase'[p] = phase[p]
      <4>1. phase'[0] = "identified" /\ \A p \in Node : p = 0 \/ phase'[p] = phase[p]
        BY <1>t, <3>1, Replaced
      <4>2. ident'[0] = name[0] /\ \A p \in Node : p = 0 \/ ident'[p] = ident[p]
        BY <1>t, <3>1, Replaced
      <4> QED
        BY <3>2, <4>1, <4>2
    <3> QED
      BY <2>b, <3>1, <3>2, <3>3 DEF AsRecorded, Pinned
  <2>3. CASE OpenRoot
    <3>1. /\ pc = "root.open" /\ pc' \in {"entry.make", "cleanup.start"}
          /\ look' = [look EXCEPT ![ident[0]] = "rough"] /\ phase[0] = "identified"
          /\ UNCHANGED <<name, phase, ident, extra, parentNamed, finalTaken, rootUnlinked>>
      BY <1>1, <1>c, <2>3, ErrorLeads
         DEF OpenRoot, journalVars, Building, BeforeEffect
    <3>2. ident[0] = 0 /\ look[0] = "rough" /\ look' = look
      BY <1>t, <3>1 DEF AsRecorded, Pinned
    <3> QED
      BY <1>a, <2>b, <3>1, <3>2
  <2>4. CASE MakeEntry
    <3>1. /\ cursor \in Entry /\ MayMake(cursor) /\ name' = [name EXCEPT ![cursor] = cursor]
          /\ phase' = [phase EXCEPT ![cursor] = IF Kind[cursor] = "file" THEN "creator" ELSE "named"]
          /\ UNCHANGED <<look, extra, parentNamed, finalTaken, ident, rootUnlinked>>
          /\ pc' = "entry.pin"
      BY <1>1, <2>4 DEF MakeEntry
    <3>2. phase[cursor] = "planned" /\ phase[Parent[cursor]] \in Pinned
          /\ look[cursor] = "rough"
      BY <2>b, <3>1 DEF MayMake, AsRecorded
    <3>3. /\ name'[cursor] = cursor /\ phase'[cursor] \in {"named", "creator"}
          /\ \A p \in Node : p = cursor \/ (phase'[p] = phase[p] /\ name'[p] = name[p])
      <4>1. /\ phase'[cursor] = IF Kind[cursor] = "file" THEN "creator" ELSE "named"
            /\ \A p \in Node : p = cursor \/ phase'[p] = phase[p]
        BY <1>t, <3>1, Replaced
      <4>2. name'[cursor] = cursor /\ \A p \in Node : p = cursor \/ name'[p] = name[p]
        BY <1>t, <3>1, Replaced
      <4> QED
        BY <4>1, <4>2
    <3>4. \A p \in Entry : phase[p] # "planned" => phase'[Parent[p]] \in Pinned
      BY <3>2, <3>3 DEF AsRecorded, Pinned
    <3>5. phase'[Parent[cursor]] \in Pinned
      BY <3>1, <3>2, <3>3 DEF Pinned
    <3>6. \A p \in Entry : phase'[p] # "planned" => phase'[Parent[p]] \in Pinned
      BY <3>3, <3>4, <3>5
    <3>7. name'[0] = name[0] /\ phase'[0] = phase[0]
      BY <3>1, <3>3
    <3> QED
      BY <2>b, <3>1, <3>2, <3>3, <3>6, <3>7 DEF AsRecorded, Pinned
  <2>5. CASE PinEntry
    <3>1. /\ cursor \in Entry /\ phase[cursor] \in {"named", "creator"}
          /\ ident' = [ident EXCEPT ![cursor] =
                         IF Kind[cursor] = "file" THEN cursor ELSE name[cursor]]
          /\ phase' = [phase EXCEPT ![cursor] = "identified"]
          /\ UNCHANGED <<name, look, extra, parentNamed, finalTaken, rootUnlinked>>
          /\ pc' = "entry.fill"
      BY <1>1, <1>c, <2>5 DEF PinEntry, fsVars
    <3>2. name[cursor] = cursor /\ look[cursor] = "rough"
      BY <3>1 DEF AsRecorded
    <3>3. /\ ident'[cursor] = cursor /\ phase'[cursor] = "identified"
          /\ \A p \in Node : p = cursor \/ (phase'[p] = phase[p] /\ ident'[p] = ident[p])
          /\ phase'[0] = phase[0]
      <4>1. /\ phase'[cursor] = "identified"
            /\ \A p \in Node : p = cursor \/ phase'[p] = phase[p]
        BY <1>t, <3>1, Replaced
      <4>2. /\ ident'[cursor] = IF Kind[cursor] = "file" THEN cursor ELSE name[cursor]
            /\ \A p \in Node : p = cursor \/ ident'[p] = ident[p]
        BY <1>t, <3>1, Replaced
      <4>3. cursor # 0
        BY <3>1
      <4> QED
        BY <3>2, <4>1, <4>2, <4>3
    <3>4. \A p \in Entry : phase'[p] # "planned" => phase'[Parent[p]] \in Pinned
      BY <3>1, <3>3 DEF AsRecorded, Pinned
    <3> QED
      BY <2>b, <3>1, <3>2, <3>3, <3>4 DEF AsRecorded, Pinned
  <2>6. CASE FillDirectory
    <3>1. /\ pc = "entry.fill" /\ pc' \in {"entry.make", "cleanup.start"}
          /\ look' = [look EXCEPT ![ident[cursor]] = "rough"]
          /\ cursor \in Entry /\ phase[cursor] = "identified"
          /\ UNCHANGED <<name, phase, ident, extra, parentNamed, finalTaken, rootUnlinked>>
      BY <1>1, <1>c, <2>6, ErrorLeads
         DEF FillDirectory, journalVars, Building, BeforeEffect
    <3>2. ident[cursor] = cursor /\ look[cursor] = "rough" /\ look' = look
      BY <1>t, <3>1 DEF AsRecorded, Pinned
    <3> QED
      BY <1>a, <2>b, <3>1, <3>2
  <2>7. CASE FillRegular \/ FillLink
    <3>1. /\ cursor \in Entry /\ phase[cursor] = "identified" /\ pc = "entry.fill"
      BY <1>c, <2>7 DEF FillRegular, FillLink
    <3>2. ident[cursor] = cursor /\ name[cursor] = cursor /\ look[cursor] = "rough"
          /\ cursor \in Object
      BY <3>1 DEF AsRecorded, Pinned
    <3>3. look' = [look EXCEPT ![cursor] = "whole"]
      BY <1>1, <1>t, <2>7, <3>2 DEF FillRegular, FillLink, Normalized
    <3>4. /\ phase' = [phase EXCEPT ![cursor] = "complete"] /\ pc' = "entry.settle"
          /\ UNCHANGED <<name, ident, extra, parentNamed, finalTaken, rootUnlinked>>
      BY <1>1, <2>7 DEF FillRegular, FillLink
    <3>5. /\ phase'[cursor] = "complete" /\ look'[cursor] = "whole" /\ phase'[0] = phase[0]
          /\ \A p \in Node : p = cursor \/ (phase'[p] = phase[p] /\ look'[p] = look[p])
      <4>1. /\ phase'[cursor] = "complete"
            /\ \A p \in Node : p = cursor \/ phase'[p] = phase[p]
        BY <1>t, <3>1, <3>4, Replaced
      <4>2. /\ look'[cursor] = "whole"
            /\ \A p \in Object : p = cursor \/ look'[p] = look[p]
        BY <1>t, <3>2, <3>3, Replaced
      <4>3. cursor # 0
        BY <3>1
      <4> QED
        BY <4>1, <4>2, <4>3
    <3>6. \A p \in Entry : phase'[p] # "planned" => phase'[Parent[p]] \in Pinned
      BY <3>1, <3>5 DEF AsRecorded, Pinned
    <3> QED
      BY <2>b, <3>1, <3>2, <3>4, <3>5, <3>6 DEF AsRecorded, Pinned
  <2>8. CASE SealDirectory \/ SealRoot
    <3>1. PICK d \in Node :
          /\ phase[d] \in Pinned /\ pc' \in {"seal.check", "root.seal.check"}
          /\ look' = [look EXCEPT ![ident[d]] = "whole"]
          /\ phase' = [phase EXCEPT ![d] = "complete"]
          /\ UNCHANGED <<name, ident, extra, parentNamed, finalTaken, rootUnlinked>>
      <4>1. CASE SealDirectory
        <5>1. cursor \in 1..NumDirs /\ SealOrder[cursor] \in Node
          BY <4>1 DEF SealDirectory
        <5> QED
          BY <1>1, <4>1, <5>1 DEF SealDirectory, Pinned
      <4>2. CASE SealRoot
        BY <1>1, <1>c, <4>2 DEF SealRoot, Building
      <4> QED
        BY <2>8, <4>1, <4>2
    <3>2. ident[d] = d /\ d \in Object
      BY <3>1 DEF AsRecorded
    <3>3. /\ phase'[d] = "complete" /\ look'[d] = "whole"
          /\ \A p \in Node : p = d \/ (phase'[p] = phase[p] /\ look'[p] = look[p])
      <4>1. phase'[d] = "complete" /\ \A p \in Node : p = d \/ phase'[p] = phase[p]
        BY <1>t, <3>1, Replaced
      <4>2. look'[d] = "whole" /\ \A p \in Object : p = d \/ look'[p] = look[p]
        BY <1>t, <3>1, <3>2, Replaced
      <4> QED
        BY <4>1, <4>2
    <3>4. \A p \in Node : /\ phase'[p] \in Pinned <=> phase[p] \in Pinned
                          /\ phase'[p] = "planned" <=> phase[p] = "planned"
      BY <3>1, <3>3 DEF Pinned
    <3>5. \A p \in Entry : phase'[p] # "planned" => phase'[Parent[p]] \in Pinned
      BY <3>4 DEF AsRecorded
    <3>6. \A p \in Node : phase'[p] \in {"named", "creator"} => phase[p] \in {"named", "creator"} /\ p # d
      BY <3>1, <3>3 DEF Pinned
    <3> QED
      <4>1. \A p \in Node : phase'[p] \in Pinned =>
              /\ ident'[p] = p
              /\ look'[p] = IF phase'[p] = "complete" THEN "whole" ELSE "rough"
        BY <3>1, <3>2, <3>3, <3>4 DEF AsRecorded
      <4>2. \A p \in Node : phase'[p] \in {"named", "creator"} => look'[p] = "rough"
        BY <3>3, <3>6 DEF AsRecorded
      <4>3. \A p \in Node : phase'[p] = "planned" => look'[p] = "rough"
        BY <2>b, <3>1, <3>3, <3>4 DEF AsRecorded, Pinned
      <4> QED
        BY <2>b, <3>1, <3>4, <3>5, <4>1, <4>2, <4>3 DEF AsRecorded
  <2>9. CASE Materialized \/ Authenticate
    <3>1. /\ pc' \in {"materialized", "held"} /\ TreeValid(TRUE)
          /\ UNCHANGED <<name, look, extra, parentNamed, finalTaken, phase, ident, created,
                         rootUnlinked>>
      BY <1>1, <2>9 DEF Materialized, Authenticate, fsVars, journalVars
    <3>2. TreeValid(TRUE)'
      BY <3>1, ValidityFrame
    <3> QED
      BY <2>b, <3>1, <3>2 DEF AsRecorded
  <2>10. CASE Preflight \/ EntriesMade \/ SettleEntry \/ SealedDirectory
              \/ DirectoriesSealed \/ SealedRoot
    <3>1. /\ UNCHANGED <<name, look, extra, parentNamed, finalTaken, phase, ident, rootUnlinked>>
          /\ pc' \notin {"materialized", "held", "cleanup.unlink"}
      BY <1>1, <2>10 DEF Preflight, EntriesMade, SettleEntry, SealedDirectory,
         DirectoriesSealed, SealedRoot, fsVars, journalVars
    <3> QED
      BY <1>a, <2>b, <3>1
  <2> QED
    BY <1>1, <2>1, <2>2, <2>3, <2>4, <2>5, <2>6, <2>7, <2>8, <2>9, <2>10
       DEF Build
<1>2. CASE CleanUp /\ ~Fail
  <2>b. pc \in Cleaning /\ phase[0] \in Pinned
    BY <1>2, <1>c, StepsRun
  <2>1. CASE Reconcile
    <3>1. /\ pc' = "cleanup.validate"
          /\ \A p \in Node : /\ phase'[p] = IF p \in Entry /\ phase[p] = "creator"
                                           THEN "identified" ELSE phase[p]
                             /\ ident'[p] = IF p \in Entry /\ phase[p] = "creator"
                                           THEN p ELSE ident[p]
          /\ UNCHANGED <<name, look, extra, parentNamed, finalTaken, rootUnlinked>>
      BY <1>2, <2>1 DEF Reconcile, fsVars
    <3>2. \A p \in Entry : phase'[p] # "planned" => phase'[Parent[p]] \in Pinned
      BY <3>1 DEF AsRecorded, Pinned
    <3>3. \A p \in Node : phase'[p] = "planned" <=> phase[p] = "planned"
      BY <3>1
    <3>4. \A p \in Node : phase'[p] \in Pinned =>
            /\ ident'[p] = p
            /\ look'[p] = IF phase'[p] = "complete" THEN "whole" ELSE "rough"
      BY <3>1 DEF AsRecorded, Pinned
    <3>5. \A p \in Node : phase'[p] \in {"named", "creator"} => look'[p] = "rough"
      BY <3>1 DEF AsRecorded
    <3> QED
      BY <3>1, <3>2, <3>3, <3>4, <3>5 DEF AsRecorded, BeforeEffect, Building
  <2>2. CASE ReopenRoot \/ ReopenDirectory
    <3>1. \/ /\ UNCHANGED <<name, look, extra, parentNamed, finalTaken, phase, ident, rootUnlinked>>
             /\ pc' = "cleanup.dirs"
          \/ \E d \in Node :
               /\ phase[d] \in Pinned
               /\ pc' \in {"cleanup.root.check", "cleanup.dirs", "cleanup.dirs.check"}
               /\ look' = [look EXCEPT ![ident[d]] = "rough"]
               /\ phase' = [phase EXCEPT ![d] = "identified"]
               /\ UNCHANGED <<name, ident, extra, parentNamed, finalTaken, rootUnlinked>>
      <4>1. CASE ReopenDirectory
        <5>1. cursor \in 1..NumDirs /\ SealOrder[cursor] \in Node
          BY <4>1 DEF ReopenDirectory
        <5> QED
          BY <1>2, <4>1, <5>1 DEF ReopenDirectory, Pinned, fsVars, journalVars
      <4>2. CASE ReopenRoot
        BY <1>2, <2>b, <4>2 DEF ReopenRoot
      <4> QED
        BY <2>2, <4>1, <4>2
    <3>2. CASE UNCHANGED <<name, look, extra, parentNamed, finalTaken, phase, ident, rootUnlinked>>
               /\ pc' = "cleanup.dirs"
      BY <1>a, <3>2 DEF BeforeEffect, Building
    <3>3. ASSUME NEW d \in Node,
               phase[d] \in Pinned,
               pc' \in {"cleanup.root.check", "cleanup.dirs", "cleanup.dirs.check"},
               look' = [look EXCEPT ![ident[d]] = "rough"],
               phase' = [phase EXCEPT ![d] = "identified"],
               UNCHANGED <<name, ident, extra, parentNamed, finalTaken, rootUnlinked>>
          PROVE AsRecorded'
      <4>2. ident[d] = d /\ d \in Object
        BY <3>3 DEF AsRecorded
      <4>3. /\ phase'[d] = "identified" /\ look'[d] = "rough"
            /\ \A p \in Node : p = d \/ (phase'[p] = phase[p] /\ look'[p] = look[p])
        <5>1. phase'[d] = "identified" /\ \A p \in Node : p = d \/ phase'[p] = phase[p]
          BY <1>t, <3>3, Replaced
        <5>2. look'[d] = "rough" /\ \A p \in Object : p = d \/ look'[p] = look[p]
          BY <1>t, <3>3, <4>2, Replaced
        <5> QED
          BY <5>1, <5>2
      <4>4. \A p \in Node : /\ phase'[p] \in Pinned <=> phase[p] \in Pinned
                            /\ phase'[p] = "planned" <=> phase[p] = "planned"
        BY <3>3, <4>3 DEF Pinned
      <4>5. \A p \in Entry : phase'[p] # "planned" => phase'[Parent[p]] \in Pinned
        BY <4>4 DEF AsRecorded
      <4>6. \A p \in Node : phase'[p] \in {"named", "creator"} => phase[p] \in {"named", "creator"} /\ p # d
        BY <3>3, <4>3 DEF Pinned
      <4> QED
        <5>1. \A p \in Node : phase'[p] \in Pinned =>
                /\ ident'[p] = p
                /\ look'[p] = IF phase'[p] = "complete" THEN "whole" ELSE "rough"
          BY <3>3, <4>2, <4>3, <4>4 DEF AsRecorded
        <5>2. \A p \in Node : phase'[p] \in {"named", "creator"} => look'[p] = "rough"
          BY <4>3, <4>6 DEF AsRecorded
        <5> QED
          BY <3>3, <4>4, <4>5, <5>1, <5>2
             DEF AsRecorded, BeforeEffect, Building
    <3> QED
      BY <3>1, <3>2, <3>3
  <2>3. CASE CheckEntry
    <3>1. /\ UNCHANGED <<name, look, extra, parentNamed, finalTaken, phase, ident, rootUnlinked>>
          /\ \/ pc' = "cleanup.entry"
             \/ pc' = "cleanup.unlink" /\ cursor' = cursor /\ parentFd' = DirAt(Parent[cursor])
      BY <1>2, <2>3 DEF CheckEntry, fsVars, journalVars
    <3>2. CASE pc' = "cleanup.entry"
      BY <1>a, <3>1, <3>2 DEF BeforeEffect, Building
    <3>3. CASE pc' = "cleanup.unlink"
      <4>1. (parentFd = DirAt(Parent[cursor]))'
        BY <3>1, <3>3 DEF DirAt
      <4> QED
        BY <3>1, <3>3, <4>1 DEF AsRecorded, BeforeEffect, Building
    <3> QED
      BY <3>1, <3>2, <3>3
  <2>4. CASE UnlinkEntry
    <3>1. /\ pc = "cleanup.unlink" /\ pc' = "cleanup.absent" /\ cursor \in Entry
          /\ phase' = [phase EXCEPT ![cursor] = "planned"]
          /\ name' = IF DirAt(Parent[cursor]) = parentFd
                     THEN [name EXCEPT ![cursor] = None] ELSE name
          /\ UNCHANGED <<look, ident, extra, parentNamed, finalTaken, rootUnlinked>>
      BY <1>2, <1>c, <2>4 DEF UnlinkEntry, ForgetEntry
    <3>2. DirAt(Parent[cursor]) = parentFd
      BY <3>1 DEF AsRecorded
    <3>3. /\ name'[cursor] = None /\ phase'[cursor] = "planned"
          /\ \A p \in Node : p = cursor \/ (phase'[p] = phase[p] /\ name'[p] = name[p])
          /\ phase'[0] = phase[0] /\ name'[0] = name[0]
      <4>1. phase'[cursor] = "planned" /\ \A p \in Node : p = cursor \/ phase'[p] = phase[p]
        BY <1>t, <3>1, Replaced
      <4>2. name'[cursor] = None /\ \A p \in Node : p = cursor \/ name'[p] = name[p]
        BY <1>t, <3>1, <3>2, Replaced
      <4>3. cursor # 0
        BY <3>1
      <4> QED
        BY <4>1, <4>2, <4>3
    <3>4. \A p \in Entry : phase'[p] # "planned" => phase'[Parent[p]] \in Pinned
      <4>1. SUFFICES ASSUME NEW p \in Entry, phase'[p] # "planned"
                     PROVE  phase'[Parent[p]] \in Pinned
        OBVIOUS
      <4>2. phase[p] # "planned" /\ phase[Parent[p]] \in Pinned
        BY <3>3, <4>1 DEF AsRecorded
      <4>3. ~(p > cursor)
        BY <3>1, <4>2 DEF OrderInv, RemovedInOrder
      <4>4. Parent[p] # cursor
        BY <3>1, <4>3, PlanAssumption
      <4> QED
        BY <3>3, <4>2, <4>4
    <3> QED
      BY <3>1, <3>3, <3>4 DEF AsRecorded, Pinned, BeforeEffect, Building
  <2>5. CASE UnlinkRoot
    <3>1. /\ name' = [name EXCEPT ![0] = None] /\ rootUnlinked' = TRUE
          /\ pc' = "cleanup.finish"
          /\ UNCHANGED <<look, phase, ident, extra, parentNamed, finalTaken>>
      BY <1>2, <2>5 DEF UnlinkRoot
    <3>2. name'[0] = None /\ \A p \in Entry : name'[p] = name[p]
      BY <1>t, <3>1
    <3> QED
      BY <3>1, <3>2 DEF AsRecorded, BeforeEffect, Building
  <2>6. CASE ~(Reconcile \/ ReopenRoot \/ ReopenDirectory \/ CheckEntry \/ UnlinkEntry
               \/ UnlinkRoot)
    <3>1. /\ UNCHANGED <<name, look, extra, parentNamed, finalTaken, phase, ident, rootUnlinked>>
          /\ pc' \in (Cleaning \cup Released \cup {"recoverable"}) \ {"cleanup.unlink"}
      BY <1>2, <2>6
         DEF CleanUp, StartCleanup, ValidateRemaining, ReopenedRoot,
             ReopenedDirectory, DirectoriesReopened, RevalidateRemaining,
             EntryAbsent, EntriesUnlinked, CheckEmptyRoot, FinishCleanup,
             RefinishCleanup, Abandon, fsVars, journalVars, Cleaning, Released
    <3> QED
      BY <1>a, <3>1 DEF Cleaning, Released, BeforeEffect, Building
  <2> QED
    BY <2>1, <2>2, <2>3, <2>4, <2>5, <2>6
<1>3. CASE Cleanup
  <2>1. /\ UNCHANGED <<name, look, extra, parentNamed, finalTaken, phase, ident, rootUnlinked>>
        /\ pc' \in {"cleanup.start", "recoverable"}
    BY <1>3 DEF Cleanup, fsVars, journalVars
  <2> QED
    BY <1>a, <2>1 DEF BeforeEffect, Building
<1>4. CASE Fault
  <2>1. pc' \in {"discarded", "quarantined", "cleanup.start", "recoverable"}
    BY <1>4, ErrorLeads DEF Fault
  <2> QED
    BY <1>a, <1>4, <2>1 DEF Fault, fsVars, BeforeEffect, Building
<1>5. CASE Refused \/ UNCHANGED vars
  <2>1. UNCHANGED vars
    BY <1>5 DEF Refused
  <2>2. TreeValid(TRUE) => TreeValid(TRUE)'
    BY <2>1, ValidityFrame DEF vars
  <2> QED
    BY <2>1, <2>2 DEF AsRecorded, vars, DirAt
<1> QED
  BY <1>f, <1>1, <1>2, <1>3, <1>4, <1>5 DEF Next

\* As long as the record is right, a directory has the entries it counts.
LEMMA CountIsCreated ==
  ASSUME IInv, AsRecorded, NEW d \in Node
  PROVE  Count(d) = created[d]
<1> USE PlanFacts
<1>1. {c \in Children(d) : name[c] # None} = {c \in Children(d) : phase[c] # "planned"}
  <2>1. \A c \in Entry : name[c] # None <=> phase[c] # "planned"
    BY DEF AsRecorded
  <2> QED
    BY <2>1 DEF Children
<1>2. created[d] = Cardinality({c \in Children(d) : phase[c] # "planned"})
  BY DEF IInv, JournalIsSound, CountsAgree
<1>3. Count(d) = Cardinality({c \in Children(d) : name[c] # None}) + 0
  BY DEF Count, AsRecorded
<1>4. Count(d) = created[d] + 0
  BY <1>1, <1>2, <1>3, Zenon
<1> QED
  BY <1>4 DEF IInv, TypeOK

\* A pinned directory that is as recorded passes its validation.
LEMMA RecordedIsValid ==
  ASSUME IInv, AsRecorded, NEW d \in Node, phase[d] \in Pinned
  PROVE  DirectoryValid(d)
<1> USE PlanFacts
<1>1. ident[d] = d /\ look[d] = IF phase[d] = "complete" THEN "whole" ELSE "rough"
  BY DEF AsRecorded
<1>2. DirAt(d) = ident[d]
  <2>1. d # 0 => d \in Entry
    BY SizeAssumption DEF Node, Entry
  <2> QED
    BY <1>1, <2>1 DEF DirAt, AsRecorded, Pinned
<1> QED
  BY <1>1, <1>2, CountIsCreated DEF DirectoryValid

\* And so does the tree, when every entry is identified or gone.
LEMMA RecordedTreeIsValid ==
  ASSUME IInv, AsRecorded, phase[0] \in Pinned, ~rootUnlinked,
         \A p \in Entry : phase[p] \in Pinned \cup {"planned"}
  PROVE  TreeValid(FALSE)
<1> USE PlanFacts
<1>1. name[0] = ident[0] /\ DirectoryValid(0)
  BY RecordedIsValid DEF AsRecorded, Pinned
<1>2. ASSUME NEW p \in Entry PROVE EntryValid(p, FALSE)
  <2>1. ASSUME phase[p] \in Pinned PROVE PinnedEntryValid(p)
    <3>1. p \in Node /\ name[p] = ident[p]
          /\ look[ident[p]] = IF phase[p] = "complete" THEN "whole" ELSE "rough"
      BY <2>1 DEF AsRecorded, Pinned
    <3>2. DirectoryValid(p)
      BY <2>1, <3>1, RecordedIsValid
    <3> QED
      BY <3>1, <3>2 DEF PinnedEntryValid, OwnedValid
  <2> QED
    BY <2>1 DEF EntryValid
<1> QED
  BY <1>1, <1>2 DEF TreeValid, AsRecorded

\* A directory whose entries are all forgotten is empty.
LEMMA ForgottenIsEmpty ==
  ASSUME IInv, AsRecorded, NEW d \in Node,
         \A c \in Entry : Parent[c] = d => phase[c] = "planned"
  PROVE  created[d] = 0 /\ Count(d) = 0
<1>1. {c \in Children(d) : phase[c] # "planned"} = {}
  BY DEF Children
<1>2. created[d] = Cardinality({c \in Children(d) : phase[c] # "planned"})
  BY DEF IInv, JournalIsSound, CountsAgree
<1>3. created[d] = 0
  BY <1>1, <1>2, FS_EmptySet
<1> QED
  BY <1>3, CountIsCreated

\* Left to itself, a cleanup in which no call fails refuses nothing but a name
\* that was never identified.
LEMMA NothingRefused ==
  ASSUME IInv, OrderInv, AsRecorded, [Next]_vars, ~Interfere, faults' = faults,
         pc' = "recoverable", pc # "recoverable"
  PROVE  \E p \in Entry : phase[p] = "named"
<1> USE PlanFacts
<1>t. /\ phase \in [Node -> EntryPhase]
  BY DEF IInv, TypeOK
<1>c. /\ pc \in {"cleanup.unlink", "cleanup.absent"} => cursor \in Entry
      /\ pc = "cleanup.dirs.check" => cursor \in 1..NumDirs
      /\ pc = "cleanup.unlink" => phase[cursor] \in Pinned
      /\ pc \in Cleaning => phase[0] \in Pinned
      /\ rootUnlinked => pc \notin {"cleanup.reconcile", "cleanup.validate", "cleanup.revalidate",
                                   "cleanup.rmroot.check", "cleanup.rmroot"}
      /\ \A p \in Entry : phase[p] = "named" => pc \in {"entry.pin", "cleanup.start"}
  BY
     DEF IInv, JournalIsSound, CursorInRange, PhaseFollowsStep,
         UnidentifiedIsStuck, OrderInv, SealedInOrder
<1>e. pc \in Cleaning \ {"cleanup.start", "cleanup.reconcile"} =>
        \A p \in Entry : phase[p] \in Pinned \cup {"planned"}
  <2>1. SUFFICES ASSUME pc \in Cleaning \ {"cleanup.start", "cleanup.reconcile"},
                        NEW p \in Entry
                 PROVE  phase[p] \in Pinned \cup {"planned"}
    OBVIOUS
  <2>2. phase[p] # "named"
    BY <1>c, <2>1 DEF Cleaning
  <2>3. phase[p] # "creator"
    BY <2>1 DEF OrderInv, ReopenedInOrder
  <2>4. phase[p] \in EntryPhase
    BY <1>t
  <2> QED
    BY <2>2, <2>3, <2>4 DEF EntryPhase, Pinned
<1>n. \A d \in Node : phase[d] \in Pinned =>
        ident[d] = d /\ DirAt(d) = d /\ look[d] = IF phase[d] = "complete" THEN "whole" ELSE "rough"
  <2>1. ASSUME NEW d \in Node, phase[d] \in Pinned PROVE DirAt(d) = d
    <3>1. d # 0 => d \in Entry
      BY SizeAssumption DEF Node, Entry
    <3> QED
      BY <2>1, <3>1 DEF DirAt, AsRecorded, Pinned
  <2> QED
    BY <2>1 DEF AsRecorded
<1>1. ~Fault
  BY DEF Fault, IInv, TypeOK
<1>2. ~Build
  <2>1. Build => pc \notin Cleaning
    BY StepsRun DEF BeforeEffect, Building, Cleaning
  <2>2. Build => AfterError # "recoverable"
    BY StepsRun, ErrorLeads DEF BeforeEffect, Building
  <2> QED
    BY <2>2, FailLeads
       DEF Build, Preflight, MakeRoot, PinRoot, OpenRoot, MakeEntry,
           EntriesMade, PinEntry, FillDirectory, FillRegular, FillLink,
           SettleEntry, SealDirectory, SealedDirectory, DirectoriesSealed,
           SealRoot, SealedRoot, Materialized, Authenticate
<1>3. ~Cleanup /\ ~Refused /\ ~UNCHANGED vars
  BY DEF Cleanup, Refused, vars, AsRecorded
<1>4. CASE StartCleanup
  BY <1>4 DEF StartCleanup
<1>5. CASE Reconcile
  BY <1>5 DEF Reconcile, AsRecorded
<1>6. CASE ValidateRemaining \/ RevalidateRemaining
  <2>1. TreeValid(FALSE)
    BY <1>6, <1>c, <1>e, RecordedTreeIsValid
       DEF ValidateRemaining, RevalidateRemaining, Cleaning
  <2> QED
    BY <1>6, <2>1 DEF ValidateRemaining, RevalidateRemaining
<1>7. CASE ReopenRoot \/ ReopenedRoot
  <2>1. DirectoryValid(0)
    BY <1>7, <1>c, RecordedIsValid DEF ReopenRoot, ReopenedRoot, Cleaning
  <2> QED
    BY <1>7, <2>1 DEF ReopenRoot, ReopenedRoot
<1>8. CASE ReopenDirectory
  <2>1. SealOrder[cursor] \in Node
    BY <1>8 DEF ReopenDirectory
  <2>2. phase[SealOrder[cursor]] \in Pinned => DirectoryValid(SealOrder[cursor])
    BY <2>1, RecordedIsValid
  <2> QED
    BY <1>8, <2>2 DEF ReopenDirectory, Pinned
<1>9. CASE ReopenedDirectory
  <2>1. SealOrder[cursor] \in Node /\ phase[SealOrder[cursor]] = "identified"
    BY <1>9, <1>c DEF ReopenedDirectory, OrderInv, ReopenedInOrder
  <2>2. look[ident[SealOrder[cursor]]] = "rough"
    BY <1>n, <2>1 DEF Pinned
  <2>3. Count(SealOrder[cursor]) = created[SealOrder[cursor]]
    BY <2>1, CountIsCreated
  <2> QED
    BY <1>9, <2>2, <2>3 DEF ReopenedDirectory
<1>10. CASE CheckEntry \/ UnlinkEntry
  <2>1. /\ pc \in {"cleanup.entry", "cleanup.unlink"} /\ cursor \in Entry /\ cursor \in Node
        /\ phase[cursor] \in Pinned \cup {"planned"}
    BY <1>10, <1>c, <1>e DEF CheckEntry, UnlinkEntry, Cleaning
  <2>2. CASE phase[cursor] = "planned"
    BY <1>10, <1>c, <2>2 DEF CheckEntry, UnlinkEntry, Pinned
  <2>3. CASE phase[cursor] \in Pinned
    <3>1. \A c \in Entry : Parent[c] = cursor => phase[c] = "planned"
      <4>1. \A c \in Entry : c > cursor => phase[c] = "planned"
        BY <2>1 DEF OrderInv, RemovedInOrder
      <4> QED
        BY <4>1, PlanAssumption
    <3>2. created[cursor] = 0 /\ Count(cursor) = 0
      BY <2>1, <3>1, ForgottenIsEmpty
    <3>3. /\ phase[Parent[cursor]] \in Pinned /\ phase[Parent[cursor]] # "complete"
      <4>1. phase[Parent[cursor]] \in Pinned
        BY <2>1, <2>3 DEF AsRecorded, Pinned
      <4>2. phase[0] = "identified" /\ \A d \in Dirs : phase[d] # "complete"
        BY <2>1 DEF OrderInv, ReopenedInOrder
      <4>3. Parent[cursor] = 0 \/ Parent[cursor] \in Dirs
        BY <2>1, PlanAssumption, SizeAssumption DEF Dirs, Node, Entry
      <4> QED
        BY <4>1, <4>2, <4>3
    <3>4. DirAt(Parent[cursor]) = Parent[cursor] /\ look[Parent[cursor]] = "rough"
          /\ Parent[cursor] # None
      BY <1>n, <2>1, <3>3
    <3>5. name[cursor] = cursor /\ ident[cursor] = cursor
          /\ look[cursor] = IF phase[cursor] = "complete" THEN "whole" ELSE "rough"
      BY <1>n, <2>1, <2>3 DEF AsRecorded, Pinned
    <3>6. MayUnlink(cursor)
      <4>1. CASE Kind[cursor] = "dir"
        <5>1. phase[cursor] # "complete"
          BY <2>1, <4>1 DEF OrderInv, ReopenedInOrder, Dirs
        <5> QED
          BY <3>2, <3>5, <4>1, <5>1 DEF MayUnlink
      <4>2. CASE Kind[cursor] # "dir"
        BY <3>5, <4>2 DEF MayUnlink, OwnedValid
      <4> QED
        BY <4>1, <4>2
    <3>7. CASE CheckEntry
      BY <2>3, <3>4, <3>6, <3>7 DEF CheckEntry, Pinned
    <3>8. CASE UnlinkEntry
      <4>1. parentFd = DirAt(Parent[cursor])
        BY <3>8 DEF UnlinkEntry, AsRecorded
      <4>2. name[cursor] # None /\ Writable(parentFd)
        BY <2>1, <3>4, <3>5, <4>1 DEF Writable
      <4> QED
        BY <3>2, <3>8, <4>2 DEF UnlinkEntry
    <3> QED
      BY <1>10, <3>7, <3>8
  <2> QED
    BY <2>1, <2>2, <2>3
<1>11. CASE EntryAbsent
  <2>1. cursor \in Entry /\ phase[cursor] = "planned"
    <3>1. pc = "cleanup.absent" /\ cursor \in Entry /\ cursor \in Nat
      BY <1>11, <1>c DEF EntryAbsent
    <3>2. cursor >= cursor
      BY <3>1
    <3> QED
      BY <3>1, <3>2 DEF OrderInv, RemovedInOrder
  <2> QED
    BY <1>11, <2>1 DEF EntryAbsent, AsRecorded
<1>12. CASE CheckEmptyRoot \/ UnlinkRoot
  <2>1. /\ pc \in {"cleanup.rmroot.check", "cleanup.rmroot"}
        /\ ~rootUnlinked /\ phase[0] = "identified"
        /\ \A p \in Entry : phase[p] = "planned"
    BY <1>12, <1>c
       DEF CheckEmptyRoot, UnlinkRoot, OrderInv, RemovedInOrder,
           ReopenedInOrder
  <2>2. created[0] = 0 /\ Count(0) = 0
    BY <2>1, ForgottenIsEmpty
  <2>3. name[0] = 0 /\ ident[0] = 0 /\ look[0] = "rough"
    BY <2>1 DEF AsRecorded, Pinned
  <2> QED
    BY <1>12, <2>2, <2>3 DEF CheckEmptyRoot, UnlinkRoot, AsRecorded
<1>13. CASE FinishCleanup \/ RefinishCleanup
  <2>1. rootUnlinked
    BY <1>13 DEF FinishCleanup, RefinishCleanup, OrderInv, RemovedInOrder
  <2> QED
    BY <1>13, <2>1 DEF FinishCleanup, RefinishCleanup, AsRecorded
<1>14. CASE DirectoriesReopened \/ EntriesUnlinked \/ Abandon
  BY <1>14 DEF DirectoriesReopened, EntriesUnlinked, Abandon
<1> QED
  BY <1>1, <1>2, <1>3, <1>4, <1>5, <1>6, <1>7, <1>8, <1>9, <1>10, <1>11, <1>12,
     <1>13,
     <1>14 DEF Next, CleanUp

\* A cleanup is refused only for a call that fails in that step, for an outsider
\* or for a name never identified: for every projection the journal left by any
\* failures, in building, in cleaning or in a retry, is one cleanup can finish.
THEOREM RefusedForACause == Spec => RefusalHasACause
<1> DEFINE J == EntriesAreReached /\ OrderInv /\ Undisturbed
<1>1. Init => J
  <2>1. ASSUME Init PROVE OrderInv
    BY <2>1, PlanFacts, SealedAtFirst, RemovedAtFirst
       DEF OrderInv, Init, FilledInOrder, ReopenedInOrder, Cleaning
  <2>2. ASSUME Init PROVE AsRecorded
    BY <2>2, PlanFacts DEF Init, AsRecorded, Pinned
  <2> QED
    BY <2>1, <2>2, RemovedAtFirst DEF Undisturbed
<1>2. ASSUME IInv, J, [Next]_vars PROVE J'
  <2>1. EntriesAreReached' /\ OrderInv'
    BY <1>2, ReachKept, SealKept, RemovalKept, FillingKept, ReopeningKept
       DEF OrderInv
  <2>2. CASE Interfere
    <3>1. meddles' # 0
      BY <2>2, <1>2 DEF Interfere, Meddle, IInv, TypeOK
    <3> QED
      BY <2>1, <3>1 DEF Undisturbed
  <2>3. CASE ~Interfere
    <3>1. meddles' = meddles
      BY <1>2, <2>3, HistoryChangesThere
    <3>2. Undisturbed'
      BY <1>2, <2>3, <3>1, RecordKept DEF Undisturbed
    <3> QED
      BY <2>1, <3>2
  <2> QED
    BY <2>2, <2>3
<1>3. ASSUME IInv, J, [Next]_vars, pc' = "recoverable", pc # "recoverable"
      PROVE  \/ faults' # faults
             \/ meddles > 0
             \/ \E p \in Entry : phase[p] = "named"
  <2>1. CASE meddles = 0
    <3>1. ~Interfere
      BY <1>3 DEF Interfere, Meddle
    <3> QED
      BY <1>3, <2>1, <3>1, NothingRefused DEF Undisturbed
  <2>2. CASE meddles # 0
    BY <1>3, <2>2 DEF IInv, TypeOK
  <2> QED
    BY <2>1, <2>2
<1> HIDE DEF J
<1>4. Spec => []J
  BY <1>1, <1>2, InvariantHolds, PTL DEF Spec
<1> QED
  BY <1>3, <1>4, InvariantHolds, PTL DEF Spec, RefusalHasACause
=============================================================================
