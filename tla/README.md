# Verification of the EIP-0045 campaign executor

TLA+ models, TLC runs and TLAPS proofs kept beside the EIP-0045 reproduction
repository. They are about the parts of it that keep state and can be
interrupted, raced or made to fail half way: the campaign executor under
`generator/src/b4_campaign_executor/`, which reads authenticated inputs, replays
OCI layers, builds and removes root filesystem trees and publishes results
exactly once; the publisher of terminal evidence under `reproduction/src/`; and
the process supervision of the H0 appliance under `appliance/`.

`PROJECT.json` lists components, runs, hazards, findings, theorems, and which
source lines each definition stands for.

## 1. Inventory

The repository fixes one zkVM profile (RISC Zero, succinct receipts), generates
a corpus of positive and negative test vectors for it (the "B4 campaign"), and
lets anybody reproduce and validate that corpus. Most of its code is a function
from bytes to a verdict. The state is in the following parts.

| Component | State it keeps | Operations | What makes it correct |
|---|---|---|---|
| Create-only directory transaction, `create_only.rs` | names under one parent, retained descriptors and observations of every entry, a poisoned flag, entry and byte counts | begin, create_directory, create_file, publish_and_adopt_directory_tree, commit_durable, reopen with postcommit validation | one winner per destination; what the final name denotes is whole and durable; success is never taken back; a failed transaction does nothing more |
| Physical OCI rootfs, `oci_image_layout_import/rootfs/physical.rs` | a journal per entry (planned, named, identified, complete), child counts, retained identities, retry custody | materialize_private, authenticate, cleanup, retry_cleanup | only a tree equal to the projection is retained; only own objects are unlinked; custody lasts until nothing is left |
| Execute session over the OCI inventory, `mod.rs`, `oci_image_layout_import.rs` | four image slots, the failures that own their trees, custody of executable, campaign root and prior roots | capture, execute, with_retained_mutation, with_authenticated_oci_replay, retry_cleanup | no tree is forgotten whatever fails; drift is reported; success leaves nothing behind |
| Immutable-root custody and authenticated reads, `custody.rs` | identity, metadata and digest of every file of the prior roots; the counting and hashing reader with its sticky failure | recheck, with_authenticated_file_bytes, _stream, and the two-stream replay | only the bytes in custody are delivered; no failure is lost |
| Terminal evidence publisher, `reproduction/src/b4_terminal_evidence_io.rs` | staging and final name, retained files, two measured physical closures | preflight, publish, reopen | returned means durable and exact; an accepted packet existed at one instant; one winner |
| publish-terminal-evidence handler | outer transaction, inner packet, receipt | prepare, begin, publish and adopt, write receipt, commit and validate | no packet without its receipt |
| Other campaign handlers | retained artifacts and a byte budget | read, derive one artifact, publish it | the precommit read at execute is the one of the preflight; budgets hold |
| OCI logical staging and layer replay, `rootfs.rs` | operations per layer, spool extents, whiteouts, poisoned flag | apply layer, seal, replay, project | what is retained is what the stack of layers means; nothing is projected from a poisoned staging |
| Physical tree manifest, `b4_tree.rs` | two snapshots by path | derive, verify | equal snapshots are of one tree |
| H0 appliance, `appliance/h0-tmpfs-provider/` | typed session states with digest chains, child processes behind pidfds, control bytes | spawn, exec gate, send, receive, contain | only the measured program is listened to; no unowned child; nobody waits for ever |
| Parsers, validators, encodings, tables, prover calls | none beyond a call | | verdicts are functions of bytes |

How they interact. A campaign command captures an *execute session*: it pins the
running executable, the campaign root and the prior roots (*immutable-root
custody*) and rechecks them around every effect. Effects read artifacts through
*authenticated reads*, for OCI images through a two-stream replay that leaves an
anonymous spool per image; each spool becomes a *physical rootfs* tree that is
retained during a continuation and then removed. Results are published in a
*create-only transaction*; for terminal evidence the packet publisher runs as
a callback inside that transaction, which then adopts the packet. The H0
appliance is a system of its own: a supervisor starts a generator and a worker
process from measured executables and exchanges frames with them.

What is hard here: other processes of the same user may change names and files
between any two system calls; any system call may fail after an earlier one had
its effect; a crash may lose whatever was not synchronized; two executors may
race for one destination; failures own resources and are themselves retried.
Nothing is concurrent inside one executor, and there are no timers. In the H0
appliance supervisor and child run concurrently and block on each other.
The hazards in `PROJECT.json` name the lines.

## 2. Modules

| Module | Models | Extends |
|---|---|---|
| `CreateOnly` | several writers' create-only transactions on one filesystem | |
| `CreateOnce` | what a create-only destination promises (abstract) | |
| `RootfsPhysical` | one physical rootfs tree from preflight to the last retry | |
| `OciReplay` | one execute session over all slots; a slot's outcomes are the resting states of `RootfsPhysical` | |
| `AuthenticatedStream` | one read of one file in custody, of the three kinds | |
| `TerminalEvidence` | several publishers of one packet destination; refines `CreateOnce` | |
| `PacketReopen` | the walk of one reopening of a packet, read by read | |
| `LayerStack` | what a stack of OCI layers means (reference definition) | |
| `RootfsReplay` | staging, sealing, validation and projection of an image's layers | `LayerStack` |
| `H0Child` | a supervisor of the H0 appliance and one child | |
| `MC*` | instances for TLC | the module named |
| `*Proofs` | theorems | the module named, `TLAPS` |

### CreateOnly

`pc[w]` is the next system call of writer `w`; `names`, `node`, `entrySynced`,
`dataSynced` and `recoverable` are the filesystem and what of it survives a
crash; `held`, `known`, `done`, `seal`, `drift` are what the writer retains.
There is one action per system call and one per reauthentication between two of
them. Effects of others are actions of their own (`Meddle*`), failing calls are
`Fault`, and `Crash` chooses any subset of the unsynchronized entries and bytes
to lose. Inode metadata is kept only as how an object differs from the retained
observation. One reauthentication of a tree is one step: what it compares is
all there (`TreeVerified`), but not that the walk takes time. The packet
publisher's callback is any set of entries put into the staging tree.

### RootfsPhysical

The journal (`phase`, `ident`, `created`, `rootUnlinked`) is what the finalizer
believes; `name`, `look` and `extra` are the filesystem. Each position has its
own object, and every other object is an outsider's; inode numbers are not
reused. Actions follow the code call by call through making, pinning, filling,
sealing, retaining, reopening and unlinking, and `Fail` leads from any of
them to where the code's error path leads. One validation of the retained tree
is one step. The outsider restores timestamps, so that only what the code
compares can give it away. `slipped` records objects put under a name in one of
the two windows in which the code has no identity to compare: between mkdirat
or symlinkat and the pin, and between the last check and unlinkat. Namespace
and credential checks only ever fail as faults, absence check and creation of a
name are one step, and the verdicts of the ELF, JVM release and startup readers
are a free choice in `Authenticate`.

### OciReplay

`slot[s]` is what has become of an image; `owner[s]` is what holds it: the
session or a named failure. `error` is the set of failures the returned error
carries. Every recheck is one step that refuses a changed world and may refuse
a sound one. Archive inspection and replay are free verdicts. A retry visits
the slots in the order of the code. The production code exposes retries
and never calls them itself, so they may happen or not.

### AuthenticatedStream

`seen` is what the reader has counted and hashed, `sticky` its retained failure,
`outcome` the causes in the returned error and `failed` every stage that really
failed; they are different variables because a parser may ignore a failing
read. A digest is its content. Metadata is identity and length; that changes
move mtime and ctime is not relied upon. The parser is free at every block.
The capture of the root is the initial state.

### TerminalEvidence

`pc[w]` is the next call of publisher `w`, from preflight to the return of its
authority. `names` is what staging and final name denote; `entry[w]` whether a
place in `w`'s tree holds the object `w` made (`own`) or another that looks the
same (`twin`); `data[w]` whether a file's bytes are the prepared ones (`good`),
those of another valid packet (`other`) or anything else (`torn`). The
variables ending in `Kept` are the values a crash may leave: a write adds to
them, a synchronization reduces them to the present one. `staged` is the identity the
staged reopen established, with which the final one is compared. A reopen and a
measurement are one step each. `late` remembers whose names were disturbed
after its last synchronization, by an outsider or by another publisher that an
outsider's name had deceived, which no later check can make durable again; it
occurs in the properties only. `ByPath` tells a parent pinned by path, which is
reauthenticated around every call, from one pinned by descriptor.

### PacketReopen

The step `TerminalEvidence` takes at once is here the walk of
`reopen_b4_terminal_evidence_packet_from_descriptor`: every file twice, all of
them with handles retained, directories, handles and names again, directories.
Names denote objects and objects hold bytes. A read resolves its name when it
starts and returns when it ends any bytes the object had in between (`during`)
or a mixture. A digest is the bytes it is of; change times are not relied on.

### LayerStack and RootfsReplay

`LayerStack` says without replaying anything what a stack of layers means: a
path is live if some layer defines it and no later layer hides it or replaces
an ancestor of it by something else than a directory; and it says which images
are well-formed. `RootfsReplay` is the code: the caller opens a sink per blob, in
*blob order* and not in stacking order, begins, writes and finishes files,
stages directories, links and whiteouts; then layers are sealed, the journal is
validated, whiteouts and entries are applied layer by layer with their
counters, effects and spool are checked, and the projection is retained,
revalidated and discarded. `image` is what the authenticated seals describe.
The caller may deliver something else, go on after an error, or stop; a call
may fail; the spool may be altered or its place lose custody. `MaxTroubles`
bounds these together. `Entry` is what the archive's parser lets through: a
path has at least one component except for an opaque marker in the root, and
only regular files have bytes. A digest is the content it is of, so `lines` holds
what a layer's operation transcript was fed and `transcript` what its canonical
transcript was. No copy of `lines` is kept at the seal: a sealed layer takes no
more operations. The limits of the code are constants: operations of all layers
and of one, bytes in all, bytes of one file, metadata, and entries and bytes of the
live tree. Metadata is counted in units of its own: `Charge` gives every
entry a constant, the length of its name, and more for an extent, a link's target
or a whiteout's subject, as `staged_operation_metadata_reservation_parts` does
with compiled constants of bytes; `metadata` is what is above the fixed base. So
an image that exceeds one of these limits is not well-formed, and "never
refused" is said of the others; what is left to a failing call is memory and I/O.
Modes, owners, link targets and the canonical bytes of transcripts are left out. A
component of a path is a number, ordered as the archive names with their whiteout
prefixes are. `Precedes` compares paths component by component where the code
compares strings of bytes: the two orders differ only if a component is a
proper prefix of another one, followed by a character below the slash. Both put a
directory before what is below it, which is what the proofs need of the order.

### H0Child

`sup` is the supervisor's next step, `child` that of the child: the trampoline
between clone3 and execveat, the program, or what became of it. `ends` says who
holds which end of the barrier's socket pair: clone3 gives the child both, so a
read that nobody answers ends only when every copy of the other end is closed.
`toChild` and `toSup` are the control bytes. `exe` is what the executable file
contains now, `touched` that its change time moved, `image` what the child was
started from. One authentication of the executable is one step, and a frame
has a sender and no content. What is compared before and after a frame is
`Projected`: executable and child around every frame, a worker's maps around the
bootstrap frame only, after which the code does not read them again. Every failure
leads to containment: the Drop of
the handle, which kills and reaps through the pidfd, or by number before there
is one. The outsider rewrites and restores the executable, kills the child and
kills the supervisor. There is one child: no binary of the repository joins
both (`UninhabitedSessionInputV1` has no values).

## 3. Runs

| Run | Instance | Shows |
|---|---|---|
| `race` | 3 writers, directory with one file, 1 fault, 1 crash | publication is whole and durable, one winner, `CreateOnce` as refinement, every transaction ends |
| `meddle` | 2 writers, directory with two files and an entry bound that admits one of them, 2 interventions | success vouches for the sealed durable tree; nothing is replaced; the compiled bounds hold |
| `rootfs_custody` | directory in directory, file, link; 2 interventions, 2 faults | journal, exactness, unlinking, custody; a cleanup refuses only for a cause; calls return |
| `oci_session` | 4 slots, 2 changes, 2 retries | custody, reporting, success is clean, termination |
| `stream_calls` | two-block file, lengths 0 to 3, 2 interventions | authenticity, fail-closed, no lost failure |
| `stream_owned` | the same | finding: an owned value is dropped |
| `packet_race` | 2 publishers, 1 fault, 1 crash | no torn or undurable packet under the final name; a failure after the rename leaves a complete one; `CreateOnce` as refinement |
| `packet_meddle` | 1 publisher, parent pinned by path, 2 interventions, 1 fault, 1 crash | authority only for a whole and durable packet |
| `packet_winner` | 2 undisturbed publishers | finding: both can be refused |
| `packet_walk` | 3 files, path order unlike manifest order, 2 interventions, 1 fault | what is accepted existed at one instant; a refusal has a cause |
| `rootfs_replay` | some five hundred images of 3 layers and up to 4 entries, 1 deviation, fault or disturbance | what is retained is `LayerStack`'s stack; a meaningful image is not refused without a cause; the projection is a tree at every step |
| `h0_barrier` | either role with the frames of `session.rs`, 2 interventions, 1 fault | only measured programs are listened to; no child outlives its handle; no wait at the barrier is for ever |

Why these bounds. The third writer of `race` begins after the first has
published and the second was refused. A directory with a file is the smallest
tree with two levels of synchronization. Two interventions allow a change and
its reversal, which is what a double check can miss. In `meddle` the last file
reaches the entry bound, so that the boundary itself is passed and refused; the
bound of bytes is not reached there and rests on the theorem `BoundsHold`. In
`RootfsPhysical` the inner directory gives seal and unlink orders something to
get wrong, and two faults are one for a build or seal and one for the cleanup
or retry that follows. Four slots are the code's own number. Files from empty
to one block longer than the retained one cover truncation, growth and equal
length with other content. `MaxTrees` only has to be as large as the number of
writers and outside trees in use. In `packet_walk` manifest, payload and
completion are visited in an order that differs between the passes, so that a
change can hit a file after one pass and before another in either direction.
The images of `rootfs_replay` are a first layer to work on and any two entries
above it, in one layer or in two: hiding, replacing and restoring a path takes
that many. Some images reach the limits of entries and of metadata, and some exceed
those of bytes, of bytes of one file, of metadata and of live entries; the limit of
live bytes is that of bytes in all, as in the code, so it never decides. The blob of
the first layer comes last. The script of
`h0_barrier` is that of the code, so its length is not a bound.

Two configurations say `CHECK_DEADLOCK FALSE` (`oci_session` and the
`AuthenticatedStream` ones): a call that has returned has nothing more to do.
In the other modules a final stuttering step stands for that, and in `h0_barrier` the
absence of deadlock is part of the point.

Fairness. `WF` on a writer's steps, on the finalizer's build and cleanup steps
and on a session's steps: each is straight-line code of one thread that the
scheduler keeps running. That it ends is therefore expected (`EveryTransactionEnds`,
`EveryCallReturns`, `EverySessionReturns` say that no order of failing calls
leaves a step without a successor); only in `h0_barrier` does anybody wait. In
`H0Child` `WF` on the supervisor, on the
trampoline and on the delivery of SIGKILL; none on the program the child has
become, which may hang. There is no fairness on retries, faults, crashes or
outsiders. The other runs check safety only.

## 4. Proofs

All theorems hold for every value of the constants under the named `ASSUME`s:
bounds are naturals; the paths of a create-only tree are finitely many, the
parent of one is a directory or the root, and no chain of parents is endless; a
projection lists parents before children and seals children before parents; the
captured file fits the length bound; an image has at least one layer, each in
one blob, and its entries are what the parser lets through; an absent value is
neither a number nor an open file.

* `CreateOnlyProofs`, from seven invariants that build on each other: the types
  with what the program counter says of the retained root and the path at hand
  (`TypeCorrect`); the ledger of entries and bytes (`BoundsHold`; that paths are
  finite is needed to count them); the trees and who made what is in them
  (`NothingReplaced`); which of it has been synchronized, so that a crash takes
  nothing from a tree synchronized to the root (`ReturnVouches`; that parents
  are well-founded is needed here, since a path survives only with all above
  it); which phases own the staging name, the final name, and a final name no
  crash can take back (`OwnershipHolds`, and from it `AtMostOneWinner` and
  `WinnerIsKept`); what the final name denotes (`FinalWhole`). "One winner" is
  not inductive without the ownership of names: five steps move names, all
  others are covered by one frame lemma. `TransactionIsCreateOnce` is the
  refinement of `CreateOnce`, step by step, for behaviours in which no outsider
  meddles: the run checks it there too, an outsider could rename anything.
* `TerminalEvidenceProofs`: `TypeCorrect`, `ReturnedDurably`, `FinalWhole`,
  `RenamedPublished`, and `PublisherIsCreateOnce`, the same refinement. Two
  invariants carry them: from its last synchronization on a publisher's
  packet can change only by a disturbance that `late` or `data` records, and
  while nobody interferes the two names belong to publishers in known phases.
  The attempt to prove `ReturnedIsDurable` showed it false for larger bounds
  than those of the runs: an outsider puts a publisher's tree back under the
  staging name before the publisher's only fsync of the parent, and another
  publisher, deceived, renames it once more after that fsync. `late` now covers
  such a rename too.
* `PacketReopenProofs`: `ReopenTypeCorrect`, `AcceptedExisted`,
  `RefusalIsCaused`. The instant at which an accepted packet existed is the
  reauthentication of the directories between the retained pass and the last:
  what a name or an object had left by then and was not given back cannot be
  read again.
* `RootfsReplayProofs`: `AlwaysATree`, `RetainedExactly` and
  `RefusedForACause`, for any number of layers, entries and disturbances. The
  journal of a layer stands for its transcript, also after a failed call; a
  transcript that passed its seal is the image's layer; the validated order makes
  a path defined at most once in a layer and never after something below it; so the
  projection at a cursor is the lower
  stack without what the entries before it hide, with what they define, and
  at the end of a layer that is `LayerStack`'s next stack. That
  `remove_projection_subtree` looks below live directories only takes nothing
  away from this because the projection is a tree at every step.
  That nothing right is refused needs the converse of every check. While
  nothing goes wrong, what the sink has heard begins the image's layers, so the
  image's own limits leave room for the next entry; every operation has its place
  in its layer's journal and its extent, and the extents lie in the spool end to
  end. The metadata charged one by one is what the journal reserves when it is
  recomputed, and the lines a layer's transcript was fed are its operations
  (`LimitInv`; that the reservation of the image bounds that of its beginnings is a
  bijection of operations and positions). So journal, seals and spool pass. At every
  cursor a live path carries
  the latest effect applied to it, in stack order although the blobs came in
  another, so the effects pass; the parent of an entry is already live because
  it sorts before it or comes from below; and the counters are the census of
  the stack, which is what the caller expects.
* `RootfsPhysicalProofs`: `RootfsTypeCorrect`, `JournalHolds`, `CountsHold`,
  `OnlyOwn`, `UnlinkedOnce`, `UnidentifiedKept`, from `TypeOK /\ JournalIsSound`.
  The types need the journal: a child count stays a natural number because it is
  the cardinality of the named children, so `checked_sub(..).expect(..)` cannot
  abort a cleanup. `MaterializedExactly`, `CustodyKept`, `SpoiledKept` and
  `RefusedForACause`, for every projection, any failing calls, interventions and
  retries, each need the order of a loop as well.
  - What is returned is exact (`SealedInOrder`): the last validation looks at
    every entry and its recorded identity but only at the number of names in a
    directory; since every planned name was found and surplus names can stand in
    directories only, equal numbers leave room for none.
  - Custody (`EntriesAreReached`, `RemovedInOrder`): cleanup unlinks backwards,
    behind its cursor everything is forgotten, and what is forgotten is gone.
  - A spoiled tree is left alone (`EachHasItsPlace`, `FilledInOrder`,
    `SpoiledStaysBroken`): an object is found, by name or in the journal, at one
    position only, so no step brings a displaced one back, and an entry that was
    broken when its validation was still ahead is still broken when it comes.
  - Nothing is refused without a cause (`ReopenedInOrder`, `AsRecorded`): while
    nobody interferes the filesystem is what the journal says down to every name,
    whichever calls fail, so the checks of reconciling, reopening, revalidating
    and unlinking all pass.

  A recursive function cannot be unfolded by the provers, so `AncestorsOf` is
  stated as the least set that holds an entry's parent and, with each member, its
  parent.
* `OciReplayProofs`: `ReplayTypeCorrect`, `CustodyHolds`, `NothingIsLeftOpen`,
  `SuccessHolds`, `OneAggregateHolds`, `ReverseHolds`, `OrderHolds`,
  `DriftHolds`, for any number of slots, from `TypeOK /\ SlotsFollowStep`,
  which says for each step of the session where the slots before, at and after
  the cursor stand and who owns them. `AlterationHolds`: while the altered slot
  is still to be authenticated again at exit the fault is ahead, that
  authentication does not pass it, and no later step takes a failure out of the
  error (`Noted`).
* `AuthenticatedStreamProofs`: `StreamTypeCorrect`, `Authentic`, `Closed`,
  `NoneIsLost`, for every file and any number of changes, from
  `TypeOK /\ CallIsSound`. The invariant mentions only what the call has
  established, never the file, so outside steps preserve it trivially; that
  finish() compares the digest is what it rests on.
* `H0ChildProofs`: `ChildTypeCorrect`, `AcceptedHolds`, `NobodyOrphaned`, for
  any script of frames and any number of interventions and faults. That only
  frames of the measured program are accepted is not inductive: it needs that
  an executable whose change time did not move never had other bytes, that a
  waiting frame came from a program and a program went through the barrier, and
  which steps of the supervisor have no child yet or have reaped it.

`OwnershipHolds`, `WinnerIsKept`, `CountsHold`, `UnlinkedOnce`,
`UnidentifiedKept`, `OneAggregateHolds`, `ReverseHolds` and `OrderHolds` state
properties that no run repeats.

Where a proof needs induction over data (the distance of two entries in a layer,
the topmost layer that defines a path), it takes the least element of the set of
counterexamples; the induction schemes of the library are out of the provers'
reach.

Every property of the passing runs that is not liveness is stated by a theorem. Only
model-checked: all liveness (`EveryTransactionEnds`,
`EveryCallReturns`, `EverySessionReturns`, `EveryWaitEnds`), which the proof
system does not reach.

## 5. Findings

* `packet_winner`. The test
  `publication_two_writer_barrier_has_exactly_one_winner_and_immutable_bytes`
  releases two publishers after their preflight and asserts that one returns
  its authority. There may be none: the second makes the reserved staging name
  just after the first renamed it away, and the first then fails its check that
  the name is absent although its packet is published; the second fails its own
  rename. Nothing wrong is published; both callers are told they failed.
  `create_only.rs` has the same window at the check after its rename; its test
  `two_create_only_writers_have_exactly_one_winner` runs the writers one
  after the other.
* `stream_owned`. `reject` is how a parsed value that owns resources is closed
  before delivery, but it is called on one of the ways out only. The values
  dropped on the others hold an anonymous spool that the kernel reclaims; what
  is skipped is the explicit discard that its type asks for.

## 6. Not modelled

The parts that map bytes to verdicts (parsers, validators, canonical encodings,
fixture tables, claims, seals, profiles), the zkVM prover and the guest, build
scripts and containers, and the kernel ABI wrappers. They are most of the
repository's lines. A model of them would be the code again, and nothing in
them is interleaved or outlives a call.

In the modelled files: the walk behind one recheck or reauthentication (one
step, except in `PacketReopen`), the budgets of the snapshot walk, path-length
and mount checks (they fail as faults), the readers of ELF, JVM release and
startup files, tar and gzip, the modes, link targets and transcript bytes of a
root filesystem, and the reopening of a packet on platforms without
descriptors. Of the H0 appliance: two children together, the contents and
digest chains of frames, ancillary data, and the contract phases of `state.rs`.

## 7. Plan

1. The publish-terminal-evidence handler: `TerminalEvidence` inside
   `CreateOnly`'s `PublishCallback`, then receipt and commit. Property: no
   packet is taken for published without its receipt.
2. `ImmutableTree`: capture and recheck as walks with budgets, which refines
   the one-step recheck of `AuthenticatedStream` and `OciReplay`; the same
   technique, taken from `PacketReopen`, for `VerifyTree` (`b4_tree.rs`).
3. `CampaignHandler`: retained artifacts under a budget, the precommit identity
   between preflight and execute, and one create-only publication.
4. Negative-ancestry publication: an inventory written in place, with crashes.
5. `H0Session`: both children, message order with digest chains, failure after
   a successful send; `AttemptPhaseV1` as abstract specification.
6. `RecursiveAncestry`: precedence of defects against a declarative reference.
7. Theorems: what the passing runs check of safety is proved; a new component
   gets the theorems of its invariants with its module.
