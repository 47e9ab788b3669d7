---------------------------- MODULE RootfsReplay ----------------------------
(***************************************************************************)
(* The private staging of an OCI root filesystem                           *)
(* (oci_image_layout_import/rootfs.rs, and the changeset transcript of     *)
(* layer.rs).  The layers of an image are replayed into a sink in the      *)
(* order of their blobs, which is not the order in which they are stacked. *)
(* Payloads are appended to an anonymous spool, entries to a journal; then *)
(* every layer is sealed against what was authenticated, the journal is    *)
(* validated and projected layer by layer, and the projection is compared  *)
(* with the expected counts and retained over the spool.                   *)
(*                                                                         *)
(* "image" is what the seals authenticate.  The caller of the sink may     *)
(* deviate from it, any call may fail, the caller may go on after an       *)
(* error, and the spool or the custody of the place may be disturbed.      *)
(***************************************************************************)
EXTENDS LayerStack

CONSTANTS
  Images,        \* the images to replay: [Layer -> Seq(Entry)]
  Strays,        \* entries a deviating caller may deliver instead
  BlobOrder,     \* BlobOrder[i]: the layer of the i-th blob
  None,
  MaxTroubles    \* bound: deviations, disturbances and failing calls together

Layer == 1..Len(BlobOrder)
Byte == {0, 1}

\* What the parser of an archive yields: a path has components, except the
\* subject of an opaque marker in the root, and only regular files have payload.
Entry ==
  {e \in [kind : Kind, path : Seq(1..MaxName), payload : Seq(Byte)] :
     /\ e.kind # "opaque" => e.path # <<>>
     /\ e.kind # "regular" => e.payload = <<>>}

\* An image has at least one layer (OCI_MIN_LAYERS), each in one blob.
ASSUME ReplayAssumption ==
  /\ BlobOrder \in Seq(Layer) /\ Len(BlobOrder) > 0
  /\ \A l \in Layer : \E i \in Layer : BlobOrder[i] = l
  /\ \A image \in Images : image \in [Layer -> Seq(Entry)]
  /\ \A e \in Strays : e \in Entry
  /\ MaxTroubles \in Nat

\* The regular file being written, with what the caller announced of it.
Opening == [layer : Layer, index : Nat \ {0}, entry : Entry, offset : Nat,
            written : Seq(Byte)]

\* An Option that is None holds no number of a layer, no count and no file.
ASSUME NoneAssumption == None \notin Nat /\ None \notin Opening

Phases ==
  {"begin", "replay", "seal", "journal", "check", "whiteout", "entry", "effects",
   "spool", "retained", "revalidated", "discarded"}

VARIABLES
  image,
  \* the caller
  blob, next, sink, sinkState,
  \* the transaction
  phase, poisoned,
  spool,       \* the bytes of the anonymous file
  spoolBytes,  \* physical_regular_bytes
  extents, operations, bySource,
  captured,    \* captured_layer_entries
  transcript,  \* captured_canonical_layer_transcripts
  lines,       \* captured_layer_transcripts, of the operations journalled
  sealed, open, openInert,
  metadata,    \* logical_metadata_bytes, above the fixed base
  \* the projection
  layer, cursor, live, rootEffect, counters,
  expected,    \* the census the caller expects of the live tree
  \* the environment
  custody,     \* namespace, parent path and absent destination as they were
  altered,     \* the spool was disturbed after its last validation
  deviations, meddles, faults

callVars == <<blob, next, sink, sinkState>>
journalVars == <<spool, spoolBytes, extents, operations, bySource, captured,
                 transcript, lines, sealed, open, openInert, metadata>>
projectionVars == <<layer, cursor, live, rootEffect, counters, expected>>
envVars == <<custody, altered, deviations, meddles, faults>>
vars == <<image, blob, next, sink, sinkState, phase, poisoned, spool, spoolBytes,
          extents, operations, bySource, captured, transcript, lines, sealed, open,
          openInert, metadata, layer, cursor, live, rootEffect, counters,
          expected, custody, altered, deviations, meddles, faults>>

Zero == [entries |-> 0, regular |-> 0, directory |-> 0, symlink |-> 0, bytes |-> 0]

Init ==
  /\ image \in Images
  /\ blob = 1 /\ next = 1 /\ sink = None /\ sinkState = "none"
  /\ phase = "begin" /\ poisoned = FALSE
  /\ spool = <<>> /\ spoolBytes = 0
  /\ extents = <<>> /\ operations = <<>>
  /\ bySource = [l \in Layer |-> <<>>]
  /\ captured = [l \in Layer |-> 0]
  /\ transcript = [l \in Layer |-> [done |-> <<>>, open |-> None]]
  /\ lines = [l \in Layer |-> <<>>]
  /\ sealed = [l \in Layer |-> None]
  /\ open = None /\ openInert = FALSE /\ metadata = 0
  /\ layer = 1 /\ cursor = 1 /\ live = <<>> /\ rootEffect = None /\ counters = Zero
  /\ expected = Zero
  /\ custody = TRUE /\ altered = FALSE
  /\ deviations = 0 /\ meddles = 0 /\ faults = 0

-----------------------------------------------------------------------------
\* The sink

\* A call returns an error that poisons the staging.
Poison ==
  /\ poisoned' = TRUE
  /\ UNCHANGED <<journalVars, sink, sinkState>>

MayDisturb == deviations + meddles + faults < MaxTroubles

Deviates(does) ==
  \/ ~does /\ UNCHANGED deviations
  \/ does /\ MayDisturb /\ deviations' = deviations + 1

Calling ==
  /\ phase = "replay" /\ ~poisoned
  /\ UNCHANGED <<image, phase, projectionVars, custody, altered, meddles, faults>>

SpoolLength == spoolBytes + (IF open = None THEN 0 ELSE Len(open.written))

\* validate_spool_descriptor
SpoolIs(length) == custody /\ Len(spool) = length

\* validate_next_source, and that no entry is open
SourceIsNext(l) ==
  /\ open = None /\ ~openInert
  /\ sealed[l] = None
  /\ captured[l] = Len(bySource[l])

\* replay_semantic_layer_sink
OpenSink ==
  /\ Calling
  /\ sink = None /\ blob <= Len(BlobOrder)
  /\ sealed[BlobOrder[blob]] = None /\ open = None /\ ~openInert
  /\ sink' = BlobOrder[blob] /\ sinkState' = "none"
  /\ next' = 1
  /\ UNCHANGED <<blob, poisoned, journalVars, deviations>>

\* The next entry of the layer, or another one.
Offered ==
  Strays \cup (IF sink # None /\ next <= Len(image[sink]) THEN {image[sink][next]} ELSE {})

Delivers(e) ==
  /\ sink # None /\ sinkState = "none"
  /\ Deviates(~(next <= Len(image[sink]) /\ image[sink][next] = e))
  /\ next' = next + 1
  /\ UNCHANGED blob

\* pwrite: the file grows as far as needed.
WrittenAt(at, b) ==
  [i \in 1..(IF at > Len(spool) THEN at ELSE Len(spool)) |->
     IF i = at THEN b ELSE IF i <= Len(spool) THEN spool[i] ELSE 0]

Header(e) == [e EXCEPT !.payload = <<>>]

\* What both kinds of entries have to pass.
Stageable(e) ==
  /\ SourceIsNext(sink)
  /\ metadata + Charge(e) <= MaxMetadata
  /\ Len(operations) < MaxTarEntries
  /\ transcript[sink].open = None
  /\ e.kind = "regular" => /\ SpoolIs(SpoolLength)
                           /\ Len(e.payload) <= MaxFileBytes
                           /\ spoolBytes + Len(e.payload) <= MaxTarBytes

\* begin_regular
BeginRegular(e) ==
  /\ Calling
  /\ Delivers(e)
  /\ e.kind = "regular"
  /\ \/ /\ Stageable(e)
        /\ transcript' = [transcript EXCEPT ![sink].open = Header(e)]
        /\ open' = [layer |-> sink, index |-> captured[sink] + 1, entry |-> e,
                    offset |-> spoolBytes, written |-> <<>>]
        /\ metadata' = metadata + Charge(e)
        /\ sinkState' = "regular"
        /\ UNCHANGED <<sink, poisoned, spool, spoolBytes, extents, operations,
                       bySource, captured, lines, sealed, openInert>>
     \/ ~Stageable(e) /\ Poison

\* write_regular_chunk
WriteChunk(b) ==
  /\ Calling
  /\ sink # None /\ sinkState = "regular"
  /\ Deviates(~(/\ Len(open.written) < Len(open.entry.payload)
                /\ open.entry.payload[Len(open.written) + 1] = b))
  /\ \/ /\ Len(open.written) < Len(open.entry.payload) /\ custody
        /\ spool' = WrittenAt(open.offset + Len(open.written) + 1, b)
        /\ open' = [open EXCEPT !.written = Append(@, b)]
        /\ transcript' = [transcript EXCEPT ![sink].open.payload = Append(@, b)]
        /\ UNCHANGED <<sink, sinkState, poisoned, spoolBytes, extents, operations,
                       bySource, captured, lines, sealed, openInert, metadata>>
     \/ /\ ~(Len(open.written) < Len(open.entry.payload) /\ custody)
        /\ Poison
  /\ UNCHANGED <<blob, next>>

\* What the transcript of a layer says of an operation, the digest of its
\* extent included.
Line(op, exts) ==
  [layer |-> op.layer, index |-> op.index, entry |-> op.entry,
   digest |-> IF op.extent = 0 THEN <<>> ELSE exts[op.extent].digest]

\* push_completed_operation, the extent being in the journal already
Journalled(l, op) ==
  /\ operations' = Append(operations, op)
  /\ lines' = [lines EXCEPT ![l] = Append(@, Line(op, extents'))]
  /\ bySource' = [bySource EXCEPT ![l] = Append(@, Len(operations) + 1)]
  /\ captured' = [captured EXCEPT ![l] = @ + 1]

Extent == [layer |-> sink, index |-> open.index,
           offset |-> open.offset, digest |-> open.written]

PayloadIsComplete ==
  /\ Len(open.written) = Len(open.entry.payload)
  /\ SpoolIs(open.offset + Len(open.written))

\* finish_entry of a regular file
FinishRegular ==
  /\ Calling
  /\ sink # None /\ sinkState = "regular"
  /\ Deviates(Len(open.written) # Len(open.entry.payload))
  /\ \/ /\ PayloadIsComplete
        /\ extents' = Append(extents, Extent)
        /\ Journalled(sink, [layer |-> sink, index |-> open.index,
                             entry |-> Header(open.entry), extent |-> Len(extents) + 1])
        /\ transcript' = [transcript EXCEPT ![sink].done = Append(@, transcript[sink].open),
                                            ![sink].open = None]
        /\ spoolBytes' = spoolBytes + Len(open.written)
        /\ open' = None
        /\ sinkState' = "none"
        /\ UNCHANGED <<sink, poisoned, spool, sealed, openInert, metadata>>
     \/ ~PayloadIsComplete /\ Poison
  /\ UNCHANGED <<blob, next>>

\* stage_inert_operation: directories, links and whiteouts are journalled at
\* once and stay open until finish_entry.
StageInert(e) ==
  /\ Calling
  /\ Delivers(e)
  /\ e.kind # "regular"
  /\ \/ /\ Stageable(e)
        /\ transcript' = [transcript EXCEPT ![sink].done = Append(@, e)]
        /\ Journalled(sink, [layer |-> sink, index |-> captured[sink] + 1,
                             entry |-> e, extent |-> 0])
        /\ metadata' = metadata + Charge(e)
        /\ openInert' = TRUE
        /\ sinkState' = "inert"
        /\ UNCHANGED <<sink, poisoned, spool, spoolBytes, extents, sealed, open>>
     \/ ~Stageable(e) /\ Poison

FinishInert ==
  /\ Calling
  /\ sink # None /\ sinkState = "inert" /\ openInert
  /\ openInert' = FALSE
  /\ sinkState' = "none"
  /\ UNCHANGED <<blob, next, sink, poisoned, spool, spoolBytes, extents, operations,
                 bySource, captured, transcript, lines, sealed, open, metadata, deviations>>

\* The caller is done with the layer and drops the sink, or drops it early.
DropSink ==
  /\ Calling
  /\ sink # None
  /\ Deviates(sinkState # "none" \/ next <= Len(image[sink]))
  /\ sink' = None /\ sinkState' = "none"
  /\ blob' = blob + 1
  /\ UNCHANGED <<next, poisoned, journalVars>>

\* A call of the sink fails for a reason of its own; a chunk may have reached
\* the spool, an extent the journal.
FailCall ==
  /\ phase = "replay" /\ ~poisoned /\ sink # None
  /\ MayDisturb
  /\ faults' = faults + 1
  /\ \/ UNCHANGED <<spool, extents, open>>
     \/ /\ open # None /\ Len(open.written) < Len(open.entry.payload)
        /\ spool' = Append(spool, 0) /\ UNCHANGED <<extents, open>>
     \/ /\ open # None /\ Len(open.written) = Len(open.entry.payload)
        /\ extents' = Append(extents, Extent)
        /\ open' = None /\ UNCHANGED spool
  /\ poisoned' = TRUE
  /\ UNCHANGED <<image, callVars, phase, spoolBytes, operations, bySource, captured,
                 transcript, lines, sealed, openInert, metadata, projectionVars, custody,
                 altered, deviations, meddles>>

-----------------------------------------------------------------------------
\* Sealing and the validation of the journal

\* discard_after: the staging is abandoned and its spool dropped.
Discard ==
  /\ phase' = "discarded"
  /\ UNCHANGED <<poisoned, journalVars, projectionVars>>

Outward == UNCHANGED <<image, callVars, envVars>>

\* After an error, of a call or of the next replay_semantic_layer_sink, the
\* caller discards the staging.
GiveUp ==
  /\ phase = "replay"
  /\ poisoned \/ (sink = None /\ (open # None \/ openInert))
  /\ Discard
  /\ Outward

\* The archive has been replayed, or the caller asks too early, in spite of an
\* error, or with the expectations of another image.
StartSealing ==
  /\ phase = "replay"
  /\ expected' \in {Census(Stack(image, Len(BlobOrder))), Zero}
  /\ Deviates(\/ ~poisoned /\ (sink # None \/ blob <= Len(BlobOrder))
              \/ expected' # Census(Stack(image, Len(BlobOrder))))
  /\ phase' = "seal" /\ layer' = 1
  /\ sink' = None /\ sinkState' = "none"
  /\ UNCHANGED <<image, blob, next, poisoned, journalVars, cursor, live, rootEffect,
                 counters, custody, altered, meddles, faults>>

\* seal_authenticated_semantic_layer
SealHolds(l) ==
  /\ ~poisoned /\ open = None /\ ~openInert
  /\ sealed[l] = None
  /\ captured[l] = Len(image[l])
  /\ transcript[l].open = None
  /\ transcript[l].done = image[l]

Seal ==
  /\ phase = "seal"
  /\ \/ /\ SealHolds(layer)
        /\ sealed' = [sealed EXCEPT ![layer] = captured[layer]]
        /\ IF layer < Len(BlobOrder) THEN layer' = layer + 1 /\ UNCHANGED phase
                                     ELSE layer' = 1 /\ phase' = "journal"
        /\ UNCHANGED <<poisoned, spool, spoolBytes, extents, operations, bySource,
                       captured, transcript, lines, open, openInert, metadata, cursor,
                       live, rootEffect, counters, expected>>
     \/ ~SealHolds(layer) /\ Discard
  /\ Outward

\* The operations of a layer, in the order of its archive.
Ops(l) == [i \in 1..Len(bySource[l]) |-> operations[bySource[l][i]]]

\* What the operations of the journal reserve, recomputed.
Reserved ==
  Cardinality({c \in (1..Len(operations)) \X (1..(MaxMetadata + 1)) :
                 c[2] <= Charge(operations[c[1]].entry)})

\* validate_logical_journal_envelope
EnvelopeHolds ==
  /\ metadata = Reserved + (IF open = None THEN 0 ELSE Charge(open.entry))
  /\ metadata <= MaxMetadata
  /\ \A i \in 1..Len(extents) :
       extents[i].offset = IF i = 1 THEN 0 ELSE extents[i - 1].offset
                                                + Len(extents[i - 1].digest)
  /\ spoolBytes = IF extents = <<>> THEN 0
                  ELSE extents[Len(extents)].offset + Len(extents[Len(extents)].digest)
  /\ Len(operations) <= MaxTarEntries /\ spoolBytes <= MaxTarBytes
  /\ Len(operations) = Cardinality({e \in Layer \X (1..MaxTarEntries) :
                                      e[2] <= Len(bySource[e[1]])})

\* validate_operation_extent_references
ReferencesHold ==
  /\ \A k \in 1..Len(operations) :
       LET op == operations[k]
       IN /\ op.index <= Len(bySource[op.layer]) /\ bySource[op.layer][op.index] = k
          /\ op.index <= captured[op.layer]
          /\ op.entry.kind = "regular" =>
               /\ op.extent \in 1..Len(extents)
               /\ extents[op.extent].layer = op.layer
               /\ extents[op.extent].index = op.index
  /\ \A x \in 1..Len(extents) :
       \E k \in 1..Len(operations) :
         /\ operations[k].extent = x
         /\ \A m \in 1..Len(operations) : operations[m].extent = x => m = k

\* validate_layer_seals_and_transcripts: the operations are those the layer's
\* transcript was fed, the entries those that were authenticated.
SealsHold ==
  \A l \in Layer :
    /\ sealed[l] # None /\ sealed[l] = captured[l]
    /\ sealed[l] <= Len(bySource[l])
    /\ StrictlyOrdered([i \in 1..sealed[l] |-> Ops(l)[i].entry])
    /\ lines[l] = [i \in 1..sealed[l] |-> Line(Ops(l)[i], extents)]
    /\ transcript[l].open = None /\ transcript[l].done = image[l]

\* validate_completed_candidate_with_expected, up to the projection
ValidateJournal ==
  /\ phase = "journal"
  /\ \/ /\ ~poisoned /\ open = None /\ ~openInert
        /\ EnvelopeHolds /\ ReferencesHold /\ SealsHold
        /\ phase' = "check"
        /\ UNCHANGED <<poisoned, journalVars, projectionVars>>
     \/ /\ ~(/\ ~poisoned /\ open = None /\ ~openInert
             /\ EnvelopeHolds /\ ReferencesHold /\ SealsHold)
        /\ Discard
  /\ Outward

-----------------------------------------------------------------------------
\* project_operation_journal
\*
\* live[p] is the projection of path p: the index of the operation that
\* defines it and its last effect.  An effect is ordered by layer, then
\* whiteouts before entries, then archive order.

Effect(k, turn) ==
  [operation |-> k, layer |-> operations[k].layer, turn |-> turn,
   index |-> operations[k].index]

\* Mutant: effects are ordered as the blobs were replayed.
NotAfterInJournal(e, f) == e.operation <= f.operation

NotAfter(e, f) ==
  \/ e.layer < f.layer
  \/ e.layer = f.layer /\ e.turn < f.turn
  \/ e.layer = f.layer /\ e.turn = f.turn /\ e.index <= f.index

EntryOf(p) == operations[live[p].definition].entry
LiveDirectory(p) == p \in DOMAIN live /\ EntryOf(p).kind = "directory"

SizeOf(k) == IF operations[k].extent = 0 THEN 0 ELSE Len(extents[operations[k].extent].digest)

\* add_live_counter and remove_live_counter of the definitions in a set of
\* paths; an underflow would be an error.
BytesAt(paths) ==
  Cardinality({e \in paths \X (1..MaxTarBytes) : e[2] <= SizeOf(live[e[1]].definition)})

KindAt(paths, k) == Cardinality({p \in paths : EntryOf(p).kind = k})

Less(paths) ==
  [entries |-> counters.entries - Cardinality(paths),
   regular |-> counters.regular - KindAt(paths, "regular"),
   directory |-> counters.directory - KindAt(paths, "directory"),
   symlink |-> counters.symlink - KindAt(paths, "symlink"),
   bytes |-> counters.bytes - BytesAt(paths)]

More(c, k) ==
  LET kind == operations[k].entry.kind
  IN [entries |-> c.entries + 1,
      regular |-> c.regular + (IF kind = "regular" THEN 1 ELSE 0),
      directory |-> c.directory + (IF kind = "directory" THEN 1 ELSE 0),
      symlink |-> c.symlink + (IF kind = "symlink" THEN 1 ELSE 0),
      bytes |-> c.bytes + SizeOf(k)]

Without(paths) == [p \in (DOMAIN live) \ paths |-> live[p]]

\* remove_projection_subtree: only a live directory has something below it.
Subtree(subject, inclusive) ==
  {p \in DOMAIN live : \/ inclusive /\ p = subject
                       \/ Below(p, subject) /\ (subject = <<>> \/ LiveDirectory(subject))}

\* validate_layer_whiteouts_against_lower_snapshot, with
\* insert_nonoverlapping_whiteout
WhiteoutsHold(l) ==
  LET subject(i) == Ops(l)[i].entry.path
      marks == {i \in 1..Len(Ops(l)) : Ops(l)[i].entry.kind \in Whiteouts}
  IN \A i \in marks :
       /\ \A j \in marks : j < i =>
            /\ subject(i) # subject(j)
            /\ ~Below(subject(i), subject(j)) /\ ~Below(subject(j), subject(i))
       /\ Ops(l)[i].entry.kind = "remove" => subject(i) \in DOMAIN live
       /\ Ops(l)[i].entry.kind = "opaque" =>
            subject(i) = <<>> \/ LiveDirectory(subject(i))

CheckWhiteouts ==
  /\ phase = "check"
  /\ \/ /\ WhiteoutsHold(layer)
        /\ phase' = "whiteout" /\ cursor' = 1
        /\ UNCHANGED <<poisoned, journalVars, layer, live, rootEffect, counters, expected>>
     \/ ~WhiteoutsHold(layer) /\ Discard
  /\ Outward

\* The operation at the cursor, in the order of its layer's archive.
AtCursor == bySource[layer][cursor]
Current == operations[AtCursor].entry
Within == cursor <= Len(bySource[layer])

\* apply_layer_whiteout_phase
ApplyWhiteout ==
  /\ phase = "whiteout" /\ Within
  /\ cursor' = cursor + 1
  /\ \/ /\ Current.kind = "remove"
        /\ counters' = Less(Subtree(Current.path, TRUE))
        /\ live' = Without(Subtree(Current.path, TRUE))
        /\ UNCHANGED rootEffect
     \/ /\ Current.kind = "opaque" /\ Current.path = <<>>
        /\ counters' = Less(Subtree(<<>>, FALSE))
        /\ live' = Without(Subtree(<<>>, FALSE))
        /\ rootEffect' = Effect(AtCursor, 0)
     \/ /\ Current.kind = "opaque" /\ Current.path # <<>>
        /\ counters' = Less(Subtree(Current.path, FALSE))
        /\ live' = [Without(Subtree(Current.path, FALSE))
                      EXCEPT ![Current.path].last = Effect(AtCursor, 0)]
        /\ UNCHANGED rootEffect
     \/ /\ Current.kind \notin Whiteouts
        /\ UNCHANGED <<live, rootEffect, counters>>
  /\ UNCHANGED <<phase, poisoned, journalVars, layer, expected>>
  /\ Outward

EndWhiteouts ==
  /\ phase = "whiteout" /\ ~Within
  /\ phase' = "entry" /\ cursor' = 1
  /\ UNCHANGED <<poisoned, journalVars, layer, live, rootEffect, counters, expected>>
  /\ Outward

\* Mutant: the definition replaced stays in the counters.
DefineOnTop(removed) ==
  /\ counters' = More(Less(removed), AtCursor)
  /\ live' = [p \in ((DOMAIN live) \ removed) \cup {Current.path} |->
                IF p = Current.path
                THEN [definition |-> AtCursor, last |-> Effect(AtCursor, 1)]
                ELSE live[p]]

\* set_projection_definition after the removal of some paths
Define(removed) ==
  LET replaced == IF Current.path \in (DOMAIN live) \ removed THEN {Current.path} ELSE {}
  IN /\ counters' = More(Less(removed \cup replaced), AtCursor)
     /\ live' = [p \in ((DOMAIN live) \ removed) \cup {Current.path} |->
                   IF p = Current.path
                   THEN [definition |-> AtCursor, last |-> Effect(AtCursor, 1)]
                   ELSE live[p]]

\* apply_layer_entry_phase: validate_projection_parent and the type conflict
EntryFits ==
  /\ Len(Current.path) > 1 => LiveDirectory(Parent(Current.path))
  /\ Current.kind = "directory" /\ Current.path \in DOMAIN live
       => LiveDirectory(Current.path)

ApplyEntry ==
  /\ phase = "entry" /\ Within
  /\ \/ /\ Current.kind \in Whiteouts
        /\ cursor' = cursor + 1
        /\ UNCHANGED <<phase, poisoned, journalVars, layer, live, rootEffect, counters,
                       expected>>
     \/ /\ Current.kind \notin Whiteouts /\ EntryFits
        /\ Define(IF Current.kind = "directory" THEN {} ELSE Subtree(Current.path, TRUE))
        /\ cursor' = cursor + 1
        /\ UNCHANGED <<phase, poisoned, journalVars, layer, rootEffect, expected>>
     \/ /\ Current.kind \notin Whiteouts /\ ~EntryFits
        /\ Discard
  /\ Outward

\* validate_live_counters at the end of a layer
CountersHold ==
  /\ counters.entries = counters.regular + counters.directory + counters.symlink
  /\ counters.entries <= MaxLiveEntries /\ counters.bytes <= MaxLiveBytes

EndLayer ==
  /\ phase = "entry" /\ ~Within
  /\ \/ /\ CountersHold
        /\ cursor' = 1
        /\ IF layer < Len(BlobOrder) THEN layer' = layer + 1 /\ phase' = "check"
                                     ELSE layer' = 1 /\ phase' = "effects"
        /\ UNCHANGED <<poisoned, journalVars, live, rootEffect, counters, expected>>
     \/ ~CountersHold /\ Discard
  /\ Outward

-----------------------------------------------------------------------------
\* validate_projection_effect_references

DefinedBy(p) == Effect(live[p].definition, 1)

LiveEffectsHold ==
  \A p \in DOMAIN live :
    LET last == live[p].last
        by == operations[last.operation].entry
    IN /\ EntryOf(p).path = p
       /\ last = Effect(last.operation, last.turn)
       /\ last.turn = 1 => last.operation = live[p].definition /\ by.kind \notin Whiteouts
       /\ last.turn = 0 => LiveDirectory(p) /\ by.kind = "opaque" /\ by.path = p

\* validate_projection_effect_temporal_maxima
EffectsAreLatest ==
  /\ \A k \in 1..Len(operations) :
       LET e == operations[k].entry
       IN e.path \in DOMAIN live =>
            /\ e.kind \notin Whiteouts => /\ NotAfter(Effect(k, 1), DefinedBy(e.path))
                                          /\ NotAfter(Effect(k, 1), live[e.path].last)
            /\ e.kind = "opaque" => NotAfter(Effect(k, 0), live[e.path].last)
  /\ LET roots == {k \in 1..Len(operations) : /\ operations[k].entry.kind = "opaque"
                                              /\ operations[k].entry.path = <<>>}
     IN IF roots = {} THEN rootEffect = None
        ELSE \E k \in roots : /\ rootEffect = Effect(k, 0)
                              /\ \A m \in roots : NotAfter(Effect(m, 0), rootEffect)

CheckEffects ==
  /\ phase = "effects"
  /\ \/ /\ LiveEffectsHold /\ EffectsAreLatest
        /\ counters = expected
        /\ phase' = "spool"
        /\ UNCHANGED <<poisoned, journalVars, projectionVars>>
     \/ ~(LiveEffectsHold /\ EffectsAreLatest /\ counters = expected) /\ Discard
  /\ Outward

\* Mutant: only the length of the spool is compared.
SpoolHoldsByLength == SpoolIs(spoolBytes)

\* validate_physical_regular_extents between two looks at the descriptor
SpoolHolds ==
  /\ SpoolIs(spoolBytes)
  /\ \A x \in 1..Len(extents) :
       SubSeq(spool, extents[x].offset + 1, extents[x].offset + Len(extents[x].digest))
         = extents[x].digest

\* The end of validate_completed_candidate_with_expected, and later
\* revalidate_authenticated_projection.
ValidateSpool(from, to) ==
  /\ phase = from
  /\ \/ /\ SpoolHolds
        /\ phase' = to
        /\ UNCHANGED <<poisoned, journalVars, projectionVars>>
     \/ ~SpoolHolds /\ Discard
  /\ UNCHANGED <<image, callVars, custody, deviations, meddles, faults>>
  /\ altered' = FALSE

-----------------------------------------------------------------------------
\* The beginning, the end and the environment

\* begin: namespace and parent are pinned, the destination is absent.
Begin ==
  /\ phase = "begin"
  /\ \/ custody /\ phase' = "replay" /\ UNCHANGED <<poisoned, journalVars, projectionVars>>
     \/ ~custody /\ Discard
  /\ Outward

\* A call of the validation fails for a reason of its own.
FailCheck ==
  /\ phase \notin {"replay", "retained", "revalidated", "discarded"}
  /\ MayDisturb
  /\ faults' = faults + 1
  /\ Discard
  /\ UNCHANGED <<image, callVars, custody, altered, deviations, meddles>>

Meddle ==
  /\ phase \notin {"revalidated", "discarded"}
  /\ MayDisturb
  /\ meddles' = meddles + 1
  /\ UNCHANGED <<image, callVars, phase, poisoned, projectionVars, deviations, faults>>

AlterSpool ==
  /\ Meddle
  /\ \/ \E i \in 1..Len(spool) : spool' = [spool EXCEPT ![i] = 1 - @]
     \/ spool' = Append(spool, 0)
  /\ altered' = TRUE
  /\ UNCHANGED <<spoolBytes, extents, operations, bySource, captured, transcript,
                 lines, sealed, open, openInert, metadata, custody>>

MoveCustody ==
  /\ Meddle
  /\ custody' = ~custody
  /\ UNCHANGED <<journalVars, altered>>

Calls ==
  \/ OpenSink
  \/ \E e \in Offered : BeginRegular(e) \/ StageInert(e)
  \/ \E b \in Byte : WriteChunk(b)
  \/ FinishRegular \/ FinishInert \/ DropSink
  \/ GiveUp \/ StartSealing

Checks ==
  \/ Begin \/ Seal \/ ValidateJournal
  \/ CheckWhiteouts \/ ApplyWhiteout \/ EndWhiteouts \/ ApplyEntry \/ EndLayer
  \/ CheckEffects
  \/ ValidateSpool("spool", "retained") \/ ValidateSpool("retained", "revalidated")

Done == phase \in {"revalidated", "discarded"} /\ UNCHANGED vars

Next == Calls \/ Checks \/ FailCall \/ FailCheck \/ AlterSpool \/ MoveCustody \/ Done

Spec == Init /\ [][Next]_vars

-----------------------------------------------------------------------------
\* Properties

Definitions == [definition : 1..MaxTarEntries,
                last : [operation : 1..MaxTarEntries, layer : Layer, turn : {0, 1},
                        index : 1..MaxTarEntries]]
Count == 0..(MaxTarEntries + MaxTarBytes)

\* Every variable has its type.
TypeOK ==
  /\ image \in Images
  /\ blob \in 1..(Len(BlobOrder) + 1) /\ next \in Nat
  /\ sink \in Layer \cup {None} /\ sinkState \in {"none", "regular", "inert"}
  /\ phase \in Phases /\ poisoned \in BOOLEAN
  /\ spool \in Seq(Byte) /\ spoolBytes \in 0..MaxTarBytes
  /\ bySource \in [Layer -> Seq(1..MaxTarEntries)]
  /\ captured \in [Layer -> 0..MaxTarEntries]
  /\ sealed \in [Layer -> (0..MaxTarEntries) \cup {None}]
  /\ openInert \in BOOLEAN /\ metadata \in 0..MaxMetadata
  /\ layer \in Layer /\ cursor \in 1..(MaxTarEntries + 1)
  /\ \A p \in DOMAIN live : live[p] \in Definitions
  /\ {counters, expected} \subseteq
       [entries : Count, regular : Count, directory : Count, symlink : Count, bytes : Count]
  /\ custody \in BOOLEAN /\ altered \in BOOLEAN
  /\ deviations \in 0..MaxTroubles /\ meddles \in 0..MaxTroubles
  /\ faults \in 0..MaxTroubles

\* What the retained projection delivers for a path: the entry that defines it
\* with the bytes its extent has in the spool.
Delivered(p) ==
  LET k == live[p].definition
      x == extents[operations[k].extent]
  IN IF operations[k].extent = 0 THEN EntryOf(p)
     ELSE [EntryOf(p) EXCEPT !.payload = SubSeq(spool, x.offset + 1, x.offset + Len(x.digest))]

\* A root filesystem is retained only if it is exactly what the authenticated
\* stack of layers means, payloads included: whatever the caller delivered,
\* whichever call failed and was ignored, in whatever order the blobs came.
RetainedIsTheStack ==
  phase \in {"retained", "revalidated"} /\ ~altered
    => /\ WellFormed(image) /\ ~poisoned
       /\ [p \in DOMAIN live |-> Delivered(p)] = Stack(image, Len(BlobOrder))

\* An image that means something is never turned away while nothing goes
\* wrong: none of the validations of journal, counters and effects contradicts
\* what the replay and the projection themselves produced.
RefusalHasACause ==
  phase = "discarded" /\ deviations = 0 /\ meddles = 0 /\ faults = 0
    => ~WellFormed(image)

\* Between any two operations the projection is a tree whose parents are live
\* directories, and the counters, kept by adding and subtracting, are its
\* census.
ProjectionIsATree ==
  /\ \A p \in DOMAIN live : Len(p) > 1 => LiveDirectory(Parent(p))
  /\ counters = [entries |-> Cardinality(DOMAIN live),
                 regular |-> KindAt(DOMAIN live, "regular"),
                 directory |-> KindAt(DOMAIN live, "directory"),
                 symlink |-> KindAt(DOMAIN live, "symlink"),
                 bytes |-> BytesAt(DOMAIN live)]
=============================================================================
