------------------------ MODULE AuthenticatedStream ------------------------
(***************************************************************************)
(* Reading one file of an immutable root under retained custody            *)
(* (generator/src/b4_campaign_executor/custody.rs).                        *)
(*                                                                         *)
(* The custody of the root holds, for every file, its identity, its        *)
(* metadata and its SHA-256, taken when the executor started.  A file is   *)
(* later read in one of three calls:                                       *)
(*   "bytes"   the whole file into memory, then an effect on the bytes;    *)
(*   "stream"  a parser pulls the bytes out of a reader that counts and    *)
(*             hashes them, and what it parsed is delivered afterwards;    *)
(*   "replay"  two streams of the same file: the first leaves an inert     *)
(*             value, the second one a value that owns a staging spool,    *)
(*             and both are delivered together.                            *)
(* Around it the whole root is rechecked, and afterwards the descriptors   *)
(* and the name are compared with the retained metadata once more.  The    *)
(* parser is free: it may stop early, ignore a failing read, or fail.      *)
(* Another process may rewrite the file or rename over it at any point.    *)
(*                                                                         *)
(* A digest is its content.  Metadata is the identity and the length: that *)
(* a change also moves mtime and ctime is not relied upon, for their       *)
(* granularity lets a quick change go unseen.  One recheck of the root is  *)
(* one step; it may refuse a sound root, for any of its calls may fail.    *)
(***************************************************************************)
EXTENDS Naturals, Sequences

CONSTANTS
    Block,       \* what a block of the file may hold
    Captured,    \* the blocks of the file when custody was taken
    MaxLength,   \* bound on the length of a file
    MaxMeddles   \* bound on what the other process does

ASSUME CapturedAssumption == Captured \in Seq(Block) /\ Len(Captured) <= MaxLength
ASSUME BoundAssumption == MaxLength \in Nat /\ MaxMeddles \in Nat

Kind == {"bytes", "stream", "replay"}
\* The file in custody, and one that another process renames over its name.
Object == {"ours", "other"}

\* The stages whose failure the error of a call may carry.
Cause ==
    {"precheck", "open", "read", "inspect", "finish", "file", "root",
     "deliver", "post", "between"}

Step ==
    {"precheck", "pin", "open", "inspect", "finish", "file", "root",
     "measure", "fetch", "repin", "deliver", "post", "between", "returned"}

\* The value of the second stream, which owns a staging spool.
ValueState == {"none", "held", "delivered", "closed", "dropped"}

VARIABLES
    kind,      \* the call
    pass,      \* which stream of it is being read
    pc,        \* its next step
    pinned,    \* the object behind the path descriptor
    opened,    \* the object behind the data descriptor
    seen,      \* the blocks counted and hashed so far
    eof,       \* the reader has observed the end
    sticky,    \* the reader has failed, and fails from now on
    outcome,   \* the causes the call's error carries; none is success
    retained,  \* what the value of the first stream was parsed from
    value,     \* the value of the second stream
    failed,    \* every stage that failed, whether the error carries it or not
    named,     \* the object the path names
    body,      \* the blocks of each object
    meddles    \* what the other process has done so far

call == <<kind, pass, pc, pinned, opened, seen, eof, sticky, outcome,
          retained, value, failed>>
vars == <<call, named, body, meddles>>

Bodies == UNION {[1..n -> Block] : n \in 0..MaxLength}

TypeOK ==
    /\ kind \in Kind /\ pass \in 1..2 /\ pc \in Step
    /\ pinned \in Object /\ opened \in Object
    /\ seen \in Seq(Block) /\ eof \in BOOLEAN /\ sticky \in BOOLEAN
    /\ outcome \subseteq Cause /\ failed \subseteq Cause
    /\ retained \in Seq(Block)
    /\ value \in ValueState
    /\ named \in Object
    /\ body \in [Object -> Bodies]
    /\ meddles \in 0..MaxMeddles

-----------------------------------------------------------------------------
(***************************************************************************)
(* What is compared.                                                       *)
(***************************************************************************)
\* The metadata of an object is the one retained in the snapshot.
Unchanged(o) == o = "ours" /\ Len(body[o]) = Len(Captured)

\* The root is as it was captured.
Sound == named = "ours" /\ body["ours"] = Captured

CombineLater(earlier, later) == IF later = {} THEN earlier ELSE later
\* Two causes of one error: both are kept.
Combine(earlier, later) == earlier \cup later

\* A step that fails for the given causes, none for a step that succeeds.
Fails(causes) ==
    /\ outcome' = Combine(outcome, causes)
    /\ failed' = failed \cup causes

Init ==
    /\ kind \in Kind
    /\ pass = 1 /\ pc = "precheck"
    /\ pinned = "ours" /\ opened = "ours"
    /\ seen = <<>> /\ eof = FALSE /\ sticky = FALSE
    /\ outcome = {} /\ failed = {}
    /\ retained = <<>> /\ value = "none"
    /\ named = "ours" /\ meddles = 0
    /\ body \in [Object -> Bodies] /\ body["ours"] = Captured

-----------------------------------------------------------------------------
(***************************************************************************)
(* Opening the file.                                                       *)
(***************************************************************************)
\* recheck() before anything is opened; its error is returned at once.
Precheck ==
    /\ pc = "precheck"
    /\ \/ /\ Sound
          /\ pc' = "pin" /\ Fails({})
       \/ /\ pc' = "returned" /\ Fails({"precheck"})
    /\ UNCHANGED <<kind, pass, pinned, opened, seen, eof, sticky, retained, value>>

\* Where an error of the opening leads: a stream goes on to its recheck of
\* the root, the buffered read to its own.
AfterOpenError == IF kind = "bytes" THEN "post" ELSE "root"

\* The path descriptor: its length and role are checked against the
\* snapshot, then the object it pins.
Pin ==
    /\ pc = "pin"
    /\ pinned' = named
    /\ \/ /\ Unchanged(named)
          /\ pc' = "open" /\ Fails({})
       \/ /\ pc' = AfterOpenError /\ Fails({"open"})
    /\ UNCHANGED <<kind, pass, opened, seen, eof, sticky, retained, value>>

\* The data descriptor, opened by name once more, and a fresh reader on it.
OpenData ==
    /\ pc = "open"
    /\ opened' = named
    /\ seen' = <<>> /\ eof' = FALSE /\ sticky' = FALSE
    /\ \/ /\ Unchanged(named)
          /\ pc' = IF kind = "bytes" THEN "measure" ELSE "inspect"
          /\ Fails({})
       \/ /\ pc' = AfterOpenError /\ Fails({"open"})
    /\ UNCHANGED <<kind, pass, pinned, retained, value>>

-----------------------------------------------------------------------------
(***************************************************************************)
(* The streaming reader.                                                   *)
(***************************************************************************)
\* The data descriptor has a block past the ones already read.
More == Len(seen) < Len(body[opened])
NextBlock == body[opened][Len(seen) + 1]

\* A failing read: the reader keeps it and returns nothing else any more.
ReadFails ==
    /\ sticky' = TRUE
    /\ failed' = failed \cup {"read"}
    /\ UNCHANGED <<seen, eof>>

\* One read of one block; a longer read is several with nothing in between.
\* At the retained length it only probes for the end.
Read ==
    /\ pc = "inspect" /\ ~sticky
    /\ \/ /\ Len(seen) < Len(Captured) /\ More
          /\ seen' = Append(seen, NextBlock)
          /\ UNCHANGED <<eof, sticky, failed>>
       \/ /\ Len(seen) = Len(Captured) /\ ~More
          /\ eof' = TRUE
          /\ UNCHANGED <<seen, sticky, failed>>
       \/ ReadFails
    /\ UNCHANGED <<kind, pass, pc, pinned, opened, outcome, retained, value>>

\* Only the second stream's value owns anything that has to be closed.
Owned(state) == IF pass = 2 THEN state ELSE value

\* The parser returns Ok, whatever it read and whatever reads failed.
InspectOk ==
    /\ pc = "inspect"
    /\ pc' = "finish" /\ value' = Owned("held")
    /\ UNCHANGED <<kind, pass, pinned, opened, seen, eof, sticky, outcome, retained, failed>>

\* The parser fails, of itself or because a read did.
InspectErr ==
    /\ pc = "inspect"
    /\ pc' = "file"
    /\ Fails(IF sticky THEN {"inspect", "read"} ELSE {"inspect"})
    /\ UNCHANGED <<kind, pass, pinned, opened, seen, eof, sticky, retained, value>>

DefectWithoutDigest ==
    IF sticky THEN {"read"}
    ELSE IF Len(seen) # Len(Captured) THEN {"finish"}
    ELSE IF ~eof /\ More THEN {"read"}
    ELSE {}
DefectUnlessRead ==
    IF Len(seen) # Len(Captured) THEN {"finish"}
    ELSE IF ~eof /\ More THEN {"read"}
    ELSE IF seen # Captured THEN {"finish"}
    ELSE {}
\* What finish() finds wrong with the reader: a failure the parser ignored,
\* bytes left unread, a block past the end, another digest.
Defect ==
    IF sticky THEN {"read"}
    ELSE IF Len(seen) # Len(Captured) THEN {"finish"}
    ELSE IF ~eof /\ More THEN {"read"}
    ELSE IF seen # Captured THEN {"finish"}
    ELSE {}

\* The probe for the end, made if the parser did not reach it, may itself fail.
ProbeFault ==
    IF ~sticky /\ ~eof /\ Len(seen) = Len(Captured) THEN {{"read"}} ELSE {}

\* finish() after a parser that returned Ok.  Its error drops what was
\* parsed, as the error of the file postcheck does.
Finish ==
    /\ pc = "finish"
    /\ pc' = "file"
    /\ \E causes \in {Defect} \cup ProbeFault :
          /\ Fails(causes)
          /\ value' = IF causes = {} THEN value ELSE Owned("dropped")
    /\ UNCHANGED <<kind, pass, pinned, opened, seen, eof, sticky, retained>>

\* Both descriptors and the name still have the retained metadata.
FilePostcheck ==
    /\ pc = "file"
    /\ pc' = "root"
    /\ \/ /\ Unchanged(opened) /\ Unchanged(pinned) /\ Unchanged(named)
          /\ Fails({})
          /\ UNCHANGED value
       \/ /\ Fails({"file"})
          /\ value' = IF outcome = {} THEN Owned("dropped") ELSE value
    /\ UNCHANGED <<kind, pass, pinned, opened, seen, eof, sticky, retained>>

\* recheck() before delivery.  Failing, it hands what was parsed to reject,
\* which closes it.
RootPostcheck ==
    /\ pc = "root"
    /\ \/ /\ Sound
          /\ pc' = IF outcome = {} THEN "deliver" ELSE "returned"
          /\ Fails({})
          /\ UNCHANGED value
       \/ /\ pc' = "returned"
          /\ Fails({"root"})
          /\ value' = IF outcome = {} THEN Owned("closed") ELSE value
    /\ UNCHANGED <<kind, pass, pinned, opened, seen, eof, sticky, retained>>

-----------------------------------------------------------------------------
(***************************************************************************)
(* The buffered read.                                                      *)
(***************************************************************************)
\* The metadata at the start of the read; if it is not the retained one the
\* read cannot succeed any more, and its remaining steps are left out.
Measure ==
    /\ pc = "measure"
    /\ \/ /\ Unchanged(opened)
          /\ pc' = "fetch" /\ Fails({})
       \/ /\ pc' = "post" /\ Fails({"read"})
    /\ UNCHANGED <<kind, pass, pinned, opened, seen, eof, sticky, retained, value>>

\* One block, or the end: then length, digest and both descriptors.
Fetch ==
    /\ pc = "fetch"
    /\ \/ /\ More
          /\ seen' = Append(seen, NextBlock)
          /\ UNCHANGED <<pc, outcome, failed>>
       \/ /\ ~More
          /\ seen = Captured /\ Unchanged(opened) /\ Unchanged(pinned)
          /\ pc' = "repin" /\ Fails({})
          /\ UNCHANGED seen
       \/ /\ pc' = "post" /\ Fails({"read"})
          /\ UNCHANGED seen
    /\ UNCHANGED <<kind, pass, pinned, opened, eof, sticky, retained, value>>

\* The name still has the retained metadata.
Repin ==
    /\ pc = "repin"
    /\ \/ /\ Unchanged(named)
          /\ pc' = "deliver" /\ Fails({})
       \/ /\ pc' = "post" /\ Fails({"read"})
    /\ UNCHANGED <<kind, pass, pinned, opened, seen, eof, sticky, retained, value>>

-----------------------------------------------------------------------------
(***************************************************************************)
(* Delivery and return.                                                    *)
(***************************************************************************)
\* deliver(), or the effect of a buffered read.  The first stream of a
\* replay keeps an inert value; the second hands both to the caller, who
\* closes the owned one if it refuses it.
Deliver ==
    /\ pc = "deliver"
    /\ pc' = "post"
    /\ retained' = IF pass = 1 THEN seen ELSE retained
    /\ \/ Fails({}) /\ value' = Owned("delivered")
       \/ Fails({"deliver"}) /\ value' = Owned("closed")
    /\ UNCHANGED <<kind, pass, pinned, opened, seen, eof, sticky>>

DeliveryPostcheckReplaysAgain ==
    /\ pc = "post"
    /\ \/ /\ Sound
          /\ pc' = IF kind = "replay" /\ outcome = {} THEN "between" ELSE "returned"
          /\ Fails({})
          /\ UNCHANGED value
       \/ /\ pc' = "returned"
          /\ Fails({"post"})
          /\ value' = IF outcome = {} THEN Owned("dropped") ELSE value
    /\ UNCHANGED <<kind, pass, pinned, opened, seen, eof, sticky, retained>>

\* recheck() after delivery.  Failing after a delivery that succeeded, it
\* drops what the delivery returned.
DeliveryPostcheck ==
    /\ pc = "post"
    /\ \/ /\ Sound
          /\ pc' = IF kind = "replay" /\ pass = 1 /\ outcome = {}
                   THEN "between" ELSE "returned"
          /\ Fails({})
          /\ UNCHANGED value
       \/ /\ pc' = "returned"
          /\ Fails({"post"})
          /\ value' = IF outcome = {} THEN Owned("dropped") ELSE value
    /\ UNCHANGED <<kind, pass, pinned, opened, seen, eof, sticky, retained>>

\* The recheck between the two streams of a replay.
Between ==
    /\ pc = "between"
    /\ \/ /\ Sound
          /\ pass' = pass + 1 /\ pc' = "precheck" /\ Fails({})
       \/ /\ pc' = "returned" /\ Fails({"between"})
          /\ UNCHANGED pass
    /\ UNCHANGED <<kind, pinned, opened, seen, eof, sticky, retained, value>>

Call ==
    /\ \/ Precheck \/ Pin \/ OpenData
       \/ Read \/ InspectOk \/ InspectErr \/ Finish \/ FilePostcheck
       \/ RootPostcheck
       \/ Measure \/ Fetch \/ Repin
       \/ Deliver \/ DeliveryPostcheck \/ Between
    /\ UNCHANGED <<named, body, meddles>>

-----------------------------------------------------------------------------
(***************************************************************************)
(* The other process.                                                      *)
(***************************************************************************)
\* It rewrites a file in place, to whatever content.
Rewrite ==
    /\ meddles < MaxMeddles /\ pc # "returned"
    /\ \E o \in Object, s \in Bodies :
          s # body[o] /\ body' = [body EXCEPT ![o] = s]
    /\ meddles' = meddles + 1
    /\ UNCHANGED <<call, named>>

\* It renames its file over the name, or the one in custody back.
Rename ==
    /\ meddles < MaxMeddles /\ pc # "returned"
    /\ named' \in Object \ {named}
    /\ meddles' = meddles + 1
    /\ UNCHANGED <<call, body>>

Next == Call \/ Rewrite \/ Rename

Spec == Init /\ [][Next]_vars

-----------------------------------------------------------------------------
(***************************************************************************)
(* Properties.                                                             *)
(***************************************************************************)
(* Whatever another process does to the file meanwhile and whatever the     *)
(* parser makes of its reads, a value is delivered only if it was parsed    *)
(* from exactly the bytes in custody, and with it in a replay the value of  *)
(* the first stream.                                                        *)
DeliveredIsAuthentic ==
    pc = "deliver" => seen = Captured /\ (pass = 2 => retained = Captured)

(* A call delivers nothing once any stage of it has failed, a read that the *)
(* parser ignored included.                                                 *)
FailClosed == pc = "deliver" => failed = {}

(* The error of a call carries every stage that failed, and a call returns  *)
(* Ok only if none did: an error of a postcheck does not displace the one   *)
(* it follows.                                                              *)
NoFailureIsLost == pc = "returned" => outcome = failed

(* A value that owns a staging spool is never dropped: it is delivered or   *)
(* closed through reject, as the rejection parameter of                     *)
(* with_authenticated_file_stream_impl_with_rejection is there for.         *)
OwnedIsClosed == value # "dropped"
=============================================================================
