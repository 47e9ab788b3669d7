------------------------------- MODULE H0Child -------------------------------
(***************************************************************************)
(* A supervisor of the H0 appliance and one child of it, generator or      *)
(* worker: spawn_exact and the trampoline behind it, the identity barrier, *)
(* the release after the executable was authenticated again, the frames of *)
(* the session, and containment, the Drop that kills and reaps a child     *)
(* whose handle is given up (linux-abi: process.rs, executable_custody.rs, *)
(* session.rs).                                                            *)
(*                                                                         *)
(* Supervisor and child run concurrently.  They share one socket pair, the *)
(* barrier, of which clone3 gives the child a copy of both ends, and the   *)
(* endpoint of the session.  Any call may fail, an outsider may rewrite    *)
(* the executable, kill the child or kill the supervisor at any time, and  *)
(* the program the child becomes does what it likes.                       *)
(*                                                                         *)
(* One authentication of the executable, and one of the child's procfs     *)
(* directory, is one step.  Of a frame only its sender counts.             *)
(***************************************************************************)
EXTENDS Naturals, Sequences

CONSTANTS
  Script,       \* the frames of a session in order, for either role
  MaxMeddles,   \* interventions of the outsider
  MaxFaults     \* failing calls

Role == {"Generator", "Worker"}
Op == {"send", "recv", "boot"}
Process == {"supervisor", "child"}
End == {"reader", "writer"}   \* the child's and the supervisor's end

ASSUME ConstantsAssumption ==
  /\ DOMAIN Script = Role
  /\ \A r \in Role : Script[r] \in Seq(Op)
  /\ MaxMeddles \in Nat /\ MaxFaults \in Nat

VARIABLES
  role,       \* SpawnedRoleV1
  sup,        \* the supervisor's next step
  next,       \* the frame in hand
  child,      \* the child's next step, or what became of it
  ends,       \* who has which end of the barrier open
  toChild,    \* control bytes on their way
  toSup,
  signalled,  \* SIGKILL is pending
  exe,        \* the bytes of the executable now
  touched,    \* its change time is no longer the retained one
  image,      \* the bytes the child was started from
  identity,   \* the child has the identity of its role
  maps,       \* the worker's namespace maps are written
  inbox,      \* a frame of the child waits to be received
  accepted    \* a frame of the child was accepted

VARIABLES meddles, faults

barrierVars == <<ends, toChild, toSup>>
exeVars == <<exe, touched>>
frameVars == <<next, inbox, accepted>>
envVars == <<meddles, faults>>
childVars == <<child, signalled, image, identity>>
vars == <<role, sup, maps, barrierVars, exeVars, frameVars, childVars, envVars>>

Trampoline == {"born", "transition.read", "shift", "ready.write", "exec.read",
               "exec"}
Gone == {"none", "zombie", "reaped"}
Containing == {"drop.kill", "drop.wait", "raw.kill", "raw.wait"}
Ended == {"failed", "returned", "dead"}
SupStep == {"measure", "clone", "retain", "maps.check", "maps", "maps.measure",
            "release.check", "transition", "ready", "identity", "exec.check", "release", "live",
            "op.before", "op.do", "op.after", "observe", "observed", "reap",
            "reap.check"}

TypeOK ==
  /\ role \in Role
  /\ sup \in SupStep \cup Containing \cup Ended
  /\ next \in 1..(Len(Script[role]) + 1)
  /\ child \in Trampoline \cup Gone \cup {"program"}
  /\ ends \in [Process -> SUBSET End]
  /\ toChild \in Seq({"T", "E"}) /\ toSup \in Seq({"I"})
  /\ exe \in {"measured", "altered"}
  /\ image \in {"none", "measured", "altered"}
  /\ signalled \in BOOLEAN /\ touched \in BOOLEAN /\ identity \in BOOLEAN
  /\ maps \in BOOLEAN /\ inbox \in BOOLEAN /\ accepted \in BOOLEAN
  /\ meddles \in 0..MaxMeddles /\ faults \in 0..MaxFaults

Init ==
  /\ role \in Role
  /\ sup = "measure"
  /\ next = 1
  /\ child = "none"
  /\ ends = [p \in Process |-> {}]
  /\ toChild = <<>> /\ toSup = <<>>
  /\ exe = "measured" /\ touched = FALSE
  /\ image = "none"
  /\ signalled = FALSE /\ identity = FALSE /\ maps = FALSE
  /\ inbox = FALSE /\ accepted = FALSE
  /\ meddles = 0 /\ faults = 0

-----------------------------------------------------------------------------
(***************************************************************************)
(* What a step can see                                                     *)
(***************************************************************************)

Held(e) == \E p \in Process : e \in ends[p]

\* RetainedExecutableCoreV2::reauthenticate.  Metadata before and after the
\* reading equal the retained ones, the change time among them, and so does
\* the digest.
Measured == exe = "measured" /\ ~touched

\* require_live, and reauthenticate_live around it.
Live == child \notin Gone

\* The frame in hand, and the maps a worker is released behind.
CurrentOp == Script[role][next]
MapsHold == role = "Worker" => maps

\* The projection taken before the kernel's part of a frame and again after it:
\* the executable, the child and, for the bootstrap frame only, the maps.
Projected == Measured /\ Live /\ (CurrentOp = "boot" => MapsHold)

-----------------------------------------------------------------------------
(***************************************************************************)
(* Steps of the supervisor                                                 *)
(***************************************************************************)
Goto(step) == sup' = step

\* Every error consumes the custody.  A child not yet reaped is contained by
\* Drop, before or after the barrier is closed, whichever the owner declares
\* first.
Fail ==
  /\ IF child \in {"none", "reaped"} THEN Goto("failed") ELSE Goto("drop.kill")
  /\ LET closed == [ends EXCEPT !["supervisor"] = {}] IN
     ends' \in {closed, IF child \in {"none", "reaped"} THEN closed ELSE ends}
  /\ UNCHANGED <<role, maps, toChild, toSup, exeVars, frameVars, childVars>>

\* A call of the supervisor fails although nothing is wrong with the child.
Fault ==
  /\ faults < MaxFaults
  /\ sup \in SupStep
  /\ faults' = faults + 1
  /\ Fail
  /\ UNCHANGED meddles

Advance(to) ==
  /\ Goto(to)
  /\ UNCHANGED <<role, maps, barrierVars, exeVars, frameVars, childVars>>

\* A step that only checks: on with the next one, or an error.
CheckStep(from, check, to) ==
  /\ sup = from
  /\ IF check THEN Advance(to) ELSE Fail
  /\ UNCHANGED envVars

\* reauth_before_exec, and the first authentication of spawn_once.
Measure == CheckStep("measure", Measured, "clone")

\* create_identity_barrier_v1, observe_live_descriptor_inventory and clone3,
\* whose child has a copy of both ends.  The kernel may have given no pidfd,
\* and the signal mask may not be restored.
Clone ==
  /\ sup = "clone"
  /\ child' = "born"
  /\ ends' = [p \in Process |-> End]
  /\ \/ Goto("retain") /\ UNCHANGED faults
     \/ /\ faults < MaxFaults
        /\ faults' = faults + 1
        /\ sup' \in {"raw.kill", "drop.kill"}
  /\ UNCHANGED <<role, maps, toChild, toSup, exeVars, frameVars, signalled,
                 image, identity, meddles>>

\* drop of the child's end, and RetainedChildProcessV1::new.
Retain ==
  /\ sup = "retain"
  /\ IF Live
     THEN /\ Goto(IF role = "Generator" THEN "transition" ELSE "maps.check")
          /\ ends' = [ends EXCEPT !["supervisor"] = {"writer"}]
          /\ UNCHANGED <<role, maps, toChild, toSup, exeVars, frameVars, childVars>>
     ELSE Fail
  /\ UNCHANGED envVars

\* The rest of the worker's spawn_once: the child stays behind its barrier.
MapsCheck == CheckStep("maps.check", Measured /\ Live, "maps")

\* configure_namespace_maps: the maps can be written once, so what was read back
\* stays so.  The executable is authenticated after it.
Maps ==
  /\ sup = "maps"
  /\ IF Live
     THEN /\ maps' = TRUE
          /\ Goto("maps.measure")
          /\ UNCHANGED <<role, barrierVars, exeVars, frameVars, childVars>>
     ELSE Fail
  /\ UNCHANGED envVars

MapsMeasure == CheckStep("maps.measure", Measured, "op.before")

\* The checks of release_after_bootstrap_enqueued_v1.
ReleaseCheck ==
  CheckStep("release.check", Measured /\ Live /\ MapsHold, "transition")

\* write_control_byte_v1: nobody at the other end is an error.
WriteByte(from, byte, to) ==
  /\ sup = from
  /\ IF "reader" \in ends["child"]
     THEN /\ toChild' = Append(toChild, byte)
          /\ Goto(to)
          /\ UNCHANGED <<role, maps, ends, toSup, exeVars, frameVars, childVars>>
     ELSE Fail
  /\ UNCHANGED envVars

ReleaseTransition == WriteByte("transition", "T", "ready")

\* Mutant: the end of the barrier is taken for an interrupted read.
ReadReadyAgain ==
  /\ sup = "ready"
  /\ \/ /\ toSup # <<>>
        /\ toSup' = Tail(toSup)
        /\ Goto("identity")
        /\ UNCHANGED <<role, maps, ends, toChild, exeVars, frameVars, childVars>>
     \/ toSup = <<>> /\ ~Held("reader") /\ UNCHANGED vars
  /\ UNCHANGED envVars

\* read_control_byte_v1: waits for a byte, or for the last holder of the
\* child's end to be gone.
ReadReady ==
  /\ sup = "ready"
  /\ \/ /\ toSup # <<>>
        /\ toSup' = Tail(toSup)
        /\ Goto("identity")
        /\ UNCHANGED <<role, maps, ends, toChild, exeVars, frameVars, childVars>>
     \/ toSup = <<>> /\ ~Held("reader") /\ Fail
  /\ UNCHANGED envVars

\* validate_child_identity_ready_v1.
CheckIdentity == CheckStep("identity", Live /\ identity, "exec.check")

\* The authentication of the executable once the child is ready.
CheckExecutable == CheckStep("exec.check", Measured, "release")

\* release_after_executable_reauthenticated_v1.
ReleaseExec == WriteByte("release", "E", "live")

\* The checks after the release, when the barrier is no longer needed; only the
\* worker's have the executable in them.
CheckReleased ==
  /\ sup = "live"
  /\ IF Live /\ (role = "Worker" => Measured)
     THEN /\ Goto("op.before")
          /\ ends' = [ends EXCEPT !["supervisor"] = {}]
          /\ UNCHANGED <<role, maps, toChild, toSup, exeVars, frameVars, childVars>>
     ELSE Fail
  /\ UNCHANGED envVars

\* What comes before the kernel's part of a frame.
BeforeFrame ==
  /\ next <= Len(Script[role])
  /\ CheckStep("op.before", Projected, "op.do")

\* The last frame was exchanged; custody goes over to observe_exit.
EndSession ==
  /\ sup = "op.before"
  /\ next > Len(Script[role])
  /\ Advance("observe")
  /\ UNCHANGED envVars

\* enqueue_once_v1: the datagram is with the kernel, or the child is gone.
Enqueue ==
  sup = "op.do" /\ CurrentOp # "recv" /\ CheckStep("op.do", Live, "op.after")

\* receive_..._once_v1: waits for a frame of this child, or for its endpoint to
\* be closed; a frame other than the expected one is an error.
Receive ==
  /\ sup = "op.do"
  /\ CurrentOp = "recv"
  /\ \/ /\ inbox
        /\ inbox' = FALSE
        /\ Goto("op.after")
        /\ UNCHANGED <<role, maps, barrierVars, next, accepted, exeVars, childVars>>
     \/ (inbox \/ ~Live) /\ Fail
  /\ UNCHANGED envVars

\* Mutant: the executable is not authenticated after the frame.
AfterFrameUnmeasured ==
  /\ sup = "op.after"
  /\ IF Live
     THEN /\ next' = next + 1
          /\ accepted' = (accepted \/ CurrentOp = "recv")
          /\ Goto(IF CurrentOp = "boot" THEN "release.check" ELSE "op.before")
          /\ UNCHANGED <<role, maps, barrierVars, inbox, exeVars, childVars>>
     ELSE Fail
  /\ UNCHANGED envVars

\* The second projection is equal to the first, and only then does the typed
\* state advance.
AfterFrame ==
  /\ sup = "op.after"
  /\ IF Projected
     THEN /\ next' = next + 1
          /\ accepted' = (accepted \/ CurrentOp = "recv")
          /\ Goto(IF CurrentOp = "boot" THEN "release.check" ELSE "op.before")
          /\ UNCHANGED <<role, maps, barrierVars, inbox, exeVars, childVars>>
     ELSE Fail
  /\ UNCHANGED envVars

\* observe_exit waits without reaping; the executable is authenticated after.
Observe ==
  /\ sup = "observe"
  /\ child = "zombie"
  /\ Advance("observed")
  /\ UNCHANGED envVars

Observed == CheckStep("observed", Measured, "reap")

\* reap_exact; from here on Drop has nothing to do.
Reap ==
  /\ sup = "reap"
  /\ child = "zombie"
  /\ child' = "reaped"
  /\ Goto("reap.check")
  /\ UNCHANGED <<role, maps, barrierVars, exeVars, frameVars, signalled, image,
                 identity, envVars>>

ReapCheck == CheckStep("reap.check", Measured, "returned")

-----------------------------------------------------------------------------
(***************************************************************************)
(* Containment                                                             *)
(***************************************************************************)

\* SIGKILL through the pidfd, or to the pid of a child that has none; an
\* unexpected error of the pidfd ends the supervisor itself.
ContainKill ==
  /\ sup \in {"drop.kill", "raw.kill"}
  /\ \/ /\ signalled' = TRUE
        /\ Goto(IF sup = "drop.kill" THEN "drop.wait" ELSE "raw.wait")
        /\ UNCHANGED <<ends, faults>>
     \/ /\ sup = "drop.kill" /\ faults < MaxFaults
        /\ faults' = faults + 1
        /\ Goto("dead")
        /\ ends' = [ends EXCEPT !["supervisor"] = {}]
        /\ UNCHANGED signalled
  /\ UNCHANGED <<role, maps, toChild, toSup, exeVars, frameVars, child, image,
                 identity, meddles>>

\* Mutant: containment does not wait for the exit.
ContainWaitNot ==
  /\ sup \in {"drop.wait", "raw.wait"}
  /\ child' = IF child = "zombie" THEN "reaped" ELSE child
  /\ Goto("failed")
  /\ ends' = [ends EXCEPT !["supervisor"] = {}]
  /\ UNCHANGED <<role, maps, toChild, toSup, exeVars, frameVars, signalled,
                 image, identity, envVars>>

\* The loop of waitid, or wait4: retried until the child is reaped.
ContainWait ==
  /\ sup \in {"drop.wait", "raw.wait"}
  /\ \/ /\ child = "zombie"
        /\ child' = "reaped"
        /\ Goto("failed")
        /\ UNCHANGED faults
     \/ /\ sup = "drop.wait" /\ faults < MaxFaults
        /\ faults' = faults + 1
        /\ Goto("dead")
        /\ UNCHANGED child
  /\ ends' = [ends EXCEPT !["supervisor"] = {}]
  /\ UNCHANGED <<role, maps, toChild, toSup, exeVars, frameVars, signalled,
                 image, identity, meddles>>

-----------------------------------------------------------------------------
(***************************************************************************)
(* Steps of the child                                                      *)
(***************************************************************************)
supVars == <<role, sup, maps, exeVars, next, accepted>>

\* child_failure_exit_forever, or any other end: its descriptors are closed.
Exit ==
  /\ child' = "zombie"
  /\ ends' = [ends EXCEPT !["child"] = {}]
  /\ UNCHANGED <<supVars, toChild, toSup, inbox, image, identity, signalled>>

\* Dispositions are reset and the supervisor's end of the barrier is closed.
CloseWriter ==
  /\ child = "born"
  /\ child' = "transition.read"
  /\ ends' = [ends EXCEPT !["child"] = {"reader"}]
  /\ UNCHANGED <<supVars, toChild, toSup, inbox, image, identity, signalled, envVars>>

\* A read at the barrier: one byte, the expected one, or the end.
ReadByte(from, byte, to) ==
  /\ child = from
  /\ \/ /\ toChild # <<>>
        /\ toChild' = Tail(toChild)
        /\ IF Head(toChild) = byte
           THEN child' = to /\ UNCHANGED ends
           ELSE child' = "zombie" /\ ends' = [ends EXCEPT !["child"] = {}]
        /\ UNCHANGED <<supVars, toSup, inbox, image, identity, signalled>>
     \/ toChild = <<>> /\ ~Held("writer") /\ Exit
  /\ UNCHANGED envVars

ReadTransition == ReadByte("transition.read", "T", "shift")

\* Descriptors are remapped, the rest closed, groups, gid and uid set and read
\* back from procfs.
Shift ==
  /\ child = "shift"
  /\ identity' = TRUE
  /\ child' = "ready.write"
  /\ UNCHANGED <<supVars, barrierVars, inbox, image, signalled, envVars>>

WriteReady ==
  /\ child = "ready.write"
  /\ IF Held("writer")
     THEN /\ toSup' = Append(toSup, "I")
          /\ child' = "exec.read"
          /\ UNCHANGED <<supVars, ends, toChild, inbox, image, identity, signalled>>
     ELSE Exit
  /\ UNCHANGED envVars

ReadExec == ReadByte("exec.read", "E", "exec")

\* execveat of the retained descriptor closes the barrier; the bytes that run
\* are the ones in the file now.
Exec ==
  /\ child = "exec"
  /\ child' = "program"
  /\ image' = exe
  /\ ends' = [ends EXCEPT !["child"] = {}]
  /\ UNCHANGED <<supVars, toChild, toSup, inbox, identity, signalled, envVars>>

\* Any call of the trampoline may fail, and the child exits.
ChildFault ==
  /\ child \in Trampoline
  /\ faults < MaxFaults
  /\ faults' = faults + 1
  /\ Exit
  /\ UNCHANGED meddles

\* The program sends a frame, or exits.
ProgramSends ==
  /\ child = "program" /\ ~inbox
  /\ inbox' = TRUE
  /\ UNCHANGED <<supVars, barrierVars, childVars, envVars>>

ProgramExits == child = "program" /\ Exit /\ UNCHANGED envVars

\* SIGKILL takes effect.
Die == signalled /\ Live /\ Exit /\ UNCHANGED envVars

-----------------------------------------------------------------------------
(***************************************************************************)
(* The outsider                                                            *)
(***************************************************************************)
Meddle == meddles < MaxMeddles /\ meddles' = meddles + 1 /\ UNCHANGED faults

\* The executable is written to; whether the kernel would refuse that for a
\* running one is not relied on.
MeddleExecutable ==
  /\ Meddle
  /\ exe' \in {"measured", "altered"}
  /\ touched' = TRUE
  /\ UNCHANGED <<role, sup, maps, barrierVars, frameVars, childVars>>

MeddleChild == Meddle /\ Live /\ Exit

MeddleSupervisor ==
  /\ Meddle
  /\ sup \notin Ended
  /\ sup' = "dead"
  /\ ends' = [ends EXCEPT !["supervisor"] = {}]
  /\ UNCHANGED <<role, maps, toChild, toSup, exeVars, frameVars, childVars>>

-----------------------------------------------------------------------------
Containment == ContainKill \/ ContainWait

Supervisor ==
  \/ Measure \/ Clone \/ Retain \/ MapsCheck \/ Maps \/ MapsMeasure
  \/ ReleaseCheck \/ ReleaseTransition \/ ReadReady \/ CheckIdentity
  \/ CheckExecutable \/ ReleaseExec \/ CheckReleased \/ BeforeFrame
  \/ EndSession \/ Enqueue \/ Receive \/ AfterFrame \/ Observe \/ Observed \/ Reap \/ ReapCheck \/ Containment

TrampolineStep ==
  \/ CloseWriter \/ ReadTransition \/ Shift \/ WriteReady \/ ReadExec \/ Exec

Program == ProgramSends \/ ProgramExits

Outsider == MeddleExecutable \/ MeddleChild \/ MeddleSupervisor

\* The supervisor is through, and so is the child.
Done == sup \in Ended /\ child \in Gone /\ UNCHANGED vars

Next ==
  \/ Supervisor \/ TrampolineStep \/ Program \/ Die \/ Fault \/ ChildFault
  \/ Outsider \/ Done

Spec == Init /\ [][Next]_vars

\* The supervisor and the trampoline are single threads the kernel schedules,
\* and a pending SIGKILL is acted upon.  Nothing is assumed of the program.
FairSpec ==
  Spec /\ WF_vars(Supervisor) /\ WF_vars(TrampolineStep) /\ WF_vars(Die)

-----------------------------------------------------------------------------
(***************************************************************************)
(* Properties                                                              *)
(***************************************************************************)

\* A frame is accepted only from a child that runs the measured bytes under
\* the identity of its role, and, for a worker, behind its maps, although the
\* file may change between the last authentication before the release and the
\* execveat of the child: the authentication after the frame tells.
AcceptedIsMeasured ==
  accepted => image = "measured" /\ identity /\ MapsHold

\* When a call has returned, with an error or not, no child is left behind:
\* whatever step failed, the child was never made or has been reaped.
NobodyIsOrphaned == sup \in {"failed", "returned"} => child \in {"none", "reaped"}

\* Nobody waits for ever at the barrier.  Whatever the peer does or wherever
\* it dies, the supervisor gets on to the program's own frames or to an end,
\* and a child in the trampoline is released or exits once the supervisor is
\* dead.
EveryWaitEnds ==
  /\ sup \in SupStep \cup Containing
       ~> sup \in Ended \/ sup = "observe" \/ sup = "op.do"
  /\ sup = "dead" /\ child \in Trampoline ~> child \notin Trampoline
=============================================================================
