--------------------------- MODULE ConnectionRun ---------------------------
(***************************************************************************)
(* One connection run from its start to its verified end, and its recovery  *)
(* by a later process: ConnectionRunExecutor (p0_harness.py) with the       *)
(* distributed lifecycle (distributed_harness.py, production_run.py), the   *)
(* endpoint's D2-D4 (d_stage.py), the measured acknowledgement D5           *)
(* (d_control.py) and the local release D7-D11 (d_release.py), on the        *)
(* machine of RadioHost.                                                    *)
(*                                                                         *)
(* The control process is sequential: pc is the place between two effects    *)
(* that something else can see, and it can die at every one of them.  The   *)
(* worker, the peer behind the relay and the user act in between.  Three     *)
(* programs drive the executor: "direct" (a local A or B stage), "harness"   *)
(* (the two-PC qualification run) and "production" (the desktop service).   *)
(*                                                                         *)
(* The coordinator's commands are atomic here; what a crash does inside one  *)
(* of them is the subject of Coordinator.  The relay is seen through this    *)
(* member's requests, each of which may be refused, lost, or applied with    *)
(* its answer lost.  A failure code matters only in whether two parties have *)
(* the same one.                                                            *)
(***************************************************************************)
EXTENDS RadioHost

CONSTANTS
    Kinds,      \* the programs that drive the executor
    MaxBoots    \* how often a process is started to recover the run

ASSUME ConnectionAssumption ==
    /\ Kinds \subseteq {"direct", "harness", "production"}
    /\ MaxBoots \in Nat /\ MaxReplugs \in Nat

VARIABLES
    kind,       \* the program
    rec,        \* the coordinator's record on disk
    pc,         \* the control process
    ret,        \* who called UsbLease.release
    cancel,     \* the user asked to stop
    flags,      \* locals of _run and of DistributedLifecycle
    intent,     \* self.intent
    result,     \* what close_run is called with
    given,      \* the closing intent the endpoint was sent
    dReport,    \* d-endpoint-stage.json, or the direct stage's report
    d5,         \* d5-control-state.json: the measured evidence
    released,   \* d-local-release.json
    session,    \* the run's copy of the room credential
    authority,  \* room-authority.private.json
    room,       \* the relay's view of this member
    att,        \* the relay's attempt
    boots

controlVars == <<ret, cancel, flags, intent, result>>
fileVars == <<dReport, d5, released, session, authority>>
relayVars == <<room, att>>
runVars == <<kind, rec, pc, boots, given>>
vars == <<hostVars, controlVars, fileVars, relayVars, runVars>>

Nothing == [outcome |-> "none", code |-> "none"]
Means(o, c) == [outcome |-> o, code |-> IF o = "failed" THEN c ELSE "none"]

NoFlags == [established |-> FALSE, started |-> FALSE, prepared |-> FALSE,
            forced |-> FALSE, quiet |-> TRUE]

NewRecord ==
    [phase |-> "preflight", functional |-> "pending", code |-> "none",
     cleanup |-> "pending", usbSeen |-> FALSE, wrapper |-> FALSE, phy |-> FALSE,
     attempt |-> FALSE, endpoint |-> FALSE]

Verified == rec.phase = "terminal" /\ rec.cleanup = "verified"

Init ==
    /\ HostInit
    /\ kind \in Kinds
    /\ rec = [NewRecord EXCEPT !.phase = "none"]
    /\ pc = (IF kind = "harness" THEN "enter" ELSE "start")
    /\ ret = "none" /\ cancel = FALSE /\ flags = NoFlags
    /\ intent = Nothing /\ result = Nothing /\ given = Nothing
    /\ dReport = [status |-> "none", of |-> Nothing]
    /\ d5 = "none" /\ released = "none"
    /\ session = FALSE /\ authority = FALSE /\ room = "none"
    /\ att = [phase |-> "none", of |-> Nothing, mine |-> "none", peer |-> "none"]
    /\ boots = 0

-----------------------------------------------------------------------------
(* The relay and the peer.                                                   *)

Closing(o, c) == [att EXCEPT !.phase = "closing", !.of = Means(o, c)]
HasD == att.of # Nothing

AttemptStarts ==
    /\ room = "ready" /\ att.phase = "none"
    /\ att' = [att EXCEPT !.phase = "active"]
    /\ UNCHANGED <<hostVars, controlVars, fileVars, room, runVars>>

\* The peer's own intent, or a loss the relay sees: that one has no D state.
PeerEnds ==
    /\ att.phase = "active"
    /\ \/ \E o \in {"completed", "canceled", "failed"} : att' = Closing(o, "peer")
       \/ att' = [att EXCEPT !.phase = "terminal"]
    /\ UNCHANGED <<hostVars, controlVars, fileVars, room, runVars>>

PeerAcknowledges ==
    /\ att.phase = "closing" /\ att.peer = "none"
    /\ \E side \in {"clean", "dirty"} : att' = [att EXCEPT !.peer = side]
    /\ UNCHANGED <<hostVars, controlVars, fileVars, room, runVars>>

\* Both sides acknowledged, or the D deadline passed.
BarrierEnds ==
    /\ att.phase = "closing"
    /\ att' = [att EXCEPT !.phase = "terminal"]
    /\ UNCHANGED <<hostVars, controlVars, fileVars, room, runVars>>

\* A member with an attempt that is not over is not let go.
LetGo == att.phase \in {"none", "terminal"} /\ room' = "out"

-----------------------------------------------------------------------------
(* The endpoint after its start.                                             *)

EndpointFails ==
    /\ worker = "endpoint" /\ kind # "direct"
    /\ worker' = "failing" /\ out' = out \cup {"failed"}
    /\ UNCHANGED <<prior, usb, iface, sideFile, usbFile, lease, replugs>>
    /\ UNCHANGED <<controlVars, fileVars, relayVars, runVars>>

\* EndpointDStage.run for the intent it was given: D2, D3 and D4 are tried one
\* after the other whatever fails, and the report says whether all passed; that the LDN
\* context is released is the stage's own word (StageSession.stop).
EndpointCloses ==
    /\ worker \in {"endpoint", "failing"} /\ given # Nothing
    /\ \E status \in {"passed", "failed"} :
        /\ dReport' = [status |-> status, of |-> given]
        /\ iface' \in {iface, "down"}
    /\ out' = out \cup {"done"} /\ worker' = "exited"
    /\ UNCHANGED <<prior, usb, sideFile, usbFile, lease, replugs>>
    /\ UNCHANGED <<controlVars, d5, released, session, authority, relayVars, runVars>>

\* A direct stage runs its gates, quiesces the radio and reports both.
StageEnds ==
    /\ worker = "endpoint" /\ kind = "direct"
    /\ iface' \in {iface, "down"}
    /\ dReport' = [status |-> IF iface' = "down" THEN "passed" ELSE "failed", of |-> Nothing]
    /\ \E e \in {"done", "failed"} : out' = out \cup {e}
    /\ worker' = "exited"
    /\ UNCHANGED <<prior, usb, sideFile, usbFile, lease, replugs>>
    /\ UNCHANGED <<controlVars, d5, released, session, authority, relayVars, runVars>>

Environment ==
    \/ /\ WorkerReady \/ EndpointStarts \/ TicketRefused \/ WorkerLeaves \/ Replug
       /\ UNCHANGED <<controlVars, fileVars, relayVars, runVars>>
    \/ EndpointFails \/ EndpointCloses \/ StageEnds
    \/ AttemptStarts \/ PeerEnds \/ PeerAcknowledges \/ BarrierEnds

\* submit: a cancellation is refused once the cleanup has begun.
MayCancel == ~cancel /\ pc \notin {"down", "done"} /\ rec.phase \in {"preflight", "running"}

UserCancels ==
    /\ MayCancel /\ cancel' = TRUE
    /\ UNCHANGED <<hostVars, ret, flags, intent, result, fileVars, relayVars, runVars>>

-----------------------------------------------------------------------------
(* The executor's body (_run up to close_run).                               *)

\* An exception in the body ends it with an outcome; cancellation is one of them.
Raise(code) ==
    /\ pc' = "close"
    /\ result' = IF cancel THEN Means("canceled", "none") ELSE Means("failed", code)

\* A step of the body that changed nothing else but what its caller says.
Body(at) == pc = at /\ UNCHANGED <<kind, boots, ret, cancel, given, dReport, d5, released>>
KeepHost == UNCHANGED hostVars
KeepRelay == UNCHANGED <<relayVars, session, authority>>

\* Any wait or check of the body may time out, be refused, or see the cancellation.
BodyFails(at) ==
    /\ Body(at)
    /\ Raise("run")
    /\ UNCHANGED <<rec, flags, intent>> /\ KeepHost /\ KeepRelay

\* The harness enters its room before the run (_room_session): when the invitation or
\* the session file cannot be written the room is given up again if the relay lets it.
EnterSession ==
    /\ Body("enter")
    /\ room' \in {"none", "in", "out"}
    /\ \/ room' = "in" /\ session' \in BOOLEAN /\ pc' = IF session' THEN "pairing" ELSE "done"
       \/ room' \in {"none", "out"} /\ UNCHANGED session /\ pc' = "done"
    /\ UNCHANGED <<rec, flags, intent, result, authority, att>> /\ KeepHost

\* The room is left and its session removed, or the session is kept.
PairingFails ==
    /\ pc' = "done"
    /\ \/ LetGo /\ session' = FALSE
       \/ room' \in {room, "out"} /\ UNCHANGED session

\* confirm_pairing, which may fail or be canceled.
ConfirmPairing ==
    /\ Body("pairing")
    /\ \/ pc' = "start" /\ UNCHANGED <<room, session>>
       \/ PairingFails
    /\ UNCHANGED <<rec, flags, intent, result, authority, att>> /\ KeepHost

Start ==
    /\ Body("start")
    /\ rec' = NewRecord /\ pc' = "p0a"
    /\ UNCHANGED <<flags, intent, result>> /\ KeepHost /\ KeepRelay

\* PassiveValidator.validate reads only; no worker may be left.
PassiveCheck ==
    \/ /\ Body("p0a")
       /\ PassivelyReady
       /\ pc' = IF kind = "production" THEN "establish" ELSE "bind"
       /\ UNCHANGED <<rec, flags, intent, result>> /\ KeepHost /\ KeepRelay
    \/ BodyFails("p0a")

\* ProductionLifecycle.establish: the room is created or joined, then the credential
\* is saved; when the answer is lost there is a membership nobody has a credential for.
EnterRoom ==
    \/ /\ Body("establish") /\ room = "none"
       /\ room' = "in"
       /\ \/ pc' = "save" /\ UNCHANGED result
          \/ Raise("run")
       /\ UNCHANGED <<rec, flags, intent, session, authority, att>> /\ KeepHost
    \/ BodyFails("establish")

SaveCredential ==
    /\ Body("save")
    /\ authority' = TRUE /\ session' = TRUE /\ pc' = "pair"
    /\ UNCHANGED <<rec, flags, intent, result, relayVars>> /\ KeepHost

\* The role is chosen and the peer is seen in its seat.
Pair ==
    \/ /\ Body("pair")
       /\ flags' = [flags EXCEPT !.established = TRUE] /\ pc' = "bind"
       /\ UNCHANGED <<rec, intent, result>> /\ KeepHost /\ KeepRelay
    \/ BodyFails("pair")

Bind ==
    \/ /\ Body("bind")
       /\ rec' = [rec EXCEPT !.phase = "running"] /\ pc' = "lease"
       /\ UNCHANGED <<flags, intent, result>> /\ KeepHost /\ KeepRelay
    \/ BodyFails("bind")

\* From here on lease is not None and cleanup will release it.
CreateLease ==
    /\ Body("lease")
    /\ lease' = [NoLease EXCEPT !.held = TRUE] /\ pc' = "intent"
    /\ UNCHANGED <<rec, flags, intent, result>> /\ KeepRelay
    /\ UNCHANGED <<prior, usb, iface, worker, out, sideFile, usbFile, replugs>>

WriteIntent ==
    \/ /\ Body("intent")
       /\ PersistIntent /\ pc' = IF prior THEN "activate" ELSE "attach"
       /\ UNCHANGED <<rec, flags, intent, result>> /\ KeepRelay
       /\ UNCHANGED <<prior, usb, iface, worker, out, sideFile, lease, replugs>>
    \/ BodyFails("intent")

\* modprobe may fail before acquired_by_run is set.
Attach ==
    \/ /\ Body("attach")
       /\ \/ AttachCommand(TRUE) /\ pc' = "activate" /\ UNCHANGED result
          \/ AttachCommand(FALSE) /\ Raise("run")
       /\ UNCHANGED <<rec, flags, intent>> /\ KeepRelay
       /\ UNCHANGED <<prior, iface, worker, out, sideFile, usbFile, replugs>>
    \/ BodyFails("attach")

Enumerated ==
    \/ /\ Body("activate")
       /\ Activate /\ pc' = "spawn"
       /\ UNCHANGED <<rec, flags, intent, result>> /\ KeepRelay
       /\ UNCHANGED <<prior, usb, iface, worker, out, sideFile, usbFile, replugs>>
    \/ BodyFails("activate")

Spawn ==
    \/ /\ Body("spawn")
       /\ worker' = "starting" /\ pc' = "await_ready"
       /\ UNCHANGED <<rec, flags, intent, result>> /\ KeepRelay
       /\ UNCHANGED <<prior, usb, iface, out, sideFile, usbFile, lease, replugs>>
    \/ BodyFails("spawn")

\* An event the reader thread has taken from the worker's pipe.
Sees(event) == event \in out

\* The ready event must name this run, this adapter and the radio P0a saw.
AwaitReady ==
    \/ /\ Body("await_ready")
       /\ Sees("ready") /\ pc' = "own"
       /\ UNCHANGED <<rec, flags, intent, result>> /\ KeepHost /\ KeepRelay
    \/ BodyFails("await_ready")

\* Two commands: the process is on record before the radio it prepared is.
AcquireWrapper ==
    /\ Body("own")
    /\ rec' = [rec EXCEPT !.wrapper = TRUE] /\ pc' = "mark"
    /\ UNCHANGED <<flags, intent, result>> /\ KeepHost /\ KeepRelay

MarkP0Ready ==
    /\ Body("mark")
    /\ rec' = [rec EXCEPT !.phy = TRUE]
    /\ pc' = IF kind = "direct" THEN "launch" ELSE "ready"
    /\ UNCHANGED <<flags, intent, result>> /\ KeepHost /\ KeepRelay

\* DistributedLifecycle.prepare: v2_ready, then the wait for the attempt.
SendReady ==
    \/ /\ Body("ready")
       /\ room' = "ready"
       /\ \/ pc' = "await_attempt" /\ UNCHANGED result
          \/ Raise("run")
       /\ UNCHANGED <<rec, flags, intent, session, authority, att>> /\ KeepHost
    \/ BodyFails("ready")

LockAttempt ==
    \/ /\ Body("await_attempt")
       /\ att.phase # "none"
       /\ rec' = [rec EXCEPT !.attempt = TRUE]
       /\ flags' = [flags EXCEPT !.prepared = TRUE] /\ pc' = "launch"
       /\ UNCHANGED <<intent, result>> /\ KeepHost /\ KeepRelay
    \/ BodyFails("await_attempt")

\* The launch is reserved and its ticket sent.
Launch ==
    \/ /\ Body("launch")
       /\ worker = "ready"
       /\ worker' = "launched" /\ pc' = "await_started"
       /\ UNCHANGED <<rec, flags, intent, result>> /\ KeepRelay
       /\ UNCHANGED <<prior, usb, iface, out, sideFile, usbFile, lease, replugs>>
    \/ BodyFails("launch")

AcknowledgeEndpoint ==
    \/ /\ Body("await_started")
       /\ Sees("started")
       /\ rec' = [rec EXCEPT !.endpoint = TRUE]
       /\ flags' = [flags EXCEPT !.started = TRUE]
       /\ pc' = IF kind = "direct" THEN "direct" ELSE "drive"
       /\ UNCHANGED <<intent, result>> /\ KeepHost /\ KeepRelay
    \/ BodyFails("await_started")

\* The loops over the gates of a direct stage, up to its last event.
DirectStage ==
    \/ /\ Body("direct")
       /\ Sees("done")
       /\ pc' = "close" /\ result' = Means("passed", "none")
       /\ UNCHANGED <<rec, flags, intent>> /\ KeepHost /\ KeepRelay
    \/ BodyFails("direct")

-----------------------------------------------------------------------------
(* DistributedLifecycle.drive and _begin_d.                                  *)

(* Mutant: the intent this side chose is used although the authority has one. *)
MutantOwnIntent(o, c, ok, failed) ==
    \/ /\ HasD
       /\ intent' = Means(o, c) /\ pc' = ok /\ UNCHANGED att
    \/ /\ att.phase = "active"
       /\ att' = Closing(o, c)
       /\ \/ intent' = Means(o, c) /\ pc' = ok
          \/ UNCHANGED intent /\ pc' = failed
    \/ UNCHANGED <<att, intent>> /\ pc' = failed

\* The authority's intent is adopted if there is one; a version conflict is retried,
\* which makes the read and the write one step; the answer may be lost.
BeginD(o, c, ok, failed) ==
    \/ /\ HasD
       /\ intent' = att.of /\ pc' = ok /\ UNCHANGED att
    \/ /\ att.phase = "active"
       /\ att' = Closing(o, c)
       /\ \/ intent' = Means(o, c) /\ pc' = ok
          \/ UNCHANGED intent /\ pc' = failed
    \/ UNCHANGED <<att, intent>> /\ pc' = failed

\* One turn of the loop that ends it: the endpoint failed, the authority has an
\* intent, the owner confirmed the end, or an exception (cancellation included).
\* await_continue at the end of the trade: the owner confirms it or cancels.
OwnerEnds ==
    /\ worker = "endpoint"
    /\ \E o \in {"completed", "canceled"} : BeginD(o, "none", "send", "drive_error")

Drive ==
    /\ Body("drive")
    /\ \/ Sees("failed") /\ BeginD("failed", "endpoint", "send", "drive_error")
       \/ HasD /\ intent' = att.of /\ pc' = "send" /\ UNCHANGED att
       \/ OwnerEnds
       \/ pc' = "drive_error" /\ UNCHANGED <<att, intent>>
    /\ UNCHANGED <<rec, flags, result, room, session, authority>> /\ KeepHost

\* The handler of drive tries D1 once more; its own failure leaves drive.
DriveError ==
    /\ Body("drive_error")
    /\ BeginD(IF cancel THEN "canceled" ELSE "failed", "run", "send", "close")
    /\ result' = IF pc' = "close" THEN Means("failed", "relay") ELSE result
    /\ UNCHANGED <<rec, flags, room, session, authority>> /\ KeepHost

Mapped(i) == Means(IF i.outcome = "completed" THEN "passed" ELSE i.outcome, i.code)

\* The intent goes to the endpoint once; a dead pipe is only noticed.
SendIntent ==
    /\ pc = "send"
    /\ given' = IF worker \in {"endpoint", "failing"} THEN intent ELSE given
    /\ pc' = "await_done"
    /\ UNCHANGED <<kind, rec, boots, controlVars, fileVars, relayVars>> /\ KeepHost

\* The endpoint's D report arrives, or a deadline, a cancellation or a lost worker
\* ends the wait: either way the outcome is the intent's.
AwaitDone ==
    /\ Body("await_done")
    /\ pc' = "close" /\ result' = Mapped(intent)
    /\ UNCHANGED <<rec, flags, intent>> /\ KeepHost /\ KeepRelay

-----------------------------------------------------------------------------
(* The end of the run: close_run, events.stop, then one of two cleanups.     *)

(* Mutant: the stage's own word is recorded instead of the run's outcome.     *)
MutantCloseRaw ==
    /\ Body("close")
    /\ rec' = [rec EXCEPT !.phase = "closing", !.code = result.code,
                          !.functional = IF intent = Nothing THEN result.outcome ELSE intent.outcome]
    /\ pc' = "stop"
    /\ UNCHANGED <<flags, intent, result>> /\ KeepHost /\ KeepRelay

CloseRun ==
    /\ Body("close")
    /\ rec' = [rec EXCEPT !.phase = "closing", !.functional = result.outcome,
                          !.code = result.code]
    /\ pc' = "stop"
    /\ UNCHANGED <<flags, intent, result>> /\ KeepHost /\ KeepRelay

\* WorkerEvents.stop: asked, terminated, killed; the last wait may expire as well.
Stop ==
    /\ Body("stop")
    /\ \/ /\ worker \in {"none", "exited"}
          /\ UNCHANGED <<worker, iface, flags>>
          /\ pc' = IF flags.prepared THEN "d1" ELSE "abort"
       \/ /\ Alive
          /\ worker' = "exited"
          /\ \/ iface' \in {iface, "down"} /\ UNCHANGED flags
             \/ UNCHANGED iface /\ flags' = [flags EXCEPT !.forced = TRUE]
          /\ pc' = IF flags.prepared THEN "d1" ELSE "abort"
       \/ /\ Alive
          /\ pc' = "unclean" /\ UNCHANGED <<worker, iface, flags>>
    /\ UNCHANGED <<rec, intent, result, prior, usb, out, sideFile, usbFile, lease, replugs>>
    /\ KeepRelay

\* The handler of the cleanup: refused unless the record is in cleanup.
Unclean ==
    /\ Body("unclean")
    /\ rec' = IF rec.phase = "cleaning"
              THEN [rec EXCEPT !.phase = "terminal", !.cleanup = "failed", !.usbSeen = FALSE]
              ELSE rec
    /\ pc' = "done"
    /\ UNCHANGED <<flags, intent, result>> /\ KeepHost /\ KeepRelay

\* D8: no process of the launch.  D9: three quiet samples; an adapter that is gone from
\* Linux counts as quiet for the executor, not for LocalDRelease.
LaunchAbsent == ~Alive
RadioQuiet == RadioDown
D8D9(radio) == LaunchAbsent /\ (radio = "down" \/ ~InWsl)

\* _quiesce_netdev takes down the one interface the record or the side report names.
Quiesced(known) == IF known THEN "down" ELSE iface

\* Without a prepared attempt: the netdev on record is taken down, D8 and D9 are
\* probed (not by the direct programs), and only then is the lease released.
AbortCheck ==
    LET probed == kind # "direct" /\ rec.wrapper
        down == Quiesced(probed /\ rec.phy)
    IN /\ pc = "abort"
       /\ rec' = [rec EXCEPT !.phase = "cleaning"]
       /\ \/ /\ iface' = down
             /\ \E quiet \in BOOLEAN :
                 /\ quiet => ~probed \/ D8D9(down)
                 /\ ~quiet => probed
                 /\ flags' = [flags EXCEPT !.quiet = quiet]
                 /\ pc' = IF lease.held /\ quiet THEN "release" ELSE "abort_room"
             /\ ret' = "abort"
          \/ /\ probed /\ rec.phy
             /\ pc' = "unclean" /\ UNCHANGED <<iface, flags, ret>>
       /\ UNCHANGED <<kind, boots, cancel, given, dReport, d5, released, intent, result>>
       /\ UNCHANGED <<prior, usb, worker, out, sideFile, usbFile, lease, replugs>>
       /\ KeepRelay

StageReleased ==
    kind = "direct" /\ flags.started => dReport.status = "passed"

\* The harness is in its room before the run, production once establish is through.
Joined == kind = "harness" \/ flags.established

\* The production run may end in a room that stays, no longer ready.
KeepsRoom == /\ kind = "production" /\ att.phase \in {"none", "terminal"}
             /\ room' = "in"

(* Mutant: the session file goes whether or not the cleanup was verified.    *)
MutantAbortForgets ==
    LET local == ~flags.forced /\ flags.quiet /\ ~lease.held /\ StageReleased
        Complete(verified) ==
            /\ rec' = [rec EXCEPT !.phase = "terminal",
                                  !.cleanup = IF verified THEN "verified" ELSE "failed",
                                  !.usbSeen = usbFile = NoFile /\ local]
            /\ pc' = "forget"
    IN /\ Body("abort_room")
       /\ \/ ~local /\ Complete(FALSE) /\ UNCHANGED <<room, authority>>
          \/ local /\ ~Joined /\ Complete(TRUE) /\ UNCHANGED <<room, authority>>
          \/ /\ local /\ Joined
             /\ \/ LetGo /\ authority' = FALSE /\ Complete(TRUE)
                \/ KeepsRoom /\ UNCHANGED authority /\ Complete(TRUE)
                \/ /\ room' \in IF att.phase \in {"none", "terminal"} THEN {room, "out"} ELSE {room}
                   /\ UNCHANGED authority /\ Complete(FALSE)
       /\ UNCHANGED <<flags, intent, result, session, att>> /\ KeepHost

\* abort: a room is left only behind a verified local cleanup.
AbortRoom ==
    LET local == ~flags.forced /\ flags.quiet /\ ~lease.held /\ StageReleased
        Complete(verified) ==
            /\ rec' = [rec EXCEPT !.phase = "terminal",
                                  !.cleanup = IF verified THEN "verified" ELSE "failed",
                                  !.usbSeen = usbFile = NoFile /\ local]
            /\ pc' = IF verified THEN "forget" ELSE "done"
    IN /\ Body("abort_room")
       /\ \/ ~local /\ Complete(FALSE) /\ UNCHANGED <<room, authority>>
          \/ local /\ ~Joined /\ Complete(TRUE) /\ UNCHANGED <<room, authority>>
          \/ /\ local /\ Joined
             /\ \/ LetGo /\ authority' = FALSE /\ Complete(TRUE)
                \/ KeepsRoom /\ UNCHANGED authority /\ Complete(TRUE)
                \/ /\ room' \in IF att.phase \in {"none", "terminal"} THEN {room, "out"} ELSE {room}
                   /\ UNCHANGED authority /\ Complete(FALSE)
       /\ UNCHANGED <<flags, intent, result, session, att>> /\ KeepHost

(* Mutant: the run's session is removed whatever became of the room, and with it
   the saved authority.                                                     *)
MutantForgetAll ==
    /\ Body("forget")
    /\ session' = FALSE /\ authority' = FALSE /\ pc' = "done"
    /\ UNCHANGED <<rec, flags, intent, result, relayVars>> /\ KeepHost

\* finalize_abort, and the last lines of cleanup.
Forget ==
    /\ Body("forget")
    /\ session' = FALSE /\ pc' = "done"
    /\ UNCHANGED <<rec, flags, intent, result, authority, relayVars>> /\ KeepHost

-----------------------------------------------------------------------------
(* DistributedLifecycle.cleanup: D1 if there was none, D5, D6, D7-D11.        *)

BeginCleanupD1 ==
    /\ Body("d1")
    /\ IF intent # Nothing THEN pc' = "d5" /\ UNCHANGED <<att, intent>>
       ELSE BeginD("failed", "interrupted", "d5", "unclean")
    /\ UNCHANGED <<rec, flags, result, room, session, authority>> /\ KeepHost

AuthorityOutcome(r) ==
    Means(IF r.functional = "passed" THEN "completed"
          ELSE IF r.functional = "interrupted" THEN "failed" ELSE r.functional, r.code)

Agreed == att.of = AuthorityOutcome(rec)

\* The endpoint's report is for the intent the authority holds.
ReportIs(i) == dReport.status # "none" /\ dReport.of = i

\* Two looks at the process and two at the interfaces, each of which may be unknown.
ProcessGone == ~Alive
InterfacesAbsent == RadioDown

(* Mutant: the endpoint's own report is all the evidence of D5.              *)
MutantUnmeasured == {IF dReport.status = "passed" THEN "clean" ELSE "dirty"}

\* The endpoint's report counts only with a process seen gone and interfaces seen absent.
Measured ==
    IF dReport.status = "passed" /\ ProcessGone /\ InterfacesAbsent THEN {"clean", "dirty"}
    ELSE {"dirty"}

\* MeasuredD5Control._prepare: the evidence is saved before it is sent.
MeasureD5 ==
    /\ pc = "d5"
    /\ \/ /\ rec.endpoint /\ Agreed
          /\ ReportIs(att.of)
          /\ d5' \in Measured /\ pc' = "ack"
       \/ UNCHANGED d5 /\ pc' = "unclean"
    /\ UNCHANGED <<kind, rec, boots, given, controlVars, dReport, released, relayVars, session, authority>>
    /\ KeepHost

AcknowledgeD5 ==
    /\ Body("ack")
    /\ \/ /\ att.phase \in {"closing", "terminal"}
          /\ att' = [att EXCEPT !.mine = IF @ = "none" THEN d5 ELSE @]
          /\ pc' \in {"d6", "unclean"}
       \/ UNCHANGED att /\ pc' = "unclean"
    /\ UNCHANGED <<rec, flags, intent, result, room, session, authority>> /\ KeepHost

AwaitBarrier ==
    /\ Body("d6")
    /\ \/ att.phase = "terminal" /\ pc' = "d7"
       \/ pc' = "unclean"
    /\ UNCHANGED <<rec, flags, intent, result>> /\ KeepHost /\ KeepRelay

\* The barrier must hold this side's evidence and this side's outcome.
BarrierHolds == att.mine = d5 /\ Agreed

\* LocalDRelease.release up to its first report.
CheckBarrier ==
    /\ pc = "d7"
    /\ \/ /\ BarrierHolds
          /\ rec' = [rec EXCEPT !.phase = "cleaning"]
          /\ released' = "running" /\ pc' = "d8"
       \/ /\ ~BarrierHolds
          /\ pc' = "unclean" /\ UNCHANGED <<rec, released>>
    /\ UNCHANGED <<kind, boots, given, controlVars, dReport, d5, session, authority, relayVars>>
    /\ KeepHost

ReleaseFails ==
    /\ rec' = [rec EXCEPT !.phase = "terminal", !.cleanup = "failed", !.usbSeen = FALSE]
    /\ released' = "failed" /\ pc' = "done"

\* D8 and D9; the USB lease is released only when both hold.
ProbeRelease ==
    /\ pc = "d8"
    /\ \/ /\ LaunchAbsent /\ RadioQuiet
          /\ pc' = "release" /\ ret' = "d10" /\ UNCHANGED <<rec, released>>
       \/ ReleaseFails /\ UNCHANGED ret
    /\ UNCHANGED <<kind, boots, given, cancel, flags, intent, result, dReport, d5>>
    /\ KeepHost /\ KeepRelay

CompleteD11 ==
    /\ Body("d11")
    /\ rec' = [rec EXCEPT !.phase = "terminal", !.cleanup = "verified", !.usbSeen = FALSE]
    /\ pc' = "report"
    /\ UNCHANGED <<flags, intent, result>> /\ KeepHost /\ KeepRelay

ReportD11 ==
    /\ pc = "report"
    /\ d5' = "none" /\ released' = "passed" /\ pc' = "finalize"
    /\ UNCHANGED <<kind, rec, boots, given, controlVars, dReport, session, authority, relayVars>>
    /\ KeepHost

\* _room_finalize: closed or left, or kept for another run (production only).
FinalizeRoom ==
    /\ Body("finalize")
    /\ \/ LetGo /\ authority' = FALSE /\ pc' = "forget"
       \/ KeepsRoom /\ UNCHANGED authority /\ pc' = "forget"
       \/ room' \in {room, "out"} /\ UNCHANGED authority /\ pc' = "unclean"
    /\ UNCHANGED <<rec, flags, intent, result, session, att>> /\ KeepHost

-----------------------------------------------------------------------------
(* UsbLease.release for its three callers.                                   *)

ReleaseFailed ==
    CASE ret = "d10" -> ReleaseFails
      [] ret = "abort" -> pc' = "unclean" /\ UNCHANGED <<rec, released>>
      [] ret = "recover" -> pc' = "r_failed" /\ UNCHANGED <<rec, released>>

ReleaseDone ==
    /\ usbFile' = NoFile /\ lease' = NoLease
    /\ pc' = CASE ret = "d10" -> "d11" [] ret = "abort" -> "abort_room" [] ret = "recover" -> "r_done"
    /\ UNCHANGED <<rec, released>>

\* The state before anything is commanded.
Release ==
    /\ pc = "release"
    /\ \/ NothingToReturn /\ ReleaseDone
       \/ /\ ~NothingToReturn
          /\ \/ MayDetach /\ pc' = "detach" /\ UNCHANGED <<usbFile, lease, rec, released>>
             \/ PriorStateSeen /\ ReleaseDone
             \/ ReleaseFailed /\ UNCHANGED <<usbFile, lease>>
    /\ UNCHANGED <<kind, boots, given, controlVars, dReport, d5, session, authority, relayVars>>
    /\ UNCHANGED <<prior, usb, iface, worker, out, sideFile, replugs>>

\* The detach command may fail with the adapter detached.
Detach ==
    /\ pc = "detach"
    /\ \/ usb' = "detached" /\ iface' = "down" /\ pc' = "returned" /\ UNCHANGED <<rec, released>>
       \/ /\ \/ UNCHANGED <<usb, iface>>
             \/ usb' = "detached" /\ iface' = "down"
          /\ ReleaseFailed
    /\ UNCHANGED <<kind, boots, given, controlVars, dReport, d5, session, authority, relayVars>>
    /\ UNCHANGED <<prior, worker, out, sideFile, usbFile, lease, replugs>>

Returned ==
    /\ pc = "returned"
    /\ \/ PriorStateSeen /\ ReleaseDone
       \/ ReleaseFailed /\ UNCHANGED <<usbFile, lease>>
    /\ UNCHANGED <<kind, boots, given, controlVars, dReport, d5, session, authority, relayVars>>
    /\ UNCHANGED <<prior, usb, iface, worker, out, sideFile, replugs>>

-----------------------------------------------------------------------------
(* The process ends, and a later one recovers.                               *)

Forgotten ==
    /\ ret' = "none" /\ flags' = NoFlags /\ cancel' = FALSE
    /\ intent' = Nothing /\ result' = Nothing /\ lease' = NoLease

\* The worker's pipe closes with the process; what it was sent stays sent.
Dies ==
    /\ pc \notin {"start", "enter", "down"}
    /\ pc' = "down" /\ Forgotten
    /\ UNCHANGED <<kind, rec, boots, given, fileVars, relayVars>>
    /\ UNCHANGED <<prior, usb, iface, worker, out, sideFile, usbFile, replugs>>

\* Coordinator._recover, then the program's own recovery.
Boot ==
    /\ pc = "down" /\ boots < MaxBoots
    /\ kind = "harness" => session
    /\ boots' = boots + 1
    /\ IF Verified \/ rec.phase = "none" THEN UNCHANGED rec
       ELSE rec' = [rec EXCEPT !.phase = "cleaning", !.cleanup = "pending",
                               !.functional = IF @ = "pending" THEN "interrupted" ELSE @]
    /\ pc' = IF kind = "harness" THEN "r_room" ELSE IF Verified THEN "r_finish" ELSE "r_identify"
    /\ UNCHANGED <<kind, given, controlVars, fileVars, relayVars, hostVars>>

AfterRoom == IF Verified \/ rec.phase = "none" THEN "r_finish" ELSE "r_identify"

\* _resume_session_room: without an answer of the relay only the machine is recovered.
ResumeRoom ==
    /\ Body("r_room")
    /\ \/ flags' = [flags EXCEPT !.established = TRUE] /\ pc' = "r_intent"
       \/ UNCHANGED flags /\ pc' = AfterRoom
    /\ UNCHANGED <<rec, intent, result>> /\ KeepHost /\ KeepRelay

\* The authority is told first; a refused D1 ends the process.
RecoverIntent ==
    /\ Body("r_intent")
    /\ IF att.phase = "active" /\ rec.attempt
       THEN \/ att' = Closing("failed", "interrupted") /\ pc' = AfterRoom
            \/ att' \in {att, Closing("failed", "interrupted")} /\ pc' = "done"
       ELSE UNCHANGED att /\ pc' = AfterRoom
    /\ UNCHANGED <<rec, flags, intent, result, room, session, authority>> /\ KeepHost

\* The process the record names, or the one the side report names.
KnownProcess == rec.wrapper \/ sideFile
KnownNetdev == rec.phy \/ (~rec.wrapper /\ sideFile)

RecoverProcess ==
    /\ pc = "r_identify"
    /\ ret' = "recover"
    /\ \/ ~KnownProcess /\ pc' = "r_radio" /\ UNCHANGED worker
       \/ /\ KnownProcess
          /\ \/ worker' = (IF Alive THEN "exited" ELSE worker) /\ pc' = "r_radio"
             \/ UNCHANGED worker /\ pc' = "r_failed"
    /\ UNCHANGED <<kind, rec, boots, given, cancel, flags, intent, result, dReport, d5, released>>
    /\ UNCHANGED <<prior, usb, iface, out, sideFile, usbFile, lease, replugs>> /\ KeepRelay

RecoverRadio ==
    /\ Body("r_radio")
    /\ \/ iface' = Quiesced(KnownNetdev)
          /\ pc' = IF kind # "direct" /\ rec.wrapper THEN "r_verify" ELSE "r_usb"
       \/ KnownNetdev /\ UNCHANGED iface /\ pc' = "r_failed"
    /\ UNCHANGED <<rec, flags, intent, result, prior, usb, worker, out, sideFile, usbFile, lease, replugs>>
    /\ KeepRelay

\* A wrapper on record without its radio makes recover read a report it never
\* loaded: the exception is not one it handles, and the recovery just ends.
RecoverVerify ==
    /\ Body("r_verify")
    /\ \/ sideFile /\ ~rec.phy /\ pc' = "done"
       \/ /\ ~(sideFile /\ ~rec.phy)
          /\ \/ D8D9(iface) /\ pc' = "r_usb"
             \/ pc' = "r_failed"
    /\ UNCHANGED <<rec, flags, intent, result>> /\ KeepHost /\ KeepRelay

(* Mutant: a run whose record shows no worker is taken to hold no adapter.    *)
MutantFileIsEvidence ==
    /\ Body("r_usb")
    /\ \/ rec.wrapper /\ usbFile.exists /\ lease' = LeaseFromRecovery /\ pc' = "release"
       \/ /\ ~(rec.wrapper /\ usbFile.exists) /\ UNCHANGED lease
          /\ pc' = IF rec.usbSeen \/ ~rec.wrapper THEN "r_done" ELSE "r_failed"
    /\ UNCHANGED <<rec, flags, intent, result>> /\ KeepRelay
    /\ UNCHANGED <<prior, usb, iface, worker, out, sideFile, usbFile, replugs>>

RecoverUsb ==
    /\ Body("r_usb")
    /\ \/ usbFile.exists /\ lease' = LeaseFromRecovery /\ pc' = "release"
       \/ /\ ~usbFile.exists /\ UNCHANGED lease
          /\ pc' = IF rec.usbSeen \/ ~rec.wrapper THEN "r_done" ELSE "r_failed"
    /\ UNCHANGED <<rec, flags, intent, result>> /\ KeepRelay
    /\ UNCHANGED <<prior, usb, iface, worker, out, sideFile, usbFile, replugs>>

RecoverCompletes ==
    /\ \/ /\ Body("r_done")
          /\ rec' = [rec EXCEPT !.phase = "terminal", !.cleanup = "verified", !.usbSeen = TRUE]
          /\ pc' = "r_finish"
       \/ /\ Body("r_failed")
          /\ rec' = [rec EXCEPT !.phase = "terminal", !.cleanup = "failed", !.usbSeen = FALSE]
          /\ pc' = "done"
    /\ UNCHANGED <<flags, intent, result>> /\ KeepHost /\ KeepRelay

\* The harness waits for the barrier before it closes or leaves the room.
HarnessFinishes ==
    /\ kind = "harness"
    /\ \/ flags.established /\ LetGo /\ session' = FALSE
       \/ room' \in {room, "out"} /\ UNCHANGED session
    /\ UNCHANGED authority

\* release_authority: the service asks at once and may be refused.
ServiceFinishes ==
    /\ kind = "production"
    /\ \/ ~authority /\ UNCHANGED <<room, authority>>
       \/ authority /\ LetGo /\ authority' = FALSE
       \/ authority /\ room' \in {room, "out"} /\ UNCHANGED authority
    /\ UNCHANGED session

\* Only behind a verified cleanup is the room closed or left.
RecoverFinish ==
    /\ Body("r_finish") /\ pc' = "done"
    /\ \/ kind = "direct" /\ UNCHANGED <<room, session, authority>>
       \/ HarnessFinishes \/ ServiceFinishes
    /\ UNCHANGED <<rec, flags, intent, result, att>> /\ KeepHost

Executor ==
    \/ EnterSession \/ ConfirmPairing \/ Start \/ PassiveCheck \/ EnterRoom \/ SaveCredential \/ Pair \/ Bind
    \/ CreateLease \/ WriteIntent \/ Attach \/ Enumerated \/ Spawn \/ AwaitReady
    \/ AcquireWrapper \/ MarkP0Ready \/ SendReady \/ LockAttempt \/ Launch
    \/ AcknowledgeEndpoint \/ DirectStage \/ Drive \/ DriveError \/ SendIntent \/ AwaitDone
    \/ CloseRun \/ Stop \/ Unclean \/ AbortCheck \/ AbortRoom \/ Forget

Closes ==
    \/ BeginCleanupD1 \/ MeasureD5 \/ AcknowledgeD5 \/ AwaitBarrier \/ CheckBarrier
    \/ ProbeRelease \/ CompleteD11 \/ ReportD11 \/ FinalizeRoom
    \/ Release \/ Detach \/ Returned

Recovers ==
    \/ Boot \/ ResumeRoom \/ RecoverIntent \/ RecoverProcess \/ RecoverRadio \/ RecoverVerify
    \/ RecoverUsb \/ RecoverCompletes \/ RecoverFinish

Next == Environment \/ UserCancels \/ Executor \/ Closes \/ Recovers \/ Dies

Spec == Init /\ [][Next]_vars
-----------------------------------------------------------------------------
(* Properties.                                                               *)

ConnTypeOK ==
    /\ HostTypeOK
    /\ rec.functional \in {"pending", "passed", "failed", "canceled", "interrupted"}
    /\ rec.phase \in {"none", "preflight", "running", "closing", "cleaning", "terminal"}
    /\ rec.cleanup \in {"pending", "verified", "failed"}
    /\ att.phase \in {"none", "active", "closing", "terminal"}
    /\ att.mine \in {"none", "clean", "dirty"} /\ d5 \in {"none", "clean", "dirty"}
    /\ room \in {"none", "in", "ready", "out"}
    /\ boots \in 0..MaxBoots

\* When a record becomes verified, by the run's own cleanup, by D11 or by a recovery
\* after any number of crashes, no endpoint of the run is alive, the recovery file is
\* gone, and the adapter is as it was before the run unless somebody unplugged it.  Its
\* radio is quiet too, except after the recovery of a run whose worker was not on record:
\* one that is still starting up is invisible to recover (complete_cleanup in _run,
\* LocalDRelease.release and recover).
VerifiedMeansReturned ==
    [][~Verified /\ Verified' =>
          /\ worker \notin {"launched", "endpoint", "failing"}
          /\ ~usbFile.exists
          /\ replugs = 0 => (usb = "attached" <=> prior)
          /\ rec.wrapper \/ ret # "recover" => iface = "down" \/ usb = "detached"]_vars

\* The run never detaches an adapter that was attached before it, nor one whose radio
\* is still up, also when the process that detaches is not the one that attached
\* (UsbLease.release, from_recovery).
DetachIsOwned ==
    [][pc = "detach" /\ usb = "attached" /\ usb' = "detached" /\ pc' # pc =>
          ~prior /\ (rec.wrapper \/ ret # "recover" => iface = "down")]_vars

\* A run that records "passed" ended an attempt whose one outcome at the authority is
\* "completed", whoever's intent came first and whichever answers were lost (_begin_d).
PassedMeansCompleted ==
    rec.functional = "passed" /\ kind # "direct" => att.of.outcome = "completed"

\* A clean acknowledgement at the relay means that this side's endpoint is gone and its
\* radio quiet, and stays so (MeasuredD5Control._prepare).
CleanAckMeansQuiet ==
    att.mine = "clean" => ~Alive /\ iface = "down"

\* The last copy of the room's credential is deleted only when the relay has let this
\* member go, through lost answers and crashes (abort, finalize_abort, _room_finalize,
\* release_authority).
CredentialKeptWhileMember ==
    [][(session \/ authority) /\ ~(session' \/ authority') => room' = "out"]_vars

\* The harness can always be told to recover a run whose cleanup is not verified: its
\* session file is there, which the recover command needs (main, _strict_session).
RecoverableSession ==
    kind = "harness" /\ rec.phase # "none" /\ ~Verified => session

\* The record never claims more than the attempt's outcome, and never loses the way back
\* for its operator (_begin_d, main).
RecordIsConsistent == ConnTypeOK /\ PassedMeansCompleted /\ RecoverableSession

\* The adapter ends as it began, and only what was the run's is taken (UsbLease, recover).
AdapterIsReturned == VerifiedMeansReturned /\ DetachIsOwned

\* A recovery that was not interrupted leaves a verdict in the record
\* (recover: "Finish one interrupted P0 cleanup before allowing another explicit run").
\* The code does not meet it: README, section 3; RecoveryVerdict.cfg shows how.
RecoveryGivesVerdict ==
    pc = "done" /\ ret = "recover" => rec.phase = "terminal"
=============================================================================
