-------------------------- MODULE ControlDiagnostics --------------------------
(***************************************************************************)
(* The production diagnostic of the control service: DiagnosticRun,           *)
(* ProductionDiagnostics and DiagnosticD7Resources of                          *)
(* src/switchtrade/production_diagnostics.py, the worker of                     *)
(* src/switchtrade/control.py (run_production_diagnostic) and the recovery of    *)
(* a run that a dead process left (recover_incomplete_diagnostic), over           *)
(* ControlLaunch (endpoint process) and ControlHardware (adapter).                 *)
(*                                                                         *)
(* One worker runs the diagnostic; the other threads serve the requests that       *)
(* nothing keeps away from it: cancel, continue, stop of the session, the adapter    *)
(* check, shutdown.  Round 1 of a run is an automated check (hardware gate, private   *)
(* room, endpoint), round 2 one the user starts with Continue; a test is round 1,      *)
(* round 2 or both.  A room or credential file is "unnamed" until the recovery file      *)
(* has it.                                                                               *)
(***************************************************************************)
EXTENDS ControlLaunch

CONSTANTS
    Worker,         \* the diagnostic worker, and recovery at start-up
    MaxRuns,        \* how many diagnostics are started
    MaxRequests,    \* ... and other requests made
    MaxFaults       \* how often the adapter is pulled, the relay gives the room up or
                    \* the process dies

Rounds == 1..2

\* A round is launched under its own number.
ASSUME DiagnosticAssumption == Worker \in Threads /\ Rounds \subseteq Keys

VARIABLES
    run,            \* the active run, or the recovery at start-up
    recovery,       \* active-recovery.json
    incomplete,     \* cleanup_incomplete
    d7,             \* what DiagnosticD7Resources holds in memory
    relayRoom,      \* the private room at the relay
    credential,     \* the member token file on disk
    at,             \* where each request thread is
    leftover,       \* a request has told that it could not return the adapter
    orphan,         \* a dead process left an endpoint that had not registered
    serving,        \* the control process is past its start-up
    runs, served, faults    \* the counters of the bounds

Disk == <<recovery, relayRoom, credential>>
Diagnostic == <<run, incomplete, d7, Disk>>
Life == <<serving, runs, served, faults>>

vars == <<hardwareVars, launchVars, Diagnostic, at, leftover, orphan, Life>>

Requesters == Threads \ {Worker}

NoRun == [place |-> "none", mode |-> "round", round |-> 1, canceled |-> FALSE,
          continued |-> FALSE, failed |-> FALSE, clean |-> TRUE, acquired |-> FALSE]
NoRecovery == [exists |-> FALSE, adapter |-> FALSE, room |-> FALSE, token |-> FALSE]
NoD7 == [peer |-> FALSE, room |-> FALSE, credential |-> FALSE]

DiagnosticTypeOK ==
    /\ HardwareTypeOK /\ LaunchTypeOK
    /\ run.round \in Rounds /\ run.mode \in {"round", "final", "recover"}
    /\ recovery \in [exists : BOOLEAN, adapter : BOOLEAN, room : BOOLEAN, token : BOOLEAN]
    /\ d7 \in [peer : BOOLEAN, room : BOOLEAN, credential : BOOLEAN]
    /\ {relayRoom, credential} \subseteq {"none", "unnamed", "named"}
    /\ {incomplete, leftover, orphan, serving} \subseteq BOOLEAN

Init ==
    /\ HardwareInit /\ LaunchInit
    /\ run = NoRun /\ recovery = NoRecovery /\ incomplete = FALSE /\ d7 = NoD7
    /\ relayRoom = "none" /\ credential = "none"
    /\ at = [t \in Requesters |-> "idle"] /\ leftover = FALSE /\ orphan = FALSE
    /\ serving = TRUE /\ runs = 0 /\ served = 0 /\ faults = 0

-----------------------------------------------------------------------------
At(p) == run.place = p
Go(p) == run' = [run EXCEPT !.place = p]
Fails(p) == run' = [run EXCEPT !.place = p, !.failed = TRUE]

Active == ~At("none") /\ run.mode # "recover"

\* The steps of the worker that touch neither endpoint nor adapter.
Aside == UNCHANGED <<hardwareVars, launchVars, at, leftover, orphan, Life>>

\* update_recovery
Recovers(f) == recovery' = f

\* ... that call a routine of the adapter, or of the endpoint.
CallsHardware(r) == Calls(Worker, r) /\ UNCHANGED <<launchVars, at, leftover, orphan, Life>>

\* What a round starts with: its hardware gate, or the user's Continue.
Opening(r) == IF r = 1 THEN "gate" ELSE "await"

\* start: one run at a time, none after a cleanup that was not proved.
Begins ==
    /\ At("none") /\ ~incomplete
    /\ \E first \in Rounds : run' = [NoRun EXCEPT !.place = "preflight", !.round = first]
    /\ Recovers([NoRecovery EXCEPT !.exists = TRUE])

\* The route, behind validate_diagnostic_start.
StartDiagnostic ==
    /\ serving /\ ~Running /\ Begins
    /\ runs < MaxRuns /\ runs' = runs + 1
    /\ Adopts
    /\ UNCHANGED <<hardwareVars, locks, call, Files, popen, Processes, incomplete, d7,
                   relayRoom, credential, at, leftover, orphan, serving, served, faults>>

\* diagnostic_preflight, then DiagnosticResources records the selected adapter; a run that
\* fails before has nothing to clean up.
Preflight ==
    /\ At("preflight")
    /\ \/ ~Running /\ Go(Opening(run.round)) /\ Recovers([recovery EXCEPT !.adapter = TRUE])
       \/ run' = [run EXCEPT !.place = "verdict", !.mode = "final", !.failed = TRUE]
          /\ UNCHANGED recovery
    /\ Aside /\ UNCHANGED <<incomplete, d7, relayRoom, credential>>

Finally == IF At("gate") \/ At("gating") THEN "final" ELSE "stage"

\* ensure_hardware: the adapter is attached once, and has to be there for every round.
EnsureHardware ==
    /\ At("gate") \/ At("ensure")
    /\ IF run.acquired
       THEN /\ IF owned /\ attached THEN Go(IF At("gate") THEN "check" ELSE "create")
               ELSE Fails(Finally)
            /\ UNCHANGED <<hardwareVars, launchVars, at, leftover, orphan, Life>>
       ELSE Go(IF At("gate") THEN "gating" ELSE "ensuring") /\ CallsHardware("attachOnly")
    /\ UNCHANGED <<Disk, incomplete, d7>>

\* A failed attach may have left the adapter in the run's hands all the same.
Attached ==
    /\ At("gating") \/ At("ensuring")
    /\ \/ /\ step[Worker] = "ok" /\ owned
          /\ run' = [run EXCEPT !.acquired = TRUE,
                                !.place = IF At("gating") THEN "check" ELSE "create"]
       \/ /\ step[Worker] = "failed" \/ (step[Worker] = "ok" /\ ~owned)
          /\ run' = [run EXCEPT !.acquired = owned, !.place = Finally, !.failed = TRUE]
    /\ Forgets(Worker)
    /\ UNCHANGED <<launchVars, at, leftover, orphan, Life, Disk, incomplete, d7>>

\* diagnostic_hardware_gate
HardwareGate ==
    /\ At("check")
    /\ Go("entry") \/ Fails("final")
    /\ Aside /\ UNCHANGED <<Disk, incomplete, d7>>

(* Mutant: the prompt waits for the user without a deadline. *)
MutantAwaitContinue ==
    /\ At("await")
    /\ \/ run.continued /\ run' = [run EXCEPT !.place = "entry", !.continued = FALSE]
       \/ ~run.continued /\ run.canceled /\ Fails("final")
    /\ Aside /\ UNCHANGED <<Disk, incomplete, d7>>

\* await_continue
AwaitContinue ==
    /\ At("await")
    /\ \/ run.continued /\ run' = [run EXCEPT !.place = "entry", !.continued = FALSE]
       \/ ~run.continued /\ Fails("final")
    /\ Aside /\ UNCHANGED <<Disk, incomplete, d7>>

-----------------------------------------------------------------------------
(* run_diagnostic_endpoint: from here on a failure goes through cleanup_stage.  *)

Entry ==
    /\ At("entry")
    /\ IF run.canceled THEN Fails("stage") ELSE Go("ensure")
    /\ Aside /\ UNCHANGED <<Disk, incomplete, d7>>

\* diagnostic_room_pair: the relay may have made the room although the call failed.
CreateRoom ==
    /\ At("create")
    /\ \/ Go("register") /\ relayRoom' = "unnamed"
       \/ Fails("stage") /\ relayRoom' \in {relayRoom, "unnamed"}
    /\ Aside /\ UNCHANGED <<recovery, credential, incomplete, d7>>

\* register_room: in memory first, then in the recovery file.
Registers ==
    /\ d7' = [d7 EXCEPT !.room = TRUE]
    /\ Recovers([recovery EXCEPT !.room = TRUE])
    /\ relayRoom' = IF relayRoom = "none" THEN "none" ELSE "named"

RegisterRoom ==
    /\ At("register") /\ Go("join")
    /\ Registers
    /\ Aside /\ UNCHANGED <<credential, incomplete>>

\* The second seat joins, both are ready, the attempt opens; the synthetic peer connects.
\* SyntheticDiagnosticPeer, registered before it starts.
Peers == d7' = [d7 EXCEPT !.peer = TRUE]

JoinRoom ==
    /\ At("join")
    /\ \/ Fails("stage") /\ (Peers \/ UNCHANGED d7)
       \/ Go("token") /\ Peers
    /\ Aside /\ UNCHANGED <<Disk, incomplete>>

WriteToken ==
    /\ At("token") /\ Go("name") /\ credential' = "unnamed"
    /\ Aside /\ UNCHANGED <<recovery, relayRoom, incomplete, d7>>

RegisterCredential ==
    /\ At("name") /\ Go("begin")
    /\ d7' = [d7 EXCEPT !.credential = TRUE]
    /\ Recovers([recovery EXCEPT !.token = TRUE]) /\ credential' = "named"
    /\ Aside /\ UNCHANGED <<relayRoom, incomplete>>

\* A cancel that comes before the launch has read its generation does not reach it.
BeginLaunch ==
    /\ At("begin") /\ Go("launch")
    /\ call' = [call EXCEPT ![Worker] = [NoCall EXCEPT !.phase = "enter", !.generation = "current"]]
    /\ UNCHANGED <<hardwareVars, locks, Files, Memory, Processes, at, leftover, orphan, Life,
                   Disk, incomplete, d7>>

LaunchDiagnostic ==
    /\ At("launch") /\ LaunchStep(Worker, run.round, TRUE, TRUE)
    /\ UNCHANGED <<Diagnostic, at, leftover, orphan, Life>>

Launched ==
    /\ At("launch")
    /\ \/ In(Worker, "started") /\ Go("watch")
       \/ In(Worker, "refused") /\ Fails("stage")
    /\ Aside /\ UNCHANGED <<Disk, incomplete, d7>>

\* wait_for_diagnostic_endpoint: the checkpoint of this launch, or a failure: canceled,
\* another endpoint's report, an endpoint that failed or left, the deadline.
Watch ==
    /\ At("watch")
    /\ \/ /\ ~run.canceled /\ file.state = "passed" /\ file.launch = call[Worker].launch
          /\ Go("stage")
       \/ Fails("stage")
    /\ Aside /\ UNCHANGED <<Disk, incomplete, d7>>

-----------------------------------------------------------------------------
(* cleanup_stage, at the end of every round, of the run, and of recovery.        *)

Stage ==
    /\ At("stage") /\ Go("stopping")
    /\ call' = [call EXCEPT ![Worker].phase = "cancel"]
    /\ UNCHANGED <<hardwareVars, locks, Files, Memory, Processes, at, leftover, orphan, Life,
                   Disk, incomplete, d7>>

StopsEndpoint ==
    /\ At("stopping") /\ StopStep(Worker)
    /\ UNCHANGED <<Diagnostic, at, leftover, orphan, Life>>

\* clear_session_state; recovery gives up when the endpoint cannot be stopped.
EndpointStopped ==
    /\ At("stopping")
    /\ \/ /\ In(Worker, "stopped") /\ Free("state")
          /\ file' = NoFile /\ ack' = 0 /\ session' = FALSE /\ Go("peer")
       \/ /\ In(Worker, "unstopped")
          /\ run' = [run EXCEPT !.place = IF run.mode = "recover" THEN "verdict" ELSE "peer",
                                !.clean = FALSE]
          /\ UNCHANGED <<Files, session>>
    /\ UNCHANGED <<hardwareVars, locks, call, popen, Processes, at, leftover, orphan, Life,
                   Disk, incomplete, d7>>

\* DiagnosticD7Resources.cleanup: peer, room and credential, each kept for the next
\* cleanup when it fails.
StopPeer ==
    /\ At("peer") /\ Go("room")
    /\ d7' \in {d7, [d7 EXCEPT !.peer = FALSE]}
    /\ Aside /\ UNCHANGED <<Disk, incomplete>>

(* Mutant: the recovery file forgets the room before the relay has closed it. *)
MutantCloseRoom ==
    /\ At("room")
    /\ \/ d7.room /\ Go("room closed") /\ UNCHANGED relayRoom
          /\ Recovers([recovery EXCEPT !.room = FALSE])
       \/ Go("credential") /\ UNCHANGED <<relayRoom, recovery>>
    /\ Aside /\ UNCHANGED <<credential, incomplete, d7>>

\* close_diagnostic_room; a room that is gone already is closed.
CloseRoom ==
    /\ At("room")
    /\ \/ d7.room /\ relayRoom' = "none" /\ Go("room closed")
       \/ relayRoom' \in {relayRoom, IF d7.room THEN "none" ELSE relayRoom} /\ Go("credential")
    /\ Aside /\ UNCHANGED <<recovery, credential, incomplete, d7>>

RoomClosed ==
    /\ At("room closed") /\ Go("credential")
    /\ d7' = [d7 EXCEPT !.room = FALSE]
    /\ Recovers([recovery EXCEPT !.room = FALSE])
    /\ Aside /\ UNCHANGED <<relayRoom, credential, incomplete>>

DeleteCredential ==
    /\ At("credential")
    /\ \/ d7.credential /\ credential' = "none" /\ Go("credential deleted")
       \/ UNCHANGED credential /\ Go("cleaned")
    /\ Aside /\ UNCHANGED <<recovery, relayRoom, incomplete, d7>>

CredentialDeleted ==
    /\ At("credential deleted") /\ Go("cleaned")
    /\ d7' = [d7 EXCEPT !.credential = FALSE]
    /\ Recovers([recovery EXCEPT !.token = FALSE])
    /\ Aside /\ UNCHANGED <<relayRoom, credential, incomplete>>

Cleaned == run.clean /\ d7 = NoD7

(* Mutant: one round too many. *)
MutantNextRound ==
    /\ At("cleaned") /\ run.mode = "round"
    /\ \/ /\ Cleaned /\ ~run.failed /\ run.round \in Rounds
          /\ run' = [run EXCEPT !.round = @ + 1, !.place = Opening(run.round + 1)]
       \/ run' = [run EXCEPT !.place = "final", !.failed = @ \/ ~Cleaned]
    /\ Aside /\ UNCHANGED <<Disk, incomplete, d7>>

\* The test has a further round, or the run ends here.
NextRound ==
    /\ At("cleaned") /\ run.mode = "round"
    /\ \/ /\ Cleaned /\ ~run.failed /\ run.round + 1 \in Rounds
          /\ run' = [run EXCEPT !.round = @ + 1, !.place = Opening(run.round + 1)]
       \/ run' = [run EXCEPT !.place = "final", !.failed = @ \/ ~Cleaned]
    /\ Aside /\ UNCHANGED <<Disk, incomplete, d7>>

-----------------------------------------------------------------------------
(* The end of a run: begin_cleanup, final_cleanup, finish, and execute's finally.  *)

BeginCleanup ==
    /\ At("final") /\ run' = [run EXCEPT !.place = "stage", !.mode = "final", !.clean = TRUE]
    /\ Aside /\ UNCHANGED <<Disk, incomplete, d7>>

\* The adapter is released if the run has it, or the file says that this program has.
ReleaseAtEnd ==
    /\ At("cleaned") /\ run.mode = "final"
    /\ IF run.acquired \/ owned
       THEN /\ run' = [run EXCEPT !.place = "releasing", !.clean = Cleaned]
            /\ CallsHardware("release")
       ELSE run' = [run EXCEPT !.place = "verdict", !.clean = Cleaned] /\ Aside
    /\ UNCHANGED <<Disk, incomplete, d7>>

(* Mutant: a release that failed does not count against the cleanup. *)
MutantReleasedAtEnd ==
    /\ At("releasing") /\ step[Worker] \in {"ok", "failed"}
    /\ Go("verdict") /\ Forgets(Worker)
    /\ UNCHANGED <<launchVars, at, leftover, orphan, Life, Disk, incomplete, d7>>

ReleasedAtEnd ==
    /\ At("releasing") /\ step[Worker] \in {"ok", "failed"}
    /\ run' = [run EXCEPT !.place = "verdict", !.clean = @ /\ step[Worker] = "ok"]
    /\ Forgets(Worker)
    /\ UNCHANGED <<launchVars, at, leftover, orphan, Life, Disk, incomplete, d7>>

\* A clean run takes its recovery file with it; any other keeps diagnostics shut until a
\* restart has recovered it.
Completes == run.clean /\ Recovers(NoRecovery) /\ incomplete' = FALSE
Unresolved == ~run.clean /\ Recovers(recovery) /\ incomplete' = TRUE

Verdict ==
    /\ At("verdict")
    /\ run' = NoRun /\ d7' = NoD7
    /\ Completes \/ Unresolved
    /\ serving' = TRUE
    /\ UNCHANGED <<hardwareVars, launchVars, relayRoom, credential, at, leftover, orphan,
                   runs, served, faults>>

-----------------------------------------------------------------------------
(* Start-up: recover_incomplete_diagnostic, or the release of a recorded adapter. *)

StartUp ==
    /\ ~serving /\ At("none") /\ \A t \in Requesters : at[t] = "idle"
    /\ IF recovery.exists
       THEN /\ run' = [NoRun EXCEPT !.place = "stage", !.mode = "recover"]
            /\ d7' = [peer |-> FALSE, room |-> recovery.room, credential |-> recovery.token]
            /\ incomplete' = TRUE
            /\ UNCHANGED <<hardwareVars, at, serving>>
       ELSE /\ UNCHANGED <<run, d7, incomplete>>
            /\ IF owned /\ ~Running
               THEN \E t \in Requesters : /\ at' = [at EXCEPT ![t] = "starting"]
                                          /\ Calls(t, "release") /\ UNCHANGED serving
               ELSE serving' = TRUE /\ UNCHANGED <<at, hardwareVars>>
    /\ UNCHANGED <<launchVars, Disk, leftover, orphan, runs, served, faults>>

\* The adapter the run had selected is taken for its own, attached or not; one it had not
\* come to select is only looked for.
RecoverHardware ==
    /\ At("cleaned") /\ run.mode = "recover"
    /\ UNCHANGED <<attached, ours, hardwareLock>>
    /\ IF Cleaned /\ (owned \/ recovery.adapter)
       THEN /\ owned' = TRUE
            /\ step' = [step EXCEPT ![Worker] = "enter"]
            /\ routine' = [routine EXCEPT ![Worker] = "release"]
            /\ Go("releasing")
       ELSE /\ UNCHANGED <<owned, step, routine>>
            /\ run' \in {[run EXCEPT !.place = "verdict", !.clean = c] : c \in {FALSE, Cleaned /\ ~attached}}
    /\ UNCHANGED <<launchVars, at, leftover, orphan, Life, Disk, incomplete, d7>>

-----------------------------------------------------------------------------
(* The requests.                                                             *)

Receives(t) ==
    /\ serving /\ at[t] = "idle" /\ served < MaxRequests /\ served' = served + 1
    /\ UNCHANGED <<serving, runs, faults>>

Continues(t, p) == at' = [at EXCEPT ![t] = p]

\* Cancel: the run is told, then the launch in flight.
Cancels(t) ==
    /\ Receives(t) /\ Active /\ Continues(t, "cancel")
    /\ run' = [run EXCEPT !.canceled = TRUE]
    /\ UNCHANGED <<hardwareVars, launchVars, incomplete, d7, Disk, leftover, orphan>>

CancelsLaunch(t) ==
    /\ at[t] \in {"cancel", "shutdown"} /\ Free("state")
    /\ Continues(t, IF at[t] = "cancel" THEN "idle" ELSE "waiting")
    /\ call' = Outdated(call)
    /\ UNCHANGED <<hardwareVars, locks, Files, Memory, Processes, Diagnostic, leftover, orphan, Life>>

\* Continue is taken only while the run waits for it; after a cancel it changes nothing,
\* because the round looks for one first.
ContinuesRun(t) ==
    /\ Receives(t) /\ At("await")
    /\ run' = [run EXCEPT !.continued = TRUE]
    /\ UNCHANGED <<hardwareVars, launchVars, at, incomplete, d7, Disk, leftover, orphan>>

\* shutdown_app: a run is cancelled and waited for, within a deadline.
Shutdown(t) ==
    /\ Receives(t)
    /\ run' = [run EXCEPT !.canceled = @ \/ Active]
    /\ Continues(t, IF Active THEN "shutdown" ELSE "waiting")
    /\ UNCHANGED <<hardwareVars, launchVars, incomplete, d7, Disk, leftover, orphan>>

WaitForIdle(t) ==
    /\ at[t] = "waiting"
    /\ \/ ~Active /\ Continues(t, "ending")
       \/ Active /\ Continues(t, "idle")
    /\ UNCHANGED <<hardwareVars, launchVars, Diagnostic, leftover, orphan, Life>>

\* end_local_session, which no diagnostic holds up.
Stops(t) ==
    /\ Receives(t) /\ Continues(t, "ending")
    /\ UNCHANGED <<hardwareVars, launchVars, Diagnostic, leftover, orphan>>

EndSession(t) ==
    /\ at[t] = "ending" /\ Takes(t, "state") /\ Continues(t, "teardown")
    /\ call' = [call EXCEPT ![t].phase = "cancel"]
    /\ UNCHANGED <<hardwareVars, Files, Memory, Processes, Diagnostic, leftover, orphan, Life>>

Teardown(t) ==
    /\ at[t] = "teardown"
    /\ \/ StopStep(t) /\ UNCHANGED at
       \/ /\ In(t, "stopped") /\ file' = NoFile /\ ack' = 0 /\ session' = FALSE
          /\ Calls(t, "release") /\ Continues(t, "returning") /\ Gives(t, {"state"})
          /\ UNCHANGED <<call, popen, Processes>>
       \/ /\ In(t, "unstopped") /\ Continues(t, "idle") /\ Gives(t, {"state"})
          /\ call' = [call EXCEPT ![t] = NoCall]
          /\ UNCHANGED <<hardwareVars, Files, Memory, Processes>>
    /\ UNCHANGED <<Diagnostic, leftover, orphan, Life>>

\* The release has answered; so has the request.
Returned(t) ==
    /\ at[t] \in {"returning", "starting"} /\ Forgets(t) /\ Continues(t, "idle")
    /\ call' = [call EXCEPT ![t] = NoCall]
    /\ serving' = TRUE
    /\ UNCHANGED <<locks, Files, Memory, Processes, Diagnostic, leftover, orphan, runs, served, faults>>

\* hardware_diagnostics and repair_app: no diagnostic may run when they begin, which
\* is not looked at again.
Checks(t) ==
    /\ Receives(t) /\ ~Active /\ ~Running /\ Continues(t, "borrow")
    /\ UNCHANGED <<hardwareVars, launchVars, Diagnostic, leftover, orphan>>

Borrows(t) ==
    /\ at[t] = "borrow" /\ Calls(t, "attach") /\ Continues(t, "borrowing")
    /\ UNCHANGED <<launchVars, Diagnostic, leftover, orphan, Life>>

Borrowed(t) ==
    /\ at[t] = "borrowing" /\ step[t] \in {"ok", "failed"}
    /\ IF step[t] = "ok" /\ owned
       THEN Calls(t, "release") /\ Continues(t, "returning")
       ELSE Forgets(t) /\ Continues(t, "idle")
    /\ UNCHANGED <<launchVars, Diagnostic, leftover, orphan, Life>>

-----------------------------------------------------------------------------
(* The environment.                                                          *)

Hardware(t) ==
    /\ HardwareStep(t)
    /\ leftover' = (owned' /\ (leftover \/ (t # Worker /\ step'[t] = "failed")))
    /\ UNCHANGED <<launchVars, Diagnostic, at, orphan, Life>>

Endpoint ==
    /\ EndpointStep({"passed", "failed"}, credential # "none")
    /\ UNCHANGED <<Diagnostic, at, leftover, orphan, Life>>

\* The relay closes a room whose members stay away.
RoomExpires ==
    /\ faults < MaxFaults /\ faults' = faults + 1
    /\ relayRoom # "none" /\ relayRoom' = "none"
    /\ UNCHANGED <<hardwareVars, launchVars, run, incomplete, d7, recovery, credential, at,
                   leftover, orphan, serving, runs, served>>

Unplugged ==
    /\ faults < MaxFaults /\ faults' = faults + 1
    /\ attached /\ Unplug
    /\ UNCHANGED <<launchVars, Diagnostic, at, leftover, orphan, serving, runs, served>>

Crash ==
    /\ faults < MaxFaults /\ faults' = faults + 1 /\ serving' = FALSE
    /\ LaunchCrash
    /\ run' = NoRun /\ d7' = NoD7 /\ incomplete' = FALSE
    /\ at' = [t \in Requesters |-> "idle"]
    /\ orphan' = (orphan \/ \E n \in Launches : process[n] \in {"gate", "gated"})
    /\ UNCHANGED <<Disk, leftover, runs, served>>

-----------------------------------------------------------------------------
WorkerStep ==
    \/ Preflight \/ EnsureHardware \/ Attached \/ HardwareGate \/ AwaitContinue
    \/ Entry \/ CreateRoom \/ RegisterRoom \/ JoinRoom \/ WriteToken \/ RegisterCredential
    \/ BeginLaunch \/ LaunchDiagnostic \/ Launched \/ Watch
    \/ Stage \/ StopsEndpoint \/ EndpointStopped \/ StopPeer \/ CloseRoom \/ RoomClosed
    \/ DeleteCredential \/ CredentialDeleted \/ NextRound
    \/ BeginCleanup \/ ReleaseAtEnd \/ ReleasedAtEnd \/ RecoverHardware \/ Verdict
    \/ Hardware(Worker)

Request(t) ==
    Cancels(t) \/ ContinuesRun(t) \/ Shutdown(t) \/ Stops(t) \/ Checks(t)

RequestStep(t) ==
    \/ CancelsLaunch(t) \/ WaitForIdle(t) \/ EndSession(t) \/ Teardown(t) \/ Returned(t)
    \/ Borrows(t) \/ Borrowed(t) \/ Hardware(t)

Next ==
    \/ StartDiagnostic \/ WorkerStep \/ StartUp
    \/ \E t \in Requesters : Request(t) \/ RequestStep(t)
    \/ Endpoint \/ RoomExpires \/ Unplugged \/ Crash

AtRest == serving /\ At("none") /\ \A t \in Requesters : at[t] = "idle"

\* Nothing is under way, or the prompt waits for its user.
Settled == AtRest \/ At("await")

Idle == Settled /\ UNCHANGED vars

Spec == Init /\ [][Next \/ Idle]_vars

\* Every thread runs on: commands, relay calls and waits all end by a time-out.
FairSpec ==
    /\ Spec /\ WF_vars(WorkerStep) /\ WF_vars(StartUp)
    /\ \A t \in Requesters : WF_vars(RequestStep(t))

-----------------------------------------------------------------------------
(* A private room that is open and a credential file that is on disk stay named by  *)
(* the recovery file as long as they are, once they were registered: through every    *)
(* failed cleanup, every end of a run and every crash (register_room, cleanup,         *)
(* execute's finally, complete_recovery).                                              *)
RecoveryNamesLeftovers ==
    /\ relayRoom = "named" => recovery.room
    /\ credential = "named" => recovery.token

(* When no diagnostic is under way and none is held back as unclean, nothing of one is  *)
(* left: no endpoint runs, and the adapter is back with Windows, unless a request        *)
(* answered that it could not return it; whatever stop, check or crash came between       *)
(* (final_cleanup, recover_incomplete_diagnostic).  An endpoint orphaned before it had      *)
(* registered is named by nothing, and such a run is excluded.                              *)
DiagnosticLeavesNothing ==
    AtRest /\ ~incomplete /\ ~orphan =>
        /\ \A n \in Launches : ~Up(n)
        /\ owned => leftover

(* What a diagnostic took is named until it is gone, and gone when it is not named  *)
(* (DiagnosticD7Resources, DiagnosticResources).                                     *)
DiagnosticIsConsistent == DiagnosticTypeOK /\ RecoveryNamesLeftovers /\ DiagnosticLeavesNothing

(* A diagnostic comes to its end, and so does the recovery of one: whatever the user      *)
(* does at its prompt, and whatever endpoint, relay or adapter fail to do                   *)
(* (await_continue, ENDPOINT_STARTUP_TIMEOUT_SECONDS, wait_for_diagnostic_endpoint).         *)
DiagnosticEnds == ~At("none") ~> At("none")
=============================================================================
