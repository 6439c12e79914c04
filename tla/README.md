# SwitchTrade in TLA+

SwitchTrade lets two people trade between two game consoles that are not in the
same room.  Each has a PC with a USB radio (owned by a Linux worker in WSL); the
two PCs are joined by a relay on the Internet.  One connection runs through
stages: **P0** preflight, **C0** room and attempt at the relay, **A** or **B**
(join the console's room, or host it), **C1** exchange of the advertisement,
**C2** the bridge that carries RFU frames, and **D**, a verified clean-up of both
sides.  This directory models the parts of that system that decide things
together: the relay with its rooms, admission and transport; on a PC the endpoint's
tunnel client, radio stages and link simulation; and the control processes around
them: the run with its record, its borrowed adapter and its recovery, the service
that serializes the user's commands, and the older control service with its
diagnostics.

## 1. Inventory

| Part (source) | State | Operations | Hard part | What makes it correct |
| --- | --- | --- | --- | --- |
| Room authority (`relay/authority.py`) | room document, members, attempt, D record, credential rows | create, join, ready, phase, leave, remove, close, heartbeat, reconnect, D closing / acknowledgement, sweeps, restart | two members, deadlines and restarts race to change one document | seats exclusive, credentials agree with presence, one outcome per attempt, verified clean-up only on two clean reports |
| v2 admission (`relay/server.py`) | proofs and launches in memory | ready v2, connect, D routes, disconnects | memory and store are committed separately; awaits in the middle of handlers | no attempt and no socket without two proofs |
| v2 transport (`relay/server.py`, `rfu_tunnel_v2.py`) | two seats, generations, gates, retained frames, readiness, expiry tasks | accept, process a frame, reset, replay, expire | frames wait for the lock across resets; deadlines outlive connections | readiness of the current epoch, a deadline for every lost seat |
| Tunnel client, C1, C2 (`tunnel_client_v2.py`, `c_stage.py`, `c2.py`) | epoch, gate, challenge, queues; bridge state | connect, prove, send, poll, pump | two threads per endpoint, flags read and used later | mutual proof, activation on current readiness only, RFU in order |
| Run coordinator (`connection/coordinator.py`, `process_guard.py`) | run record, record files, pointer file | 14 commands, save, recover | two files per save, crashes, failing writes | one owner of the adapter, durable answers, final history |
| Run executor and D stages (`p0_harness.py`, `distributed_harness.py`, `production_run.py`, `d_*.py`) | place in the run, intent, evidence files, room credential | start, drive, freeze the outcome, D2-D11, recover | a crash between any two steps, answers lost, both sides decide | what is called verified is released; one outcome; a way back |
| P0 and radio worker (`p0.py`, `radio_worker.py`) | USB lease, recovery file, worker process, hand-over | acquire, attach, launch, return | ownership across two operating systems | the adapter is returned as it was found |
| A / B stages (`a_stage.py`, `b_stage.py`, `stage_session.py`, `direct_*_endpoint.py`) | a stack of contexts, gates passed, report | run gates, hold, unwind, quiesce | every gate, every context's exit and the parent may fail or stop it | passed means held; a claimed release has happened |
| Connection service (`service.py`) | record, command queue, run control | start, stop, choose, confirm, retry, recover, close | repeats and forgotten answers; watchdog, run and user race | a command acts once, a run starts on a free machine, a stop ends it |
| Control service (`control.py`, `endpoint.py`) | room credential, endpoint process and its file, adapter ownership | connect, join, leave, close, stop, retry, repair, check, poll, start up | a pool of threads with five locks and calls to the relay in between | a stop is final, no credential goes before its endpoint, the adapter is on record |
| Diagnostics (`production_diagnostics.py`, parts of `control.py`) | the run, its recovery file, the private room | start, round, continue, cancel, finish, recover, shut down | requests run beside it; it may die and be recovered | what it registered is on record until it is gone |
| Link simulator (`bridge/frlgsim`) | Reliable windows, Pia handshake, queues to the bridge | per-frame steps | loss, duplication, reordering, wrapping ids, stale frames | once to the bridge, in order to the Switch, nothing stale |
| v1 relay and tunnel, frame relay, codecs | - | - | - | not modelled (section 6) |
| Desktop (`apps/desktop`) and installer (`installer`) | view state; journal of a setup | commands; plan and execute with rollback | restarts in the middle | not modelled (section 6) |

The parts interact as follows.  The desktop talks HTTP to the connection service or the
control service.  The service runs one executor in a thread; the executor talks
to the relay over HTTP, saves through the coordinator, borrows the adapter through `usbipd`
and starts the worker, which becomes the endpoint under the same process id.  Executor and
endpoint speak over a pipe (events and gates one way, commands the other) and over report files.
The endpoint runs the A or B stage in a thread, the tunnel client in another, and pumps frames between
the link simulation and the bridge.  The two endpoints meet only at the relay.

`PROJECT.json` names every part with its sources, and lists under *hazards* what is
hard to test in them, at its line.

## 2. Modules

```
relay        RoomAuthority -> RelayAdmission
             SequenceGate -> RelayTunnel -> TunnelSession
             (RelayAdmission, TunnelSession) -> RelayProofs
run          Coordinator -> CoordinatorProofs
             RadioHost -> ConnectionRun -> ConnectionRunProofs
             ConnectionService -> ConnectionServiceProofs
endpoint     DirectStage -> DirectStageProofs     (PiaConnection, ReliableLink) -> TunnelLink
                                                  TunnelLink -> TunnelLinkProofs:
                                                  it implements FrameChannel, twice
control      ControlHardware -> ControlLaunch -> ControlRuntime -> ControlRuntimeProofs
                                             \-> ControlDiagnostics -> ControlDiagnosticsProofs
                                                  (-> is EXTENDS)
```

Each module that is checked has an `MC...` module for its instances, and configurations that
name the question they ask.

* **RoomAuthority.** One room of `AuthorityStore`.  Every operation is one SQLite
  transaction under one lock, so it is one action; an operation that raises rolls
  back and is no step.  The variables are the fields of the document (`state`, the
  members' `online`, `ready`, `role`; the attempt's `number`, `phase`, `creator`,
  `err`; its D record `intent`, `sides`, `barrier`, `cleanup`) and the credential
  rows (`active`).  A deadline may pass at any time, so the sweeps are actions that
  may happen at any time.
* **RelayAdmission** adds what the relay's v2 routes keep in memory beside the
  store.  A handler runs up to its first `await` without being interrupted, so an
  action is the store's action together with the handler's change to the admission.
  `SlowClose` makes closing a socket take time.
* **SequenceGate** is the pure envelope gate: epoch start, contiguous sequence,
  duplicates and gaps.
* **RelayTunnel** is one attempt's `V2Session` with its two WebSocket handlers.  A
  handler takes a frame and then waits for the session lock (`pending`); what happens
  under the lock is one action.  `AnyEndpointSpec` closes it with endpoints that send
  any kind of correctly numbered frame.
* **TunnelSession** puts the two real endpoints at the ends: the connection thread of
  `TunnelClientV2` and the main thread that runs `CStage` and then pumps `C2Bridge`.
  A pump is split where the other thread can interfere (proof read, SIDE_READY sent,
  inbox polled, frames handled, RFU flushed).
* **Coordinator** is the run record in memory, the record files and the pointer file
  `active-run.json`.  `Persist` changes memory and writes the record, `SavePointer`
  writes or removes the pointer and answers the caller; the process may die in
  between, and each write may fail (`MaxFaults`).  What callers were told is kept in
  `acked`, as long as no write has failed.
* **RadioHost** is the machine a run works on: adapter, interface, worker process, recovery
  file and lease.  A probe shows the state or is unknown, and then the step that asked fails.
* **ConnectionRun** is one run on that machine from its start to its verified end, and its
  recovery by up to `MaxBoots` later processes.  The control process is sequential: `pc` is the
  place between two effects something else can see, and it can die at every one.  The worker, the
  peer, the user and the relay's answers (given, refused, lost, or applied and lost) act in
  between.  `Kinds` are the three programs that drive the same executor.
* **ConnectionService** is the facade: HTTP requests put commands in a queue, one loop applies
  commands and events and saves the record twice (before and after remembering the answer), a
  thread runs the executor, a watchdog looks at heartbeats.  Time is abstracted: ten seconds
  without a heartbeat pass wherever no drive loop with a live endpoint takes them.
* **DirectStage** is the A stage and the B stage as a chain of gates over a stack of contexts,
  with the program around them: `direct` (gates and report go through a pipe to a control
  that counts them) and `distributed` (a stage thread with an owner that keeps it open for C).
* **PiaConnection**, **ReliableLink** and **TunnelLink** are the last hop: the four-stage Pia
  handshake in both roles, the two halves of the Reliable window as functions on their
  state, and the simulation that joins the bridge to a Switch over a radio that loses, doubles and
  reorders.  **FrameChannel** is the abstract specification of one direction; TunnelLink
  instantiates it twice with a refinement mapping, towards the bridge (once each, any
  order: `OnceToBridge`) and towards the Switch (in order: `InOrderToSwitch`).
* **ControlHardware** is the adapter routine of `control.py` under its lock; **ControlLaunch** adds
  starting, watching and stopping the endpoint process; **ControlRuntime** the request handlers,
  each split at the locks it waits for and the calls it makes to the relay;
  **ControlDiagnostics** the diagnostic worker with its requests and its recovery, over the same two.

Data that decides nothing is left out: tokens, versions and events, timestamps,
messages, histories, payload bytes.  Identities that one command binds
together are one slot.  A failure code matters only in whether two parties have the same one.

What the models take for granted about their surroundings: `usbipd` applies one command at a time;
in the control service an endpoint dies with its launcher, one adapter is selected and
stays so, and a user attaches an adapter by hand only before the service starts; a frame on the air, and
an acknowledgement that comes back for one, does not live longer than the receiver remembers its id
(`LifetimeAssumption`).  An acknowledgement older than half the ids would speak of later frames.

## 3. Runs

Every run's properties are named conjunctions of parts that belong to one theme
(`RoomIsConsistent` is `TypeOK /\ SeatsExclusive /\ ...`); the parts are definitions of
their own with their own comments.

| Run | Question | Instance | Distinct states |
| --- | --- | --- | --- |
| `authority` | Is the room consistent under any interleaving, does teardown keep its outcome, do closing attempts and grace periods end? | owner, two successive guests, two attempts, `LiveSpec` | 0.19 M |
| `admission` | Do sockets need two proofs, with restarts and slow closes? Does a closing attempt keep the admission its acknowledgements need? | owner, two guests (symmetric), two attempts | 0.8 M |
| `relay_tunnel` | Is the relay's readiness that of the current epoch, whatever endpoints send, and does an old deadline ever strike? | 3 frames per epoch, 2 losses, replays fail, 2 retained frames | 2.6 M |
| `session` | Is a proof mutual, activation current, RFU in order, when a socket is lost and the inbox overflows? | 1 loss (or failed replay, or overflow), inbox of 2, 2 RFU frames | 2.1 M |
| `session_live` | Does a loss stay transient, and is the data plane proved again? | 1 loss, no frame waiting for the lock at a reset, with fairness | 0.3 M |
| `coordinator` | Can two runs own the adapter, can an identity or outcome change, is what a caller was told what a restart finds? | 2 runs, a direct and an indirect mode, crashes anywhere, 1 failing write | 1.4 M |
| `connection_run` | Is what a record calls verified returned? Is clean evidence measured? Does a credential outlive the membership? | 3 programs, crashes anywhere, 2 recoveries, 1 unplugging | 1.8 M |
| `service` | Does a command act once, does a run start on a free machine, does a stop end it? | 3 commands, 2 runs, a queue of 1, 1 repeat, 1 remembered answer, 1 restart | 0.46 M |
| `stage` | Does passed mean held, released mean exited, quiet mean no interface, and does anything fail by itself? | both roles, both programs, any exit may fail | 0.14 M |
| `link` | Do both streams implement the abstract channel, and does every frame arrive? | 16 ids from 14 on (they wrap), windows of 2, 1 loss, 1 lost proof, up to 4 frames | 59 k |
| `control` | Is a stop final, is an adapter on record, does a lock cycle exist? | 2 threads, 2 requests, 2 launches, 1 fault | 0.6 M |
| `control_diagnostics` | Does a diagnostic end, and what does it leave? | 1 diagnostic, 1 other request, 1 fault | 0.37 M |

Why the bounds are enough.  Two members and two attempts give every pairing of an old
attempt's leftovers with a new one; the third member is the one that takes a
vacated seat.  One lost socket resets both seats, so the second connection of both
sides is reached; two losses are needed for a deadline that outlives a connection.
Three frames per epoch reach the advertisement, the readiness behind it and the retention
limit.  Two runs of the coordinator are needed for ownership.  In its instance every
slot has one value and `close_run` reports one outcome; that other values cannot
replace them is proved for every set of values (`HistoryFinal`).  `c_harness` is the
indirect mode because it may run with or without an adapter, and with one behaves as
the normal mode.  The parts of `RecordsAreDurable` are stated
until a file operation fails, the other properties of that run hold after one too.
Two recoveries include a recovery of an interrupted recovery.  One remembered answer and three
commands make the service forget one that is repeated.  Sixteen sequence ids and streams of
up to four frames from 14 on wrap once, with room for an old copy to meet a reused slot of the
receiver's filter.  Two control threads show every pair of requests; a third would repeat one
of the two.  One fault per run keeps what follows it attributable, and every kind of fault is in it.
(`TerminalLeavesNoEndpoint` and `StopIsFinal` are proved for any number; two faults are where an orphaned
endpoint meets a poll of a room that is over, which both leave out.)

Deadlock is not checked where the system may stop: a room that is closed or expired, an
attempt whose session ended, a run or stage that is over, streams that have delivered
everything.  It is checked in `coordinator`, which can always be restarted, and in `control` and
`control_diagnostics`, where only a rest with every request answered is a step of its own.

### Disagreements

Some properties that a document, a comment or a test of the repository states are not met by the code.
They are defined in their modules, and a configuration shows each violation:
`tlc -config X.cfg M`.

| Configuration, module | Property | What happens | What is said |
| --- | --- | --- | --- |
| `AdmissionProofs.cfg`, `MCRelayAdmission` | `ProofsBeforeAttempt` | withdrawing readiness clears the partner's proof too (`relay/server.py:667`); the next ready starts an attempt with one proof and is then refused | `docs/88-abcd-milestone-5-c0-c1-20260830.md:29`: two distinct attestations are required before an attempt is produced |
| `AdmissionTerminal.cfg`, `MCRelayAdmission` | `TerminalPhaseIsFinal` | a late D acknowledgement writes a terminal phase again (`relay/authority.py:714`): a failed attempt becomes completed | `tests/test_authoritative_rooms.py:664`: "terminal_failure_is_immutable" |
| `RelayTunnelRfu.cfg`, `MCRelayTunnel` | `RfuNeedsBothReady` | the recorded epoch is compared with the peer's, and `None == None` for a seat that has never spoken (`relay/server.py:1355`) | `docs/89-abcd-milestone-6-c2-20260830.md:32`: "RFU is rejected by the relay until both current source epochs have accepted readiness" |
| `RelayTunnelReplay.cfg`, `MCRelayTunnel` | `LostSeatHasDeadline` | a connection whose replay fails has raised the generation (`relay/server.py:1276`): the pending deadline no longer applies, and no new one starts | `docs/89...:48`: the relay "starts the bounded reconnect deadline" |
| `SessionReset.cfg`, `MCTunnelSession` | `ResetIsNotFatal` | a frame that waited for the session lock across a reset is recorded and retained (`relay/server.py:1310`), and poisons the next connection | `docs/89...:51`: both clients reconnect and prove again |
| `SessionEarly.cfg`, `MCTunnelSession` | `NoEarlyRfu` | the poll that yields the advertisement drops a SIDE_READY behind it (`connection/c_stage.py:106`), and the peer's RFU is then early | `docs/89...:67`: "same-batch readiness ordering" |
| `RecoveryVerdict.cfg`, `MCConnectionRun` | `RecoveryGivesVerdict` | an exception while the recovery verifies D8/D9 (`p0_harness.py:857`) leaves the record in "cleaning" without a verdict | `p0_harness.py:754`: "Finish one interrupted P0 cleanup before allowing another explicit run" |
| `StagePlane.cfg`, `MCDirectStage` | `NoFailureWithoutFault` | with the real sockets B's data plane requires a connected peer when it is opened (`data_plane.py:44`), before one can have joined; the direct program cannot pass it | `docs/80-abc-connection-architecture-20260829.md:271`: B6 opens the Pia data plane "before peer traffic arrives" |
| `StageIntent.cfg`, `MCDirectStage` | `IntentReachesD` | the closing intent is taken by the checkpoint inside a gate of the stage thread (`distributed_endpoint.py:294`), becomes the stage's failure, and D is not run on it | `docs/94-production-wrapper-beta-cutover-20260831.md:191`: "a physical checkpoint now accepts the one identity-bound D closing intent" |

`session_live` checks `ResetIsNotFatal` where a reset finds no frame waiting for the lock; `stage`
checks `NoFailureWithoutFault` with the data plane the distributed endpoint injects.
`WatchdogMeansSilence` (`ConnectionService`) has no configuration: the watchdog (`service.py:584`)
calls the heartbeat stopped while the drive loop is blocked waiting for the user.

Others were met while modelling.  Those marked (*) are behaviours of the models too, and some show in the way a property
is worded; the rest lie outside what is modelled.

Relay and tunnel:

* `lock_role` (`relay/authority.py:938`) writes `connecting_switches` whatever the phase was,
  a terminal one included; no client calls the route.
* The phase route can set `closing` without an intent (`relay/authority.py:941`); no D deadline
  exists then, and the attempt ends only with the room or with a later command (*).
* While the sockets of an ended attempt are being closed its admission is kept, and a
  next attempt admitted in the meantime inherits its launches: that member's new
  launch is refused (`relay/server.py:1245`) (*).
* The disconnect of a whole room that is late retires the admission of the next attempt
  (`relay/server.py:974`; the comment at 982 keeps a launch binding until D6 consumes it) (*: `ClosingKeepsAdmission`).
* A reset between the check that the data plane is proven and the send turns a transient loss
  into a protocol failure of the sender (`connection/c2.py:139`).

Run, service and stages:

* After a failing record write the coordinator answers the next command from memory;
  an outcome told that way is replaced by `interrupted` when the process restarts
  (`connection/coordinator.py:701`) (*: `OutcomeSurvives`).
* A worker that is still starting when its control dies is on no record, and a recovery does not see
  it (*: `rec.wrapper` in `VerifiedMeansReturned`).
* A crash after the lease removed its recovery file and before the record says so leaves a run whose
  recovery answers `P0_RECOVERY_STATE_MISSING` (`p0.py:876`) (*).
* An aborted run can leave its record naming a room while the credential file is gone; after an
  unverified finish only a restart of the service resolves it.
* `gate_passed` may publish "running" after `cleanup_started`; `_recover_startup` replaces an
  earlier failure by its own (*: `FirstFailureStays` is stated for a service that is up).
* `_unknown_linux_usb()` is called without its argument (`p0_harness.py:677`).
* `production_shutdown` ends the process even when the shutdown command was refused.
* An operator's control file that is published between `submit`'s read and its check ends the run
  with `DISTRIBUTED_CONTROL_IDENTITY_MISMATCH` (`distributed_harness.py:196`).
* A's endpoint claims its LDN context released even when leaving it failed (`direct_a_endpoint.py:63`,
  `stage_session.py:109`) (*: the second half of `ReleasedMeansExited` is B's).
* `quiesce_selected_radio` stops one interface name only (*: `Quiesced`).  B's `_validate_peer` fails with gate B8
  after B8 and B9 were passed; the checkpoint in B5 blocks the stage's event loop; a session that is
  held does not notice that the Switch has left.

Link:

* `ConnectionManager` takes any Session message for the finalization and a round-trip message for the
  connection (`pia_connect.py:295` describes a stricter order); the constant `EarlyRtt` opens
  that path.  `HostConnectionManager` never repeats its answers of type 2 and 5 (*).
* The live receiver hands frames on in the order they arrive, while `reliable.py:77` says
  "IN ORDER" of its own; hence two different channels in `TunnelLink` (*).
* A reset noticed inside `poll()` lets frames of the old generation be sent for one more tick; the
  duplicate filter forgets by order of arrival, which needs `LifetimeAssumption` (*).

Control service and diagnostics:

* Connecting between leave's end of the session and the removal of the credential leaves an
  endpoint without one (`control.py:2417`); a failed inventory check after attaching leaves the adapter
  attached without cleaning up (1611); releasing at a terminal room depends on an
  endpoint session having run; `retry_app` reads its generation after the room, so a stop in between is
  undone (*: `Overtaken` in `StopIsFinal`).
* A crash between starting the process and its registration leaves an endpoint no stop reaches
  (*: `orphan`).  A crash between creating the diagnostic's room or token and recording it
  leaks them (*: "unnamed").  A recovery may take an adapter its user attached for its own (1488) (*).
* `sync_authoritative_phase` reports the phase of an old endpoint file to the room's current attempt
  (537); `fail_start` may write the endpoint file again after a leave cleared it;
  `launch_authoritative_attempt` stops the endpoint without `state.lock` (*).
* Selecting another adapter while one is held replaces the record of the first (2456); two creates or
  joins at once both pass `require_no_active_room` (2196) and the second replaces the first room's
  credential; `attempt_lock` may be held for 45 seconds while the room is polled.
* A diagnostic that is cancelled may show itself running again at its next transition, and one cancelled
  after its last check ends as passed (*).

## 4. Fairness

* `LiveSpec` (`RoomAuthority`): the sweep runs in front of every HTTP request
  (`security_and_cleanup`), so a deadline that has passed is noticed as long as some client
  calls the relay at all; members poll and send heartbeats.  Weak fairness of the sweep for a closing
  attempt, and for each member in its grace period.
* `LiveSession`: the two threads of a client and the relay's handlers keep running, and
  a closed socket is noticed by both ends (WebSocket ping timeout and close).  Losing
  further sockets is not fair and is bounded (`MaxLosses`, which also counts connections
  dropped for a full inbox).
* `FairSpec` of `ConnectionService`: the command loop, the run thread, the stop and the exit are
  threads the operating system schedules; each waits with a timeout or on an event that is set.  The
  user, the peer and the watchdog are not fair: a stop must end the run without them.
* `FairLink`: what the program and the Switch do on timers (poll, drive, repeat, retransmit) and the
  reception of a frame that is on the air.  Losses and resets are not fair and are bounded, so a frame
  sent often enough arrives.
* `FairSpec` of `ControlDiagnostics`: the worker, start-up and each request thread keep running; the
  user's Continue or Cancel is not fair, the waits for them have deadlines.

## 5. Proofs

Proved for every value of the constants, without bounds:

* **RelayProofs**, part 1: the store by itself.  `TypeCorrect`; `MembershipSafe` (`RoomIsConsistent`: types,
  exclusive seats, both members of an active attempt, credentials that match presence);
  `ReadinessSafe` (`ReadinessIsConsistent`); `TeardownSafe` (`VerifiedNeedsBothClean`);
  `IntentFrozen` (`FrozenIntent`); `AttemptHistory` (`AttemptKeepsItsCourse`).  Exclusive
  seats are not inductive alone: the capacity test counts members, so one needs that the owner is in
  every open room (`OwnerStays`), and that an attempt always has both members
  (`AttemptHasBoth`, since vacating a seat erases it).  `RoomInv` is their conjunction
  with the type invariant; every action has one lemma or step that keeps it.
  Assumptions: members are a finite set with the owner in it.
* **RelayProofs**, part 1: the HTTP layer.  `StoreStep` shows that every step of the HTTP layer is a step of the
  store or leaves it alone; with the initial states this is the refinement
  `AdmissionImplementsStore` (`AdmissionSpec => Spec`), and the store's theorems carry over
  (`AdmissionKeepsRoom`).  `AdmissionSafe` (`AdmissionIsProved`) needs `AdmInv`: `RoomInv`, that
  nothing is admitted before a room exists (`EmptyBeforeCreate`), that admitted and bound numbers were used
  (`NumbersUsed`), so that a new attempt finds none of its own, and that what is retiring is over
  (`RetiringIsOver`).  `ClosingAdmissionKept` (`ClosingKeepsAdmission`) follows step by step from it.
* **CoordinatorProofs.** Every command is shown once to be an answer from memory or
  the saving of a record that *grows* the one in memory (`CommandsGrow`).
  `RecordsConsistent` proves the inductive invariant `RecordInv`: what is in memory grows
  what is on disk, a pending save is of the record just written, and the pointer names
  an existing record.  From it `HistoryFinal` (`HistoryIsFinal`) follows with any number
  of crashes and failing writes, and with `Chained` (each identity has those it depends on)
  `LaunchAuthorised` (`LaunchIsAuthorised`).  `AnswersHold` (`RecordsAreDurable`) adds `AckInv`: until a write
  fails memory, pending save and disk are in step (`InSync`) and each answer is one
  the record on disk confirms (`Confirms`).  `GuardKept` (`UnresolvedIsGuarded`) and
  `AdapterHasOneOwner` (`OneOwner`) assume that no file operation fails; with enough
  failing writes of the pointer in a row they are false; TLC checks them with one.
* **ControlRuntimeProofs** begins with the adapter by itself.  For any set of threads, `HardwareInv`: the
  thread in a locked step holds the lock (`LockIsHeld`), a routine under way has recorded before it uses
  (`RecordedWhileUsed`), a record is of an adapter the service attached (`RecordMeansOurs`).  `AdapterOwned`
  (`AdapterHasItsOwner`) follows for every use of the routines (`HardwareSpec`).  Every step of the service is a
  step of those routines or leaves them alone (`RequestsUseHardware`), so it follows for the service too
  (`RuntimeAdapterOwned`).
  Over it `RuntimeInv`, for any threads, requests, launches and faults.  `RequestInv` says where a request
  is: which call, routine and lock goes with which place (`Calling`, `Busy`, `Holds`).  `EndpointInv`: at most
  one endpoint is alive, the service knows it (`EndpointIsKnown`), a launch that waits for it is alone
  (`LaunchIsAlone`), and nothing starts between a stop's end of it and the request's next step (`StopIsThrough`).
  `StoppedInv` is what makes `StopIsFinal` inductive: it says of the time in which other requests
  are still under way that each launch has been overtaken, each living endpoint has the launch that will
  end it (`Ended`), and an adapter on record has a request that will release it or tell that it could not
  (`Releases`).  From it `RuntimeConsistent` (`RuntimeIsConsistent`) and `TerminalAlone`
  (`TerminalLeavesNoEndpoint`).  What a step of one request leaves to the others is stated once (`Apart`) and
  each action is then looked at for its own thread.  An endpoint that a crash orphaned before it registered
  is outside all of this: no file names it, a second script finds its lock held, and no stop reaches it.
* **ControlDiagnosticsProofs**, for any threads, runs, requests and faults.  A recovery of a diagnostic reads the
  record of the adapter from outside ControlHardware, so a diagnostic is more than an implementation of
  `HardwareSpec` and the proof of the service does not carry over to it.  `DiagnosticInvariance` proves
  `DiagnosticInv`.  `ThreadsInv`: which call and which routine of the adapter goes with which place of the worker
  and of a request, and that before the service serves only its start-up is under way.  `RecoveryInv`: a run has a
  recovery file until its verdict, what the run holds in memory is what the file names, and a run that is clean at
  its end holds nothing.  `EndpointInv`: at most one endpoint is alive, the file of the launch or the service
  knows it, a stop that came through has ended it, and the run it belongs to will stop it or knows that it could
  not (`EndpointIsRecovered`).  `OwnedInv`: for an adapter that is attached there is always a run, a request or
  a start-up still to come that returns it or tells that it could not (`RunReturns`, `Releases`, `Down`).  The
  last two leave an orphaned endpoint out, as above.  From them `DiagnosticConsistent`
  (`DiagnosticIsConsistent`).  Assumptions: the worker is one of the threads and a round is launched under its number.
* **RelayProofs**, part 2: the tunnel.  It begins with the relay and endpoints that send anything.  `RelayInv` adds to the
  type invariant the shape of frames, gates and queues (`RelayShape`) and that readiness is of the seat's
  present epoch (`ReadinessIsCurrent`); it needs that a gate never goes back.  From it `RelayConsistent`
  (`RelayIsConsistent`).  `DeadlineForLostConnection` (`DeadlineIsForTheLostConnection`) holds of every step.
  Then the same relay has the two real endpoints.  `RfuOrdered`
  (`RfuInOrder`) needs `OrderInv`: the eight parts an RFU frame passes on its way (received, batch, inbox,
  down, pending, up, outbox, unsent) form one ascending path in each direction.  No step moves a frame
  past another, a frame only moves on from the head of its part (`Passes`, `Leads`), and no bridge frame is
  handled before the advertisement.  `Fits` bounds the inbox.  `ProofMutual` (`ProofIsMutual`) needs
  `AnswerInv`: every frame under way is of an epoch its sender has had, and an answer in its
  present epoch means that it has answered (`FromEpoch`); what a client counts as heard from its peer
  it did hear (`HeardFrom`); there is a proof for each epoch at most (`Counts`).
  What a client sends in answer to a frame is stated once (`Answers`) and cited by each.
  Its last part is `SessionConsistent` (`SessionIsConsistent`): the readiness an
  active bridge counts is what the peer sent in the epoch of the proof the bridge is active under.
  `RowInv`: the frames on their way to a seat are of ascending epochs, none behind what the seat has heard
  of.  `TalkInv`: while both clients are registered and one was answered in its present epoch the two are
  in step (`Paired`), so readiness is only sent and read in the epochs of now (`ReadyOf`).  A client
  the relay has reset goes on reading what was sent it before: that is of one epoch too (`LeftIn`, `LeftBox`).
  `BridgeInv`: what a bridge holds of the peer is of the proof it counts, in the inbox, the batch and
  the bridge itself.  No part is inductive without the others, nor without `OrderInv`, `Fits` and `AnswerInv`.
* **DirectStageProofs** proves one inductive invariant for three theorems.  `StageReleaseIsReal`
  (`ReleaseIsReal`) follows from `OpenInv` (what is open is the start of the stack) and `ReleaseInv` (a context
  that is left over is one the stage could not exit, and it knows); `StagePassedMeansHeld`
  (`PassedMeansHeld`) from `PipeInv` (the pipe holds the gates the control has not counted, then the report)
  and `HeldInv`; `StageFaultless` (`NoFailureWithoutFault`) from `FaultInv`.  The last assumes
  `Plane = "injected"`, since with the real sockets it is false (section 3, `StagePlane.cfg`).
* **ConnectionRunProofs** follows a run through the places of its process, for every set of programs and
  any number of crashes and unplugged adapters.  `RunInvariance` proves `IInv`.  `BorrowInv`: the adapter is
  out of Windows' hands only with a recovery file that says so, and every place that still has to return
  it holds a lease.  `WorkerInv`: the only process that can be alive is one the record names, or one that is
  starting up.  `QuietInv`: what a probe saw quiet stays quiet, over a crash and in the next process;
  a recovery of a run whose wrapper was never recorded is left out of it where the code does not look
  (`Ours`).  `OutcomeInv`: the outcome on record is the authority's.  `VerdictInv` and `CredentialInv`: a verdict
  ends the run, and until there is one the files a recovery needs are kept.  From them
  `RunRecordConsistent` (`RecordIsConsistent`), `CleanAckStaysQuiet` (`CleanAckMeansQuiet`), `AdapterReturned`
  (`AdapterIsReturned`, with the action property `DetachIsOwned`) and `CredentialKept`
  (`CredentialKeptWhileMember`).
* **ConnectionServiceProofs** holds for any number of commands, repeats, runs and crashes, any length of
  the queue and any number of remembered answers.  `ServiceInvariance` proves `IInv`.  `OnceInv`: a command
  that names the present revision has not been applied, wherever a copy of it waits, and applying one
  outdates every copy of every other; so `CommandsConsistent` (`CommandsAreConsistent`) does not need the
  remembered answers at all.  `QueueInv`: nothing of the present run is in the queue before its thread starts,
  and nothing behind its `finished`; `RunInv`: a run that has a thread, a control or something in its hands is not
  resolved.  What a step does to the queue is said once (`Comes`, `Tells`) and cited by each.  From
  them `RunsSeparate` (`RunsAreSeparate`: `NewRunFindsMachineFree` and `FirstFailureStays`).

* **TunnelLinkProofs** holds for ids of any width that wrap any number of times, any windows, any traffic
  and any number of losses and lost proofs.  Ids do not say which frame they mean, so the proofs count
  frames: `Nth(k)` is the id of frame k, and `NthAhead` and `NthBefore` say when two ids that are less
  than half the ids apart can be compared.  `LinkInvariance` proves `IndInv`.  For each stream (`StreamAt`): the send
  window is a run of frame numbers (`Sends`), the receiver has `Got` all before `next` and some after it
  (`Receives`), what counts as acknowledged is got (`Confirms`), and what is in the air is a frame that
  was sent lately or says what had come when it was sent (`OnAir`).  From the Switch: what was got is what was
  handed on, in an order that is at most a window off (`NearlyOrdered`), so a frame that is handed on and may
  still be in the air is among those the filter remembers (`Filters`, `HandedIsSeen`); this is where
  `LifetimeAssumption` is needed.  To the Switch: it was shown the first `next` frames queued.  `Traffic` numbers the frames of
  the bridge through its inbox, the backlog and the stream, each of the proof it came under.  From it
  follow `LinkConsistent` (`LinkIsConsistent`), the action property `LinkDropsStale`
  (`StaleFramesDropped`) and both refinements of FrameChannel, step by step: `LinkOnceToBridge` (`OnceToBridge`)
  and `LinkInOrderToSwitch` (`InOrderToSwitch`).  Only `LinkConsistent` assumes `~EarlyRtt`, for `UpMeansFinalized`:
  a hosting Switch that measured a round trip first would bring the connection up too early (section 3).

Only model-checked: liveness and fairness, which the prover does not handle (`EveryFrameArrives`
of TunnelLink among them); `ResetIsNotFatal` of TunnelSession, which holds only where no frame waits for the lock at a
reset.

## 6. Not modelled, and the plan

Left out of what is modelled: `lock_role`, the public directory and idempotency keys of
the store; the v1 WebSocket namespace and its client, which are off in this release; HTTP rate
limits; files torn by a power failure (writes are replaced atomically, but not synced); the steps
inside the endpoint's D2-D4, which are one that may fail; the radio traffic inside a gate, which is one
outcome; the operator's control files; selecting another adapter, passcode
groups and the v2 production routes of the control service (which hand over to the
connection service).

Parts without a module:

* **Codecs** (packets, ciphers, save data): bytes and tables without control.
* **Frame relay bridge**: a research path the product does not start.
* **Trade engine** of `frlgsim` (`trade.py`, `block.py`, `barrier.py`, `ni.py`): it plays a partner
  for research; the product's simulation is `tunnel.py`, which is modelled.
* **Dual adapter bench**: drives two radios on one PC for qualification.
* **Desktop**: view models over the two services; **installer**: a program of its own that shares no
  state with a running connection.

Next, in this order:

1. Proof of `ResetIsNotFatal` where no frame waits for the lock at a reset, from `RowInv` and `TalkInv`.
2. `ConnectionRun` against an abstract *borrow* of the adapter (free, borrowed, returned), and
   `ConnectionService` against a serialized command log, as refinements.
3. The two sides of D composed: `ConnectionRun` twice over `RoomAuthority`.
4. The block transfer and the standby barrier of the trade engine; the installer's executor
   journal with its rollback.
