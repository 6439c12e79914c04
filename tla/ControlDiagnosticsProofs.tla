------------------------ MODULE ControlDiagnosticsProofs ------------------------
(*************************************************************************************)
(* The production diagnostic, proved for every set of threads, every number of       *)
(* runs, requests and faults.                                                        *)
(*                                                                                   *)
(* That nothing of a diagnostic is left cannot be seen from the run alone: the       *)
(* endpoint and the adapter are used by requests as well.  So it has to be known     *)
(* where each thread is in the routine it has called, that the endpoint the stop     *)
(* finds is the only one, and, for every place of the run and of a request, who will *)
(* return the adapter or tell that it could not.                                     *)
(*************************************************************************************)
EXTENDS TLAPS, ControlDiagnostics

\* A release does not attach.
OnlyAttachAttaches ==
    \A t \in Threads : step[t] \in {"inspect", "issue", "enumerate"} => routine[t] # "release"

\* Launches are numbered in the order they are made.
InOrder == \E k \in 0..MaxLaunches : \A n \in Launches : process[n] # "none" <=> n <= k

-----------------------------------------------------------------------------
(* Where the worker and the requests are.                                *)

Cleaning == {"peer", "room", "room closed", "credential", "credential deleted", "cleaned"}
Ending == {"releasing", "verdict"}
WorkerPlaces == Cleaning \cup Ending
    \cup {"none", "preflight", "gate", "gating", "check", "await", "entry", "ensure", "ensuring", "create",
          "register", "join", "token", "name", "begin", "launch", "watch", "stage", "stopping", "final"}
RequestPlaces == {"idle", "cancel", "shutdown", "waiting", "ending", "teardown", "returning", "starting",
                  "borrow", "borrowing"}

RunTypeOK ==
    run \in [place : WorkerPlaces, mode : {"round", "final", "recover"}, round : Rounds, canceled : BOOLEAN,
             continued : BOOLEAN, failed : BOOLEAN, clean : BOOLEAN, acquired : BOOLEAN]

TypeInv ==
    /\ DiagnosticTypeOK
    /\ RunTypeOK
    /\ at \in [Requesters -> RequestPlaces]

\* The launch or the stop a thread is in the middle of.
WorkerCalls ==
    /\ call[Worker].phase \in Launching => At("launch")
    /\ call[Worker].phase \in Stopping => At("stopping")
    /\ At("launch") => call[Worker].phase \in Launching \cup {"started", "refused"}
    /\ At("stopping") => call[Worker].phase \in Stopping \cup {"stopped", "unstopped"}
    /\ call[Worker].phase # "releasing"
    /\ call[Worker].phase \in {"wait", "decide", "fail"} =>
           call[Worker].launch \in Launches /\ process[call[Worker].launch] # "none"

RequestCalls(t) ==
    /\ call[t].phase \notin Launching
    /\ call[t].phase \in Stopping => at[t] = "teardown"
    /\ at[t] = "teardown" => call[t].phase \in Stopping \cup {"stopped", "unstopped"} /\ locks["state"] = t

\* The routine of the adapter a thread waits for.
WorkerBusy ==
    step[Worker] \notin Resting =>
        IF routine[Worker] = "release" THEN At("releasing") ELSE At("gating") \/ At("ensuring")

RequestBusy(t) ==
    step[t] \notin Resting =>
        IF routine[t] = "release" THEN at[t] \in {"returning", "starting"} ELSE at[t] = "borrowing"

\* Before the service serves, only its start-up is under way.
Serving(t) ==
    /\ at[t] \notin {"idle", "starting"} => serving
    /\ at[t] = "starting" => /\ ~serving /\ At("none") /\ ~recovery.exists
                             /\ \A u \in Requesters \ {t} : at[u] = "idle"

ThreadsInv ==
    /\ WorkerCalls /\ WorkerBusy
    /\ \A t \in Requesters : RequestCalls(t) /\ RequestBusy(t) /\ Serving(t)

-----------------------------------------------------------------------------
(* The recovery file and what it names.                                  *)

RecoveryInv ==
    /\ ~At("none") \/ incomplete => recovery.exists
    /\ serving /\ At("none") /\ ~incomplete => ~recovery.exists
    /\ ~recovery.exists => ~recovery.room /\ ~recovery.token
    /\ IF At("none") THEN d7 = NoD7 ELSE d7.room = recovery.room /\ d7.credential = recovery.token
    /\ At("preflight") => d7 = NoD7
    /\ run.place \in Ending /\ run.clean => d7 = NoD7
    /\ At("room closed") => relayRoom # "named"
    /\ At("credential deleted") => credential = "none"
    /\ RecoveryNamesLeftovers

-----------------------------------------------------------------------------
(* The endpoint.                                                         *)

FileIsNamed == file.registered => file.launch \in Launches

\* An endpoint that is up is the one the file names, and one on its way there is the process
\* the service has started last.
EndpointIsKnown ==
    \A n \in Launches : /\ Up(n) => file.registered /\ file.launch = n
                        /\ Alive(n) /\ ~Up(n) => popen = n

LaunchIsAlone ==
    \A n \in Launches :
        /\ call[Worker].phase \in {"wait", "decide", "fail"} /\ Alive(n) => n = call[Worker].launch
        /\ call[Worker].phase = "record" => ~Alive(n)

Nobody == \A n \in Launches : ~Alive(n)

StopIsThrough ==
    \A t \in Threads : (IF t = Worker THEN At("stopping") ELSE at[t] = "teardown")
                       /\ call[t].phase \in {"forget", "stopped"} => Nobody

\* A run whose endpoint lives has a recovery file, and is where it will stop it or knows
\* that it could not.
EndpointIsRecovered ==
    ~Nobody => recovery.exists /\ (run.place \in {"none", "launch", "watch", "stage", "stopping"} \/ ~run.clean)

OneAlive == \A m, n \in Launches : Alive(m) /\ Alive(n) => m = n

EndpointInv ==
    /\ OneAlive
    /\ ~orphan => EndpointIsKnown /\ LaunchIsAlone /\ StopIsThrough /\ EndpointIsRecovered

-----------------------------------------------------------------------------
(* The adapter.                                                          *)

\* A request that will yet release the adapter, or tell that it could not.
Releases(t) == step[t] \notin Resting \/ (step[t] = "ok" /\ at[t] = "borrowing")

\* The run, or the recovery of it, will look after the adapter, or will not be clean.
RunReturns ==
    /\ recovery.exists /\ ~At("preflight")
    /\ run.clean => ~At("verdict") /\ ~(At("releasing") /\ step[Worker] = "ok")

\* A start-up that has not begun.
Down == ~serving /\ At("none") /\ \A t \in Requesters : at[t] = "idle"

OwnedInv ==
    ~orphan /\ owned /\ ~leftover => RunReturns \/ Down \/ \E t \in Requesters : Releases(t)

DiagnosticInv ==
    /\ TypeInv /\ OnlyAttachAttaches /\ InOrder /\ FileIsNamed
    /\ ThreadsInv /\ RecoveryInv /\ EndpointInv /\ OwnedInv

-----------------------------------------------------------------------------
(* The types, and the steps the worker is made of.                       *)

LocksTypeOK == locks \in [{"state", "launch", "attempt"} -> Threads \cup {NoThread}]

CallTypeOK == call \in [Threads -> [phase : Answers \cup Launching \cup Stopping, launch : 0..MaxLaunches,
                                    generation : {"none", "current", "old"}]]

States == {"none", "launching", "running", "passed", "failed", "completed"}

FileTypeOK == file \in [state : States, launch : 0..MaxLaunches, key : Keys \cup {NoKey}, registered : BOOLEAN]

StoreTypeOK ==
    /\ FileTypeOK
    /\ ack \in 0..MaxLaunches /\ popen \in 0..MaxLaunches /\ session \in BOOLEAN
    /\ process \in [Launches -> {"none", "gate", "gated", "up", "closing", "ended"}]
    /\ keyOf \in [Launches -> Keys \cup {NoKey}]

DiskTypeOK ==
    /\ recovery \in [exists : BOOLEAN, adapter : BOOLEAN, room : BOOLEAN, token : BOOLEAN]
    /\ d7 \in [peer : BOOLEAN, room : BOOLEAN, credential : BOOLEAN]
    /\ relayRoom \in {"none", "unnamed", "named"} /\ credential \in {"none", "unnamed", "named"}

FlagsTypeOK == incomplete \in BOOLEAN /\ leftover \in BOOLEAN /\ orphan \in BOOLEAN /\ serving \in BOOLEAN

AtTypeOK == at \in [Requesters -> RequestPlaces]

\* The types, one by one.
LEMMA TypesSplit ==
    TypeInv <=> /\ HardwareTypeOK /\ LocksTypeOK /\ CallTypeOK /\ StoreTypeOK
                /\ RunTypeOK /\ DiskTypeOK /\ FlagsTypeOK /\ AtTypeOK
<1>1. LaunchTypeOK <=> LocksTypeOK /\ CallTypeOK /\ StoreTypeOK
  BY DEF LaunchTypeOK, LocksTypeOK, CallTypeOK, StoreTypeOK, FileTypeOK, States
<1>2. RunTypeOK => run.round \in Rounds /\ run.mode \in {"round", "final", "recover"}
  BY DEF RunTypeOK
<1> QED BY <1>1, <1>2 DEF TypeInv, DiagnosticTypeOK, DiskTypeOK, FlagsTypeOK, AtTypeOK

\* What the assumptions say of the constants.
LEMMA SmallNumbers ==
    /\ MaxLaunches \in Nat /\ Keys \subseteq Nat /\ 0 \notin Keys /\ 1 \in Keys /\ 2 \in Keys
    /\ Worker \in Threads /\ NoThread \notin Threads
BY LaunchAssumption, DiagnosticAssumption, ThreadsAssumption DEF Rounds

\* The steps of the worker that leave endpoint and adapter alone,
AsideStep ==
    \/ Preflight \/ HardwareGate \/ AwaitContinue \/ Entry \/ CreateRoom \/ RegisterRoom \/ JoinRoom
    \/ WriteToken \/ RegisterCredential \/ Launched \/ Watch \/ StopPeer \/ CloseRoom \/ RoomClosed
    \/ DeleteCredential \/ CredentialDeleted \/ NextRound \/ BeginCleanup

\* those of its launch and its stop,
CallStep == BeginLaunch \/ LaunchDiagnostic \/ Stage \/ StopsEndpoint \/ EndpointStopped

\* and those of its adapter.
AdapterStep == EnsureHardware \/ Attached \/ ReleaseAtEnd \/ ReleasedAtEnd \/ RecoverHardware

\* The worker has no other.
LEMMA WorkerSteps == WorkerStep <=> AsideStep \/ CallStep \/ AdapterStep \/ Verdict \/ Hardware(Worker)
BY DEF WorkerStep, AsideStep, CallStep, AdapterStep

\* They do leave endpoint and adapter alone.
LEMMA AsideFrame == AsideStep => Aside
BY DEF AsideStep, Preflight, HardwareGate, AwaitContinue, Entry, CreateRoom, RegisterRoom, JoinRoom,
       WriteToken, RegisterCredential, Launched, Watch, StopPeer, CloseRoom, RoomClosed,
       DeleteCredential, CredentialDeleted, NextRound, BeginCleanup

\* The launch of a diagnostic leaves the adapter to its cleanup.
LEMMA LaunchFrame ==
    ASSUME NEW t, NEW key, NEW retry, LaunchStep(t, key, retry, TRUE)
    PROVE  Forgets(t) \/ UNCHANGED hardwareVars
BY DEF LaunchStep, EnterLaunch, FindRunning, FindLaunched, Start, CannotStart, Wait, Decide, Deadline,
       Fail, RecordFailure, Released

\* A stop leaves the adapter alone.
LEMMA StopFrame == ASSUME NEW t, StopStep(t) PROVE UNCHANGED hardwareVars
BY DEF StopStep, Cancel, Terminate, Forget

\* So does the endpoint.
LEMMA EndpointFrame == ASSUME NEW vs, NEW c, EndpointStep(vs, c) PROVE UNCHANGED hardwareVars
BY DEF EndpointStep, Gate, Register, Refresh, Finish, Exit

\* A routine of the adapter, a call of one or the use of its answer.
LEMMA HardwareKinds ==
    ASSUME NEW t \in Threads,
           HardwareStep(t) \/ Forgets(t) \/ Calls(t, "attach") \/ Calls(t, "attachOnly") \/ Calls(t, "release")
    PROVE  [HardwareNext]_hardwareVars
BY DEF HardwareNext, Routines

\* Every step is one of the adapter, or leaves it alone, or recovers a run.
LEMMA UsesAdapter ==
    ASSUME [Next \/ Idle]_vars, ~RecoverHardware PROVE [HardwareNext]_hardwareVars
<1>0. Worker \in Threads /\ Requesters \subseteq Threads BY SmallNumbers DEF Requesters
<1>1. CASE StartDiagnostic BY <1>1 DEF StartDiagnostic
<1>2. CASE AsideStep BY <1>2, AsideFrame DEF Aside
<1>3. CASE CallStep
  <2>1. Forgets(Worker) \/ UNCHANGED hardwareVars
    BY <1>3, LaunchFrame, StopFrame DEF CallStep, BeginLaunch, LaunchDiagnostic, Stage, StopsEndpoint, EndpointStopped
  <2> QED BY <2>1, <1>0, HardwareKinds
<1>4. CASE AdapterStep
  <2>1. Forgets(Worker) \/ Calls(Worker, "attachOnly") \/ Calls(Worker, "release") \/ UNCHANGED hardwareVars
    BY <1>4 DEF AdapterStep, EnsureHardware, Attached, ReleaseAtEnd, ReleasedAtEnd, CallsHardware, Aside
  <2> QED BY <2>1, <1>0, HardwareKinds
<1>5. CASE Verdict BY <1>5 DEF Verdict
<1>6. ASSUME NEW t \in Threads, Hardware(t) PROVE [HardwareNext]_hardwareVars
  BY <1>6, HardwareKinds DEF Hardware
<1>7. CASE StartUp
  <2>1. (\E t \in Requesters : Calls(t, "release")) \/ UNCHANGED hardwareVars
    BY <1>7 DEF StartUp
  <2> QED BY <2>1, <1>0, HardwareKinds
<1>8. ASSUME NEW t \in Requesters, Request(t) PROVE UNCHANGED hardwareVars
  BY <1>8 DEF Request, Cancels, ContinuesRun, Shutdown, Stops, Checks
<1>9. ASSUME NEW t \in Requesters, RequestStep(t), ~Hardware(t) PROVE [HardwareNext]_hardwareVars
  <2>1. Forgets(t) \/ Calls(t, "attach") \/ Calls(t, "release") \/ UNCHANGED hardwareVars
    BY <1>9, StopFrame DEF RequestStep, CancelsLaunch, WaitForIdle, EndSession, Teardown, Returned, Borrows, Borrowed
  <2> QED BY <2>1, <1>0, HardwareKinds
<1>10. CASE Endpoint BY <1>10, EndpointFrame DEF Endpoint
<1>11. CASE RoomExpires \/ Idle \/ UNCHANGED vars BY <1>11 DEF RoomExpires, Idle, vars
<1>12. CASE Unplugged BY <1>12 DEF Unplugged, HardwareNext
<1>13. CASE Crash BY <1>13 DEF Crash, LaunchCrash, HardwareNext
<1> QED
  BY <1>0, <1>1, <1>2, <1>3, <1>4, <1>5, <1>6, <1>7, <1>8, <1>9, <1>10, <1>11, <1>12, <1>13, WorkerSteps DEF Next, RequestStep

AdapterInv == HardwareTypeOK /\ OnlyAttachAttaches

\* The routines keep the types, and a release does not attach.
LEMMA AdapterRoutines ==
    ASSUME AdapterInv, [HardwareNext]_hardwareVars PROVE AdapterInv'
<1> USE DEF AdapterInv, HardwareTypeOK, OnlyAttachAttaches, Locked, Resting, Routines
<1>1. ASSUME NEW t \in Threads, EnterAttach(t) PROVE AdapterInv'
  BY <1>1 DEF EnterAttach
<1>2. ASSUME NEW t \in Threads, Record(t) PROVE AdapterInv'
  BY <1>2 DEF Record, Moves
<1>3. ASSUME NEW t \in Threads, Inspect(t) PROVE AdapterInv'
  BY <1>3 DEF Inspect, Moves, Leaves
<1>4. ASSUME NEW t \in Threads, Issue(t) PROVE AdapterInv'
  <2>1. attached' \in BOOLEAN /\ ours' \in BOOLEAN /\ UNCHANGED owned
    <3>1. CASE attached' = TRUE /\ ours' = TRUE
      BY <1>4, <3>1 DEF Issue
    <3>2. CASE UNCHANGED <<attached, ours>>
      BY <1>4, <3>2 DEF Issue
    <3> QED
      BY <1>4, <3>1, <3>2 DEF Issue
  <2>2. CASE Moves(t, "enumerate") \/ Moves(t, "quiesce")
    BY <1>4, <2>1, <2>2 DEF Issue, Moves
  <2>3. CASE Leaves(t, "failed")
    BY <1>4, <2>1, <2>3 DEF Issue, Leaves
  <2> QED
    BY <1>4, <2>2, <2>3 DEF Issue, GivesUp
<1>5. ASSUME NEW t \in Threads, Enumerate(t) PROVE AdapterInv'
  BY <1>5 DEF Enumerate, GivesUp, Moves, Leaves
<1>6. ASSUME NEW t \in Threads, EnterRelease(t) PROVE AdapterInv'
  BY <1>6 DEF EnterRelease
<1>7. ASSUME NEW t \in Threads, Quiesce(t) PROVE AdapterInv'
  BY <1>7 DEF Quiesce, Moves, Leaves
<1>8. ASSUME NEW t \in Threads, Detach(t) PROVE AdapterInv'
  BY <1>8 DEF Detach, Moves, Leaves
<1>9. ASSUME NEW t \in Threads, Absent(t) PROVE AdapterInv'
  BY <1>9 DEF Absent, Returns, Moves, Leaves
<1>10. ASSUME NEW t \in Threads, Forgets(t) PROVE AdapterInv'
  BY <1>10 DEF Forgets, Moves
<1>11. ASSUME NEW t \in Threads, NEW r \in Routines, Calls(t, r) PROVE AdapterInv'
  BY <1>11 DEF Calls
<1>12. CASE Unplug
  BY <1>12 DEF Unplug
<1>13. CASE HardwareCrash
  BY <1>13 DEF HardwareCrash
<1>14. CASE UNCHANGED hardwareVars
  BY <1>14 DEF hardwareVars
<1> QED
  BY <1>1, <1>2, <1>3, <1>4, <1>5, <1>6, <1>7, <1>8, <1>9, <1>10, <1>11, <1>12, <1>13, <1>14
     DEF HardwareNext, HardwareStep

\* The recovery of a run takes the adapter for its own and keeps the types.
LEMMA AdapterSteps == ASSUME AdapterInv, [Next \/ Idle]_vars PROVE AdapterInv'
<1>1. CASE RecoverHardware
  BY <1>1, SmallNumbers DEF RecoverHardware, AdapterInv, HardwareTypeOK, OnlyAttachAttaches, Routines
<1>2. CASE ~RecoverHardware
  BY <1>2, UsesAdapter, AdapterRoutines
<1> QED BY <1>1, <1>2

-----------------------------------------------------------------------------
(* What is stored.                                                       *)

StartedKept == \A n \in Launches : process[n] # "none" => process'[n] # "none"

StoreInv == StoreTypeOK /\ FileIsNamed /\ InOrder

StoreIsKept == StoreInv' /\ StartedKept

\* A launch finds a number that is free.
LEMMA NextIsFree ==
    ASSUME InOrder, \E n \in Launches : process[n] = "none"
    PROVE  NextLaunch \in Launches /\ process[NextLaunch] = "none"
           /\ \A m \in Launches : m < NextLaunch <=> process[m] # "none"
<1>1. PICK k \in 0..MaxLaunches : \A n \in Launches : process[n] # "none" <=> n <= k
  BY DEF InOrder
<1>2. PICK e \in Launches : process[e] = "none"
  OBVIOUS
<1>3. k + 1 \in Launches /\ \A m \in Launches : m < k + 1 <=> process[m] # "none"
  BY <1>1, <1>2, SmallNumbers DEF Launches
<1>4. NextLaunch \in Launches /\ \A m \in Launches : m < NextLaunch <=> process[m] # "none"
  BY <1>3 DEF NextLaunch
<1> QED BY <1>4, SmallNumbers DEF Launches

\* A state file the service writes has the type of the file,
LEMMA SaysTyped ==
    ASSUME NEW n \in 0..MaxLaunches, NEW key \in Keys \cup {NoKey}, NEW s \in States, NEW r \in BOOLEAN,
           Says(n, key, s, r)
    PROVE  FileTypeOK'
BY DEF Says, FileTypeOK

\* and so has one the endpoint writes.
LEMMA ReportsTyped ==
    ASSUME StoreTypeOK, NEW n \in Launches, NEW s \in States, Reports(n, s) PROVE FileTypeOK'
<1>1. n \in 0..MaxLaunches BY SmallNumbers DEF Launches
<1>2. keyOf[n] \in Keys \cup {NoKey} BY DEF StoreTypeOK
<1> QED BY <1>1, <1>2, SaysTyped DEF Reports

\* While no process is launched that was not, what is registered and the order stay.
LEMMA SameOrder ==
    ASSUME FileIsNamed, InOrder,
           \A n \in Launches : process[n] # "none" <=> process'[n] # "none",
           UNCHANGED file \/ ~file'.registered \/ \E n \in Launches : file'.launch = n
    PROVE  FileIsNamed' /\ InOrder' /\ StartedKept
<1>1. PICK k \in 0..MaxLaunches : \A n \in Launches : process[n] # "none" <=> n <= k
  BY DEF InOrder
<1>2. \A n \in Launches : process'[n] # "none" <=> n <= k BY <1>1
<1>3. InOrder' BY <1>2 DEF InOrder, Launches
<1> QED BY <1>3 DEF FileIsNamed, StartedKept, Launches

\* The steps of the endpoint keep what is stored in order,
LEMMA EndpointStore ==
    ASSUME StoreInv, NEW c, EndpointStep({"passed", "failed"}, c)
    PROVE  StoreIsKept
<1>0. PICK n \in Launches :
          Gate(n) \/ Register(n, c) \/ Refresh(n) \/ Finish(n, {"passed", "failed"}) \/ Exit(n)
  BY DEF EndpointStep
<1>1. UNCHANGED file \/ \E s \in {"running", "passed", "failed"} : Reports(n, s)
  BY <1>0 DEF Gate, Register, Refresh, Finish, Exit, Cleanup
<1>2. /\ UNCHANGED <<popen, session, keyOf>> /\ (UNCHANGED ack \/ ack' = n)
      /\ UNCHANGED process
         \/ \E p \in {"gated", "up", "closing", "ended"} : process' = [process EXCEPT ![n] = p]
  BY <1>0 DEF Gate, Register, Refresh, Finish, Exit, Becomes, Memory, Processes
<1>8. process[n] # "none" BY <1>0 DEF Gate, Register, Refresh, Finish, Exit
<1>3. FileTypeOK'
  BY <1>1, ReportsTyped DEF StoreInv, StoreTypeOK, States, FileTypeOK
<1>4. ack' \in 0..MaxLaunches BY <1>2, SmallNumbers DEF StoreInv, StoreTypeOK, Launches
<1>5. /\ process' \in [Launches -> {"none", "gate", "gated", "up", "closing", "ended"}]
      /\ \A m \in Launches : process[m] # "none" <=> process'[m] # "none"
  BY <1>2, <1>8 DEF StoreInv, StoreTypeOK
<1>6. UNCHANGED file \/ file'.launch = n BY <1>1 DEF Reports, Says
<1>7. FileIsNamed' /\ InOrder' /\ StartedKept BY <1>5, <1>6, SameOrder DEF StoreInv
<1> QED BY <1>2, <1>3, <1>4, <1>5, <1>7 DEF StoreInv, StoreTypeOK, StoreIsKept

\* and so does the end of a process that was launched.
LEMMA TerminatedStore ==
    ASSUME StoreInv, NEW ns \in SUBSET Launches, \A n \in ns : process[n] # "none", Terminated(ns),
           UNCHANGED <<ack, Memory>>
    PROVE  StoreIsKept
<1>1. FileTypeOK'
  BY ReportsTyped DEF StoreInv, StoreTypeOK, Terminated, States, FileTypeOK
<1>2. /\ process' \in [Launches -> {"none", "gate", "gated", "up", "closing", "ended"}]
      /\ \A m \in Launches : process[m] # "none" <=> process'[m] # "none"
  BY DEF StoreInv, StoreTypeOK, Terminated
<1>3. UNCHANGED file \/ \E n \in Launches : file'.launch = n BY DEF Terminated, Reports, Says
<1>4. FileIsNamed' /\ InOrder' /\ StartedKept BY <1>2, <1>3, SameOrder DEF StoreInv
<1> QED BY <1>1, <1>2, <1>4 DEF StoreInv, StoreIsKept, StoreTypeOK, Terminated, Memory

\* What the service writes of itself does not start a process.
LEMMA MemoryStore ==
    ASSUME StoreInv, FileTypeOK', UNCHANGED file \/ ~file'.registered,
           ack' \in 0..MaxLaunches, popen' \in 0..MaxLaunches, session' \in BOOLEAN, UNCHANGED Processes
    PROVE  StoreIsKept
<1>1. FileIsNamed' /\ InOrder' /\ StartedKept BY SameOrder DEF StoreInv, Processes
<1> QED BY <1>1 DEF StoreInv, StoreIsKept, StoreTypeOK, Processes

\* What is not written stays.
LEMMA SameStore ==
    ASSUME StoreInv, UNCHANGED <<Files, Memory, Processes>> PROVE StoreIsKept
<1>1. FileTypeOK' /\ ack' \in 0..MaxLaunches /\ popen' \in 0..MaxLaunches /\ session' \in BOOLEAN
  BY DEF StoreInv, StoreTypeOK, FileTypeOK, Files, Memory
<1> QED BY <1>1, MemoryStore DEF Files

\* A file that is cleared names nothing.
LEMMA ClearedStore ==
    ASSUME file' = NoFile PROVE FileTypeOK' /\ ~file'.registered
<1>1. Says(0, NoKey, "none", FALSE) BY DEF Says, NoFile
<1>2. 0 \in 0..MaxLaunches /\ "none" \in States BY SmallNumbers DEF States
<1> QED BY <1>1, <1>2, SaysTyped DEF NoFile

\* The launch of a diagnostic keeps what is stored in order.
LEMMA LaunchStore ==
    ASSUME StoreInv, CallTypeOK, WorkerCalls, NEW key \in Keys, LaunchStep(Worker, key, TRUE, TRUE)
    PROVE  StoreIsKept
<1>0. StoreTypeOK /\ FileTypeOK /\ InOrder /\ FileIsNamed BY DEF StoreInv, StoreTypeOK
<1>1. CASE EnterLaunch(Worker) \/ Wait(Worker) \/ Deadline(Worker) \/ Released(Worker)
  BY <1>1, SameStore DEF EnterLaunch, Wait, Deadline, Released
<1>2. CASE Decide(Worker)
  <2>1. UNCHANGED <<file, Memory, Processes>> /\ ack' \in 0..MaxLaunches
    BY <1>0, <1>2, SmallNumbers DEF Decide, StoreTypeOK
  <2> QED BY <1>0, <2>1, MemoryStore DEF Memory, StoreTypeOK, FileTypeOK
<1>3. CASE FindRunning(Worker, key)
  <2>1. session' \in BOOLEAN BY <1>3 DEF FindRunning, Adopts
  <2> QED BY <1>0, <1>3, <2>1, MemoryStore DEF FindRunning, Files, StoreTypeOK, FileTypeOK
<1>4. CASE FindLaunched(Worker, key, TRUE)
  BY <1>4 DEF FindLaunched
<1>5. CASE Start(Worker, key, TRUE)
  <2> DEFINE n == NextLaunch
  <2>1. n \in Launches /\ process[n] = "none" /\ \A m \in Launches : m < n <=> process[m] # "none"
    BY <1>0, <1>5, NextIsFree DEF Start
  <2>2. n \in 0..MaxLaunches /\ 0 \in 0..MaxLaunches /\ "launching" \in States /\ FALSE \in BOOLEAN
    BY <2>1, SmallNumbers DEF Launches, States
  <2>3. FileTypeOK' /\ ~file'.registered
    BY <1>5, <2>2, SaysTyped DEF Start, Says
  <2>4. ack' \in 0..MaxLaunches /\ popen' \in 0..MaxLaunches BY <1>5, <2>2 DEF Start
  <2>5. session' \in BOOLEAN BY <1>5 DEF Start
  <2>6. keyOf' \in [Launches -> Keys \cup {NoKey}] BY <1>0, <1>5, <2>1 DEF Start, StoreTypeOK
  <2>7. /\ process' \in [Launches -> {"none", "gate", "gated", "up", "closing", "ended"}]
        /\ process'[n] # "none" /\ \A m \in Launches \ {n} : process'[m] = process[m]
    BY <1>0, <1>5, <2>1 DEF Start, StoreTypeOK
  <2>8. \A m \in Launches : process'[m] # "none" <=> m <= n
    BY <2>1, <2>7, SmallNumbers DEF Launches
  <2>9. InOrder' BY <2>2, <2>8 DEF InOrder, Launches
  <2>10. StartedKept BY <2>1, <2>7 DEF StartedKept
  <2> QED BY <2>3, <2>4, <2>5, <2>6, <2>7, <2>9, <2>10 DEF StoreTypeOK, StoreIsKept, StoreInv, FileIsNamed
<1>6. CASE CannotStart(Worker, key, TRUE, TRUE)
  <2>1. 0 \in 0..MaxLaunches /\ "failed" \in States BY SmallNumbers DEF States
  <2>2. FileTypeOK' /\ ~file'.registered BY <1>6, <2>1, SaysTyped DEF CannotStart, Says
  <2>3. popen' \in 0..MaxLaunches /\ session' \in BOOLEAN /\ ack' \in 0..MaxLaunches /\ UNCHANGED Processes
    BY <1>0, <1>6, <2>1 DEF CannotStart, StoreTypeOK, Memory
  <2> QED BY <2>2, <2>3, MemoryStore
<1>7. CASE Fail(Worker)
  <2>1. call[Worker].launch \in Launches /\ process[call[Worker].launch] # "none" BY <1>7 DEF Fail, In, WorkerCalls
  <2> QED BY <1>7, <2>1, TerminatedStore DEF Fail
<1>8. CASE RecordFailure(Worker, key, TRUE)
  <2>1. 0 \in 0..MaxLaunches /\ "failed" \in States BY SmallNumbers DEF States
  <2>2. call[Worker].launch \in 0..MaxLaunches BY SmallNumbers DEF CallTypeOK
  <2>3. CASE UNCHANGED file
    <3>1. FileTypeOK' /\ ack' \in 0..MaxLaunches /\ popen' \in 0..MaxLaunches /\ session' \in BOOLEAN /\ UNCHANGED Processes
      BY <1>0, <1>8, <2>1, <2>3 DEF RecordFailure, StoreTypeOK, FileTypeOK
    <3> QED BY <2>3, <3>1, MemoryStore
  <2>4. CASE Says(call[Worker].launch, key, "failed", FALSE)
    <3>1. FileTypeOK' /\ ~file'.registered BY <2>1, <2>2, <2>4, SaysTyped DEF Says
    <3>2. ack' \in 0..MaxLaunches /\ popen' \in 0..MaxLaunches /\ session' \in BOOLEAN /\ UNCHANGED Processes
      BY <1>0, <1>8, <2>1 DEF RecordFailure, StoreTypeOK
    <3> QED BY <3>1, <3>2, MemoryStore
  <2> QED BY <1>8, <2>3, <2>4 DEF RecordFailure
<1> QED
  BY <1>1, <1>2, <1>3, <1>4, <1>5, <1>6, <1>7, <1>8 DEF LaunchStep

\* So does a stop.
LEMMA StopStore ==
    ASSUME StoreInv, NEW t, StopStep(t) PROVE StoreIsKept
<1>0. StoreTypeOK /\ FileTypeOK BY DEF StoreInv, StoreTypeOK
<1>1. CASE Cancel(t) BY <1>1, SameStore DEF Cancel
<1>2. CASE Terminate(t)
  <2>1. CASE UNCHANGED <<file, Processes>>
    BY <1>2, <2>1, SameStore DEF Terminate, Files
  <2>2. CASE Terminated({n \in Launches : Alive(n) /\ (n = popen \/ (Verified /\ n = file.launch))})
    <3> DEFINE ns == {n \in Launches : Alive(n) /\ (n = popen \/ (Verified /\ n = file.launch))}
    <3>1. ns \in SUBSET Launches /\ \A n \in ns : process[n] # "none" BY DEF Alive, Up
    <3> HIDE DEF ns
    <3>2. Terminated(ns) BY <2>2 DEF ns
    <3> QED BY <1>2, <3>1, <3>2, TerminatedStore DEF Terminate
  <2> QED BY <1>2, <2>1, <2>2 DEF Terminate
<1>3. CASE Forget(t)
  <2>0. popen' = 0 /\ session' = FALSE /\ UNCHANGED <<Files, Processes>> BY <1>3 DEF Forget
  <2>2. session' \in BOOLEAN BY <2>0
  <2>1. popen' \in 0..MaxLaunches /\ ack' \in 0..MaxLaunches /\ UNCHANGED <<file, Processes>>
    BY <1>0, <2>0, SmallNumbers DEF Files, StoreTypeOK
  <2> QED BY <1>0, <2>1, <2>2, MemoryStore DEF FileTypeOK
<1> QED BY <1>1, <1>2, <1>3 DEF StopStep

\* The service begins, ends or leaves alone what is stored.
LEMMA StoreSteps ==
    ASSUME TypeInv, StoreInv, ThreadsInv, [Next \/ Idle]_vars PROVE StoreIsKept
<1>0. StoreTypeOK /\ FileTypeOK /\ CallTypeOK /\ RunTypeOK BY TypesSplit DEF StoreTypeOK
<1>1. CASE AsideStep BY <1>1, AsideFrame, SameStore DEF Aside, launchVars
<1>2. CASE LaunchDiagnostic
  <2>1. run.round \in Keys BY <1>0, DiagnosticAssumption DEF RunTypeOK
  <2> QED BY <1>0, <1>2, <2>1, LaunchStore DEF LaunchDiagnostic, ThreadsInv
<1>3. CASE BeginLaunch \/ Stage BY <1>3, SameStore DEF BeginLaunch, Stage
<1>4. CASE StopsEndpoint BY <1>4, StopStore DEF StopsEndpoint
<1>5. ASSUME UNCHANGED <<popen, Processes>>, \/ file' = NoFile /\ ack' = 0 /\ session' = FALSE
                                             \/ UNCHANGED <<Files, session>>
      PROVE  StoreIsKept
  <2>1. CASE file' = NoFile /\ ack' = 0 /\ session' = FALSE
    <3>1. FileTypeOK' /\ ~file'.registered BY <2>1, ClearedStore
    <3>0. popen' = popen BY <1>5
    <3>2. session' \in BOOLEAN BY <2>1
    <3>3. popen' \in 0..MaxLaunches /\ ack' \in 0..MaxLaunches
      BY <1>0, <2>1, <3>0, SmallNumbers DEF StoreTypeOK
    <3> QED BY <1>5, <3>1, <3>2, <3>3, MemoryStore
  <2>2. CASE UNCHANGED <<Files, session>> BY <1>5, <2>2, SameStore DEF Memory
  <2> QED BY <1>5, <2>1, <2>2
<1>6. CASE EndpointStopped BY <1>5, <1>6 DEF EndpointStopped
<1>7. CASE AdapterStep \/ Verdict
  BY <1>7, SameStore DEF AdapterStep, EnsureHardware, Attached, ReleaseAtEnd, ReleasedAtEnd, RecoverHardware,
                         CallsHardware, Aside, Verdict, launchVars
<1>8. ASSUME NEW t \in Threads, Hardware(t) PROVE StoreIsKept
  BY <1>8, SameStore DEF Hardware, launchVars
<1>9. ASSUME NEW t \in Requesters, Request(t) PROVE StoreIsKept
  BY <1>9, SameStore DEF Request, Cancels, ContinuesRun, Shutdown, Stops, Checks, launchVars
<1>10. ASSUME NEW t \in Requesters, Teardown(t) PROVE StoreIsKept
  <2>1. CASE StopStep(t) BY <2>1, StopStore
  <2>2. CASE ~StopStep(t) BY <1>5, <1>10, <2>2 DEF Teardown, Memory
  <2> QED BY <2>1, <2>2
<1>11. ASSUME NEW t \in Requesters, RequestStep(t), ~Teardown(t), ~Hardware(t) PROVE StoreIsKept
  BY <1>11, SameStore DEF RequestStep, CancelsLaunch, WaitForIdle, EndSession, Returned, Borrows, Borrowed, launchVars
<1>12. CASE Endpoint BY <1>12, EndpointStore DEF Endpoint
<1>13. CASE StartDiagnostic
  <2>1. session' \in BOOLEAN BY <1>13 DEF StartDiagnostic, Adopts
  <2> QED BY <1>0, <1>13, <2>1, MemoryStore DEF StartDiagnostic, Files, StoreTypeOK, FileTypeOK
<1>14. CASE Crash
  <2>1. popen' \in 0..MaxLaunches BY <1>14, SmallNumbers DEF Crash, LaunchCrash
  <2>2. session' \in BOOLEAN
    <3>1. file.registered \in BOOLEAN BY <1>0 DEF FileTypeOK
    <3> QED BY <1>14, <3>1 DEF Crash, LaunchCrash, Verified, Up
  <2> QED
    BY <1>0, <1>14, <2>1, <2>2, MemoryStore DEF Crash, LaunchCrash, StoreTypeOK, FileTypeOK, Files
<1>15. CASE RoomExpires \/ Unplugged \/ StartUp \/ Idle \/ UNCHANGED vars
  BY <1>15, SameStore DEF RoomExpires, Unplugged, StartUp, Idle, vars, launchVars
<1> QED
  BY <1>1, <1>2, <1>3, <1>4, <1>6, <1>7, <1>8, <1>9, <1>10, <1>11, <1>12, <1>13, <1>14, <1>15, SmallNumbers,
     WorkerSteps DEF Next, RequestStep, CallStep, Requesters

-----------------------------------------------------------------------------
(* The run and its recovery file keep their types.                       *)

\* The run goes on, or fails.
LEMMA GoTyped ==
    ASSUME RunTypeOK, NEW p \in WorkerPlaces, Go(p) \/ Fails(p) PROVE RunTypeOK'
BY DEF RunTypeOK, Go, Fails

\* Every step leaves a run.
LEMMA RunSteps == ASSUME TypeInv, [Next \/ Idle]_vars PROVE RunTypeOK'
<1>0. RunTypeOK /\ HardwareTypeOK BY TypesSplit
<1> USE DEF WorkerPlaces, Cleaning, Ending
<1>1. CASE Preflight
  <2>1. CASE Go(Opening(run.round)) BY <1>0, <2>1, GoTyped DEF Opening
  <2>2. CASE run' = [run EXCEPT !.place = "verdict", !.mode = "final", !.failed = TRUE] BY <1>0, <2>2 DEF RunTypeOK
  <2> QED BY <1>1, <2>1, <2>2 DEF Preflight
<1>2. CASE HardwareGate \/ Entry \/ CreateRoom \/ RegisterRoom \/ JoinRoom \/ WriteToken \/ RegisterCredential
  BY <1>0, <1>2, GoTyped DEF HardwareGate, Entry, CreateRoom, RegisterRoom, JoinRoom, WriteToken, RegisterCredential
<1>3. CASE Launched \/ Watch \/ StopPeer \/ CloseRoom \/ RoomClosed \/ DeleteCredential \/ CredentialDeleted
  BY <1>0, <1>3, GoTyped DEF Launched, Watch, StopPeer, CloseRoom, RoomClosed, DeleteCredential, CredentialDeleted
<1>4. CASE AwaitContinue
  <2>1. CASE run' = [run EXCEPT !.place = "entry", !.continued = FALSE] BY <1>0, <2>1 DEF RunTypeOK
  <2> QED BY <1>0, <1>4, <2>1, GoTyped DEF AwaitContinue
<1>5. CASE NextRound
  <2>1. CASE run' = [run EXCEPT !.place = "final", !.failed = @ \/ ~Cleaned] BY <1>0, <2>1 DEF RunTypeOK
  <2>2. CASE run.round + 1 \in Rounds /\ run' = [run EXCEPT !.round = @ + 1, !.place = Opening(run.round + 1)]
    BY <1>0, <2>2 DEF RunTypeOK, Opening
  <2> QED BY <1>5, <2>1, <2>2 DEF NextRound
<1>6. CASE BeginCleanup
  BY <1>0, <1>6 DEF BeginCleanup, RunTypeOK
<1>7. CASE BeginLaunch \/ Stage
  BY <1>0, <1>7, GoTyped DEF BeginLaunch, Stage
<1>8. CASE EndpointStopped
  <2>1. CASE Go("peer") BY <1>0, <2>1, GoTyped
  <2>2. CASE run' = [run EXCEPT !.place = IF run.mode = "recover" THEN "verdict" ELSE "peer", !.clean = FALSE]
    BY <1>0, <2>2 DEF RunTypeOK
  <2> QED BY <1>8, <2>1, <2>2 DEF EndpointStopped
<1>9. CASE EnsureHardware
  <2>1. CASE run.acquired
    <3>1. Go("check") \/ Go("create") \/ Fails("final") \/ Fails("stage")
      BY <1>9, <2>1 DEF EnsureHardware, Finally
    <3> QED BY <1>0, <3>1, GoTyped
  <2>2. CASE ~run.acquired
    <3>1. Go("gating") \/ Go("ensuring") BY <1>9, <2>2 DEF EnsureHardware
    <3> QED BY <1>0, <3>1, GoTyped
  <2> QED BY <2>1, <2>2
<1>10. CASE Attached
  <2>0. owned \in BOOLEAN BY <1>0 DEF HardwareTypeOK
  <2>1. CASE run' = [run EXCEPT !.acquired = TRUE, !.place = IF At("gating") THEN "check" ELSE "create"]
    BY <1>0, <2>1 DEF RunTypeOK
  <2>2. CASE run' = [run EXCEPT !.acquired = owned, !.place = Finally, !.failed = TRUE]
    BY <1>0, <2>0, <2>2 DEF RunTypeOK, Finally
  <2> QED BY <1>10, <2>1, <2>2 DEF Attached
<1>11. CASE ReleaseAtEnd
  <2>1. \E p \in {"releasing", "verdict"} : run' = [run EXCEPT !.place = p, !.clean = Cleaned]
    BY <1>11 DEF ReleaseAtEnd
  <2>2. ASSUME NEW p \in {"releasing", "verdict"}, NEW c \in BOOLEAN, run' = [run EXCEPT !.place = p, !.clean = c]
        PROVE  RunTypeOK'
    BY <1>0, <2>2 DEF RunTypeOK
  <2>3. Cleaned \in BOOLEAN BY DEF Cleaned
  <2> QED BY <2>1, <2>2, <2>3
<1>12. CASE ReleasedAtEnd
  <2>1. run' = [run EXCEPT !.place = "verdict", !.clean = @ /\ step[Worker] = "ok"] BY <1>12 DEF ReleasedAtEnd
  <2> QED BY <1>0, <2>1 DEF RunTypeOK
<1>13. CASE RecoverHardware
  <2>1. Go("releasing") \/ \E c \in BOOLEAN : run' = [run EXCEPT !.place = "verdict", !.clean = c]
    BY <1>13 DEF RecoverHardware
  <2>2. ASSUME NEW c \in BOOLEAN, run' = [run EXCEPT !.place = "verdict", !.clean = c] PROVE RunTypeOK'
    BY <1>0, <2>2 DEF RunTypeOK
  <2> QED BY <1>0, <2>1, <2>2, GoTyped
<1>14. CASE StartDiagnostic \/ Verdict \/ Crash
  <2>1. run' = NoRun \/ \E first \in Rounds : run' = [NoRun EXCEPT !.place = "preflight", !.round = first]
    BY <1>14 DEF StartDiagnostic, Begins, Verdict, Crash
  <2>2. CASE run' = NoRun BY <2>2 DEF RunTypeOK, NoRun, Rounds
  <2>3. ASSUME NEW first \in Rounds, run' = [NoRun EXCEPT !.place = "preflight", !.round = first] PROVE RunTypeOK'
    BY <2>3 DEF RunTypeOK, NoRun
  <2> QED BY <2>1, <2>2, <2>3
<1>15. CASE StartUp
  <2>1. UNCHANGED run \/ run' = [NoRun EXCEPT !.place = "stage", !.mode = "recover"] BY <1>15 DEF StartUp
  <2>2. CASE run' = [NoRun EXCEPT !.place = "stage", !.mode = "recover"]
    <3>1. run' = [place |-> "stage", mode |-> "recover", round |-> 1, canceled |-> FALSE, continued |-> FALSE,
                  failed |-> FALSE, clean |-> TRUE, acquired |-> FALSE]
      BY <2>2 DEF NoRun
    <3> QED BY <3>1 DEF RunTypeOK, Rounds
  <2> QED BY <1>0, <2>1, <2>2 DEF RunTypeOK
<1>16. ASSUME NEW t \in Requesters, Request(t) PROVE RunTypeOK'
  <2>1. UNCHANGED run \/ run' = [run EXCEPT !.canceled = TRUE] \/ run' = [run EXCEPT !.continued = TRUE]
        \/ run' = [run EXCEPT !.canceled = @ \/ Active]
    BY <1>16 DEF Request, Cancels, ContinuesRun, Shutdown, Stops, Checks, Diagnostic
  <2>2. Active \in BOOLEAN BY DEF Active
  <2> QED BY <1>0, <2>1, <2>2 DEF RunTypeOK
<1>17. ASSUME NEW t \in Threads, RequestStep(t) PROVE UNCHANGED run
  BY <1>17 DEF RequestStep, CancelsLaunch, WaitForIdle, EndSession, Teardown, Returned, Borrows, Borrowed,
               Hardware, Diagnostic
<1>18. LaunchDiagnostic \/ StopsEndpoint \/ Hardware(Worker) \/ Endpoint \/ RoomExpires \/ Unplugged \/ Idle
       \/ UNCHANGED vars => UNCHANGED run
  BY DEF LaunchDiagnostic, StopsEndpoint, Hardware, Endpoint, RoomExpires, Unplugged, Idle, vars, Diagnostic
<1>19. UNCHANGED run => RunTypeOK' BY <1>0 DEF RunTypeOK
<1> QED
  BY <1>1, <1>2, <1>3, <1>4, <1>5, <1>6, <1>7, <1>8, <1>9, <1>10, <1>11, <1>12, <1>13, <1>14, <1>15, <1>16, <1>17,
     <1>18, <1>19 DEF Next, WorkerStep, Requesters

\* The recovery file, what the cleanup has in memory, room and credential keep their types,
LEMMA DiskSteps == ASSUME TypeInv, [Next \/ Idle]_vars PROVE DiskTypeOK'
<1>0. DiskTypeOK BY TypesSplit
<1>1. CASE AsideStep
  <2>1. CASE Preflight BY <1>0, <2>1 DEF Preflight, DiskTypeOK, Recovers
  <2>2. CASE RegisterRoom BY <1>0, <2>2 DEF RegisterRoom, Registers, DiskTypeOK, Recovers
  <2>3. CASE JoinRoom BY <1>0, <2>3 DEF JoinRoom, Peers, DiskTypeOK, Disk
  <2>4. CASE RegisterCredential BY <1>0, <2>4 DEF RegisterCredential, DiskTypeOK, Recovers
  <2>5. CASE StopPeer BY <1>0, <2>5 DEF StopPeer, DiskTypeOK, Disk
  <2>6. CASE RoomClosed \/ CredentialDeleted BY <1>0, <2>6 DEF RoomClosed, CredentialDeleted, DiskTypeOK, Recovers
  <2>7. CASE HardwareGate \/ AwaitContinue \/ Entry \/ Launched \/ Watch \/ NextRound \/ BeginCleanup
    BY <1>0, <2>7 DEF HardwareGate, AwaitContinue, Entry, Launched, Watch, NextRound, BeginCleanup, DiskTypeOK, Disk
  <2>8. CASE CreateRoom \/ WriteToken \/ CloseRoom \/ DeleteCredential
    BY <1>0, <2>8 DEF CreateRoom, WriteToken, CloseRoom, DeleteCredential, DiskTypeOK
  <2> QED BY <1>1, <2>1, <2>2, <2>3, <2>4, <2>5, <2>6, <2>7, <2>8 DEF AsideStep
<1>2. CASE StartDiagnostic BY <1>0, <1>2 DEF StartDiagnostic, Begins, Recovers, NoRecovery, DiskTypeOK
<1>3. CASE Verdict
  <2>1. d7' = NoD7 /\ UNCHANGED <<relayRoom, credential>> /\ (recovery' = NoRecovery \/ recovery' = recovery)
    BY <1>3 DEF Verdict, Completes, Unresolved, Recovers
  <2>2. d7' \in [peer : BOOLEAN, room : BOOLEAN, credential : BOOLEAN] BY <2>1 DEF NoD7
  <2>3. recovery' \in [exists : BOOLEAN, adapter : BOOLEAN, room : BOOLEAN, token : BOOLEAN]
    <3>1. CASE recovery' = NoRecovery BY <3>1 DEF NoRecovery
    <3>2. CASE recovery' = recovery BY <1>0, <3>2 DEF DiskTypeOK
    <3> QED BY <2>1, <3>1, <3>2
  <2> QED BY <1>0, <2>1, <2>2, <2>3 DEF DiskTypeOK
<1>4. CASE StartUp
  <2>1. /\ UNCHANGED Disk
        /\ UNCHANGED d7 \/ d7' = [peer |-> FALSE, room |-> recovery.room, credential |-> recovery.token]
    BY <1>4 DEF StartUp
  <2>2. d7' \in [peer : BOOLEAN, room : BOOLEAN, credential : BOOLEAN]
    <3>1. recovery.room \in BOOLEAN /\ recovery.token \in BOOLEAN BY <1>0 DEF DiskTypeOK
    <3>2. CASE d7' = [peer |-> FALSE, room |-> recovery.room, credential |-> recovery.token] BY <3>1, <3>2
    <3>3. CASE UNCHANGED d7 BY <1>0, <3>3 DEF DiskTypeOK
    <3> QED BY <2>1, <3>2, <3>3
  <2> QED BY <1>0, <2>1, <2>2 DEF DiskTypeOK, Disk
<1>5. CASE RoomExpires BY <1>0, <1>5 DEF RoomExpires, DiskTypeOK
<1>6. CASE Crash BY <1>0, <1>6 DEF Crash, NoD7, DiskTypeOK, Disk
<1>7. CASE UNCHANGED <<d7, Disk>> BY <1>0, <1>7 DEF DiskTypeOK, Disk
<1>8. CallStep \/ AdapterStep => UNCHANGED <<d7, Disk>>
  BY DEF CallStep, BeginLaunch, LaunchDiagnostic, Stage, StopsEndpoint, EndpointStopped, AdapterStep, EnsureHardware,
         Attached, ReleaseAtEnd, ReleasedAtEnd, RecoverHardware, Diagnostic
<1>9. ASSUME NEW t \in Threads, Request(t) \/ RequestStep(t) \/ Hardware(t) PROVE UNCHANGED <<d7, Disk>>
  BY <1>9 DEF Request, Cancels, ContinuesRun, Shutdown, Stops, Checks, RequestStep, CancelsLaunch, WaitForIdle,
              EndSession, Teardown, Returned, Borrows, Borrowed, Hardware, Diagnostic
<1>10. Endpoint \/ Unplugged \/ Idle \/ UNCHANGED vars => UNCHANGED <<d7, Disk>>
  BY DEF Endpoint, Unplugged, Idle, vars, Diagnostic
<1> QED
  BY <1>1, <1>2, <1>3, <1>4, <1>5, <1>6, <1>7, <1>8, <1>9, <1>10, WorkerSteps, SmallNumbers DEF Next, Requesters

\* and the flags stay flags.
LEMMA FlagsSteps == ASSUME TypeInv, [Next \/ Idle]_vars PROVE FlagsTypeOK'
<1>0. FlagsTypeOK BY TypesSplit
<1>1. CASE UNCHANGED <<incomplete, leftover, orphan, serving>> BY <1>0, <1>1 DEF FlagsTypeOK
<1>2. AsideStep \/ CallStep \/ AdapterStep => UNCHANGED <<incomplete, leftover, orphan, serving>>
  BY DEF AsideStep, Preflight, HardwareGate, AwaitContinue, Entry, CreateRoom, RegisterRoom, JoinRoom,
       WriteToken, RegisterCredential, Launched, Watch, StopPeer, CloseRoom, RoomClosed,
       DeleteCredential, CredentialDeleted, NextRound, BeginCleanup,
       CallStep, BeginLaunch, LaunchDiagnostic, Stage, StopsEndpoint, EndpointStopped, AdapterStep, EnsureHardware,
       Attached, ReleaseAtEnd, ReleasedAtEnd, RecoverHardware, CallsHardware, Diagnostic, Aside, Life, Registers, Peers
<1>3. CASE StartDiagnostic BY <1>0, <1>3 DEF StartDiagnostic, FlagsTypeOK
<1>4. CASE Verdict
  <2>1. incomplete' \in BOOLEAN /\ serving' \in BOOLEAN /\ UNCHANGED <<leftover, orphan>>
    BY <1>4 DEF Verdict, Completes, Unresolved
  <2> QED BY <1>0, <2>1 DEF FlagsTypeOK
<1>5. CASE StartUp
  <2>1. UNCHANGED <<leftover, orphan>> BY <1>5 DEF StartUp
  <2>2. (incomplete' = TRUE \/ UNCHANGED incomplete) /\ (serving' = TRUE \/ UNCHANGED serving) BY <1>5 DEF StartUp
  <2> QED BY <1>0, <2>1, <2>2 DEF FlagsTypeOK
<1>6. ASSUME NEW t \in Threads, Hardware(t) PROVE FlagsTypeOK'
  <2>1. leftover' \in BOOLEAN BY <1>6 DEF Hardware
  <2>2. UNCHANGED <<incomplete, orphan, serving>> BY <1>6 DEF Hardware, Diagnostic, Life
  <2> QED BY <1>0, <2>1, <2>2 DEF FlagsTypeOK
<1>7. CASE Crash
  <2>1. orphan' \in BOOLEAN BY <1>7 DEF Crash
  <2>2. incomplete' = FALSE /\ serving' = FALSE /\ UNCHANGED leftover BY <1>7 DEF Crash
  <2> QED BY <1>0, <2>1, <2>2 DEF FlagsTypeOK
<1>8. ASSUME NEW t \in Threads, Request(t) PROVE UNCHANGED <<incomplete, leftover, orphan, serving>>
  BY <1>8 DEF Request, Cancels, ContinuesRun, Shutdown, Stops, Checks, Receives, Diagnostic
<1>9. ASSUME NEW t \in Threads, RequestStep(t), ~Hardware(t)
      PROVE  UNCHANGED <<incomplete, leftover, orphan>> /\ (UNCHANGED serving \/ serving' = TRUE)
  BY <1>9 DEF RequestStep, CancelsLaunch, WaitForIdle, EndSession, Teardown, Returned, Borrows, Borrowed, Diagnostic,
              Life
<1>10. CASE UNCHANGED <<incomplete, leftover, orphan>> /\ (UNCHANGED serving \/ serving' = TRUE)
  BY <1>0, <1>10 DEF FlagsTypeOK
<1>11. Endpoint \/ RoomExpires \/ Unplugged \/ Idle \/ UNCHANGED vars
       => UNCHANGED <<incomplete, leftover, orphan, serving>>
  BY DEF Endpoint, RoomExpires, Unplugged, Idle, vars, Diagnostic, Life
<1> QED
  BY <1>1, <1>2, <1>3, <1>4, <1>5, <1>6, <1>7, <1>8, <1>9, <1>10, <1>11, WorkerSteps, SmallNumbers DEF Next, Requesters

-----------------------------------------------------------------------------
(* The calls, the locks and the routines of one thread leave those of the others. *)

Phases == Answers \cup Launching \cup Stopping

CallRecord == [phase : Phases, launch : 0..MaxLaunches, generation : {"none", "current", "old"}]

CallsApart(t) ==
    /\ CallTypeOK'
    /\ \A u \in Threads \ {t} : call'[u].phase = call[u].phase /\ call'[u].launch = call[u].launch

\* A call that is begun or over is one thread's,
LEMMA CallSet ==
    ASSUME CallTypeOK, NEW t \in Threads, NEW c \in CallRecord, call' = [call EXCEPT ![t] = c]
    PROVE  CallsApart(t) /\ call'[t] = c
BY DEF CallTypeOK, CallRecord, CallsApart, Phases

\* and so is one that goes on.
LEMMA CallGoes ==
    ASSUME CallTypeOK, NEW t \in Threads, NEW p \in Phases, To(t, p)
    PROVE  CallsApart(t) /\ call'[t].phase = p /\ call'[t].launch = call[t].launch
BY DEF CallTypeOK, CallsApart, Phases, To

\* A call that is over.
LEMMA CallOver ==
    ASSUME CallTypeOK, NEW t \in Threads, call' = [call EXCEPT ![t] = NoCall]
    PROVE  CallsApart(t) /\ call'[t].phase = "idle"
<1>1. NoCall \in CallRecord BY SmallNumbers DEF NoCall, CallRecord, Phases, Answers
<1>2. CallsApart(t) /\ call'[t] = NoCall BY <1>1, CallSet
<1> QED BY <1>2 DEF NoCall

\* Calls that stay.
LEMMA SameCalls ==
    ASSUME CallTypeOK, NEW t \in Threads, UNCHANGED call PROVE CallsApart(t)
BY DEF CallTypeOK, CallsApart

\* A cancel makes every generation read so far an old one and changes nothing else.
LEMMA CallOutdated ==
    ASSUME CallTypeOK
    PROVE  /\ Outdated(call) \in [Threads -> CallRecord]
           /\ \A u \in Threads : Outdated(call)[u].phase = call[u].phase /\ Outdated(call)[u].launch = call[u].launch
<1>1. ASSUME NEW u \in Threads
      PROVE  /\ Outdated(call)[u] \in CallRecord
             /\ Outdated(call)[u].phase = call[u].phase /\ Outdated(call)[u].launch = call[u].launch
  <2>1. call[u] \in CallRecord BY DEF CallTypeOK, CallRecord, Phases
  <2>2. CASE call[u].generation = "current"
    <3>1. Outdated(call)[u] = [call[u] EXCEPT !.generation = "old"] BY <2>2 DEF Outdated
    <3> QED BY <2>1, <3>1 DEF CallRecord
  <2>3. CASE call[u].generation # "current"
    <3>1. Outdated(call)[u] = call[u] BY <2>3 DEF Outdated
    <3> QED BY <2>1, <3>1
  <2> QED BY <2>2, <2>3
<1>2. Outdated(call) \in [Threads -> CallRecord] BY <1>1 DEF Outdated
<1> QED BY <1>1, <1>2

\* A stop waits for the locks, the endpoint and its answer.
LEMMA StopCalls ==
    ASSUME CallTypeOK, NEW t \in Threads, StopStep(t)
    PROVE  /\ CallsApart(t) /\ call'[t].phase \in Stopping \cup {"stopped", "unstopped"}
           /\ UNCHANGED locks /\ call'[t].launch = call[t].launch
<1>1. CASE Terminate(t) \/ Forget(t)
  <2>1. \E p \in {"forget", "unstopped", "stopped"} : To(t, p) /\ UNCHANGED locks
    BY <1>1 DEF Terminate, Forget
  <2> QED BY <2>1, CallGoes DEF Phases, Stopping, Answers
<1>2. CASE Cancel(t)
  <2> DEFINE o == Outdated(call)
  <2>1. o \in [Threads -> CallRecord] /\ \A u \in Threads : o[u].phase = call[u].phase /\ o[u].launch = call[u].launch
    BY CallOutdated
  <2>2. call' = [o EXCEPT ![t].phase = "terminate"] /\ UNCHANGED locks BY <1>2 DEF Cancel
  <2> HIDE DEF o
  <2>3. call' \in [Threads -> CallRecord] BY <2>1, <2>2 DEF CallRecord, Phases, Stopping
  <2>4. call'[t].phase = "terminate" /\ call'[t].launch = call[t].launch BY <2>1, <2>2 DEF CallRecord
  <2>5. \A u \in Threads \ {t} : call'[u] = o[u] BY <2>1, <2>2
  <2> QED BY <2>1, <2>2, <2>3, <2>4, <2>5 DEF CallsApart, CallTypeOK, CallRecord, Phases, Stopping
<1> QED BY <1>1, <1>2 DEF StopStep

\* A launch waits for the locks, its endpoint, the end of that, and its answer.
LEMMA LaunchCalls ==
    ASSUME CallTypeOK, StoreInv, WorkerCalls, NEW key \in Keys, LaunchStep(Worker, key, TRUE, TRUE)
    PROVE  /\ CallsApart(Worker) /\ call'[Worker].phase \in (Launching \ {"releasing"}) \cup {"started", "refused"}
           /\ call'[Worker].phase \in {"wait", "decide", "fail"} =>
                  call'[Worker].launch \in Launches /\ process'[call'[Worker].launch] # "none"
           /\ UNCHANGED hardwareVars
<1>0. Worker \in Threads /\ StartedKept BY SmallNumbers, LaunchStore DEF StoreIsKept
<1> USE DEF Phases, Launching, Answers
<1>1. CASE EnterLaunch(Worker)
  <2>1. To(Worker, "refused") \/ To(Worker, "locked") BY <1>1 DEF EnterLaunch
  <2> QED BY <1>0, <1>1, <2>1, CallGoes DEF EnterLaunch
<1>2. CASE FindRunning(Worker, key) \/ CannotStart(Worker, key, TRUE, TRUE)
  <2>1. (To(Worker, "started") \/ To(Worker, "refused")) /\ UNCHANGED hardwareVars
    BY <1>2 DEF FindRunning, CannotStart
  <2> QED BY <1>0, <2>1, CallGoes
<1>3. CASE FindLaunched(Worker, key, TRUE) \/ Released(Worker)
  BY <1>3 DEF FindLaunched, Released, In, WorkerCalls
<1>4. CASE Start(Worker, key, TRUE)
  <2> DEFINE n == NextLaunch
             c == [call[Worker] EXCEPT !.phase = "wait", !.launch = n]
  <2>1. n \in Launches /\ process[n] = "none" BY <1>4, NextIsFree DEF Start, StoreInv
  <2>2. n \in 0..MaxLaunches BY <2>1, SmallNumbers DEF Launches
  <2>3. call[Worker] \in CallRecord BY <1>0 DEF CallTypeOK, CallRecord
  <2>4. c \in CallRecord /\ c.phase = "wait" /\ c.launch = n BY <2>2, <2>3 DEF CallRecord
  <2>5. call' = [call EXCEPT ![Worker] = c] BY <1>4, <1>0 DEF Start, CallTypeOK
  <2>6. process'[n] # "none" BY <1>4, <2>1 DEF Start, StoreInv, StoreTypeOK
  <2>7. UNCHANGED hardwareVars BY <1>4 DEF Start
  <2> HIDE DEF n, c
  <2>8. CallsApart(Worker) /\ call'[Worker] = c BY <1>0, <2>4, <2>5, CallSet
  <2> QED BY <2>1, <2>4, <2>6, <2>7, <2>8
<1>5. CASE Wait(Worker) \/ Decide(Worker) \/ Deadline(Worker)
  <2>1. \E p \in {"fail", "decide", "wait", "started"} : To(Worker, p)
    BY <1>5 DEF Wait, Decide, Deadline
  <2>2. call[Worker].phase \in {"wait", "decide"} /\ UNCHANGED hardwareVars
    BY <1>5 DEF Wait, Decide, Deadline, In
  <2>3. call[Worker].launch \in Launches /\ process[call[Worker].launch] # "none" BY <2>2 DEF WorkerCalls
  <2> QED BY <1>0, <2>1, <2>2, <2>3, CallGoes DEF StartedKept
<1>6. CASE Fail(Worker)
  <2>1. To(Worker, "record") /\ UNCHANGED hardwareVars BY <1>6 DEF Fail
  <2> QED BY <1>0, <2>1, CallGoes
<1>7. CASE RecordFailure(Worker, key, TRUE)
  <2>1. To(Worker, "refused") /\ UNCHANGED hardwareVars BY <1>7 DEF RecordFailure
  <2> QED BY <1>0, <2>1, CallGoes
<1> QED BY <1>1, <1>2, <1>3, <1>4, <1>5, <1>6, <1>7 DEF LaunchStep

LocksApart(t) == LocksTypeOK' /\ \A u \in Threads \ {t} : locks["state"] = u => locks'["state"] = u

\* A lock that was free is taken from nobody.
LEMMA LockTaken ==
    ASSUME LocksTypeOK, NEW t \in Threads, NEW l \in {"state", "launch", "attempt"}, Takes(t, l)
    PROVE  LocksApart(t)
BY ThreadsAssumption DEF LocksTypeOK, LocksApart, Takes, Free

\* A thread gives back only locks of its own.
LEMMA LockGiven ==
    ASSUME LocksTypeOK, NEW t \in Threads, NEW ls, Gives(t, ls)
    PROVE  LocksApart(t)
<1>1. DOMAIN locks = {"state", "launch", "attempt"} BY DEF LocksTypeOK
<1>2. LocksTypeOK' BY <1>1 DEF Gives, LocksTypeOK
<1>3. \A u \in Threads \ {t} : locks["state"] = u => locks'["state"] = u BY <1>1 DEF Gives
<1> QED BY <1>2, <1>3 DEF LocksApart

\* Locks not touched are kept.
LEMMA SameLocks ==
    ASSUME LocksTypeOK, NEW t \in Threads, UNCHANGED locks PROVE LocksApart(t)
BY DEF LocksTypeOK, LocksApart

\* A launch leaves the locks of the others.
LEMMA LaunchLocks ==
    ASSUME LocksTypeOK, NEW t \in Threads, NEW key, LaunchStep(t, key, TRUE, TRUE) PROVE LocksApart(t)
<1>1. UNCHANGED locks \/ Takes(t, "launch") \/ \E ls : Gives(t, ls)
  BY DEF LaunchStep, EnterLaunch, FindRunning, FindLaunched, Start, CannotStart, Wait, Decide, Deadline,
         Fail, RecordFailure, Released
<1> QED BY <1>1, LockTaken, LockGiven, SameLocks

StepsApart(t) == \A u \in Threads \ {t} : step'[u] = step[u] /\ routine'[u] = routine[u]

\* A routine is one thread's.
LEMMA RoutineApart ==
    ASSUME HardwareTypeOK, NEW t \in Threads,
           HardwareStep(t) \/ Forgets(t) \/ (\E r \in Routines : Calls(t, r)) \/ UNCHANGED hardwareVars
           \/ (t = Worker /\ RecoverHardware)
    PROVE  StepsApart(t)
<1>1. step' = step \/ \E s : step' = [step EXCEPT ![t] = s]
  BY DEF HardwareStep, EnterAttach, Record, Inspect, Issue, Enumerate, GivesUp, EnterRelease, Quiesce, Detach, Absent,
         Moves, Leaves, Forgets, Calls, hardwareVars, RecoverHardware
<1>2. routine' = routine \/ \E r : routine' = [routine EXCEPT ![t] = r]
  BY DEF HardwareStep, EnterAttach, Record, Inspect, Issue, Enumerate, GivesUp, EnterRelease, Quiesce, Detach, Absent,
         Moves, Leaves, Forgets, Calls, hardwareVars, RecoverHardware
<1> QED BY <1>1, <1>2 DEF StepsApart, HardwareTypeOK

Apart(t) == CallsApart(t) /\ LocksApart(t) /\ StepsApart(t)

-----------------------------------------------------------------------------
(* The worker.                                                           *)

ThreadTypes == HardwareTypeOK /\ LocksTypeOK /\ CallTypeOK /\ RunTypeOK /\ AtTypeOK

\* Where a step of the worker that leaves endpoint and adapter alone comes from and goes to.
LEMMA AsidePlaces ==
    ASSUME AsideStep, RunTypeOK
    PROVE  /\ run.place \notin {"none", "gate", "gating", "ensure", "ensuring", "begin", "stage", "stopping"} \cup Ending
           /\ At("launch") => call[Worker].phase \in {"started", "refused"}
           /\ run'.place \notin {"none", "gating", "ensuring", "launch", "stopping", "releasing"}
<1> USE DEF At, Go, Fails, Ending
<1>1. CASE Preflight BY <1>1 DEF Preflight, Opening, RunTypeOK
<1>2. CASE HardwareGate \/ AwaitContinue \/ Entry \/ CreateRoom \/ RegisterRoom \/ JoinRoom \/ WriteToken
  BY <1>2 DEF HardwareGate, AwaitContinue, Entry, CreateRoom, RegisterRoom, JoinRoom, WriteToken, RunTypeOK
<1>3. CASE RegisterCredential \/ Launched \/ Watch \/ StopPeer \/ CloseRoom \/ RoomClosed
  BY <1>3 DEF RegisterCredential, Launched, Watch, StopPeer, CloseRoom, RoomClosed, RunTypeOK, In
<1>4. CASE DeleteCredential \/ CredentialDeleted \/ BeginCleanup
  BY <1>4 DEF DeleteCredential, CredentialDeleted, BeginCleanup, RunTypeOK
<1>5. CASE NextRound
  BY <1>5 DEF NextRound, RunTypeOK, Opening
<1> QED BY <1>1, <1>2, <1>3, <1>4, <1>5 DEF AsideStep

\* The routine a thread is in has been called.
LEMMA BusyStep == ASSUME NEW t, HardwareStep(t) PROVE step[t] \notin Resting
BY DEF HardwareStep, EnterAttach, Record, Inspect, Issue, Enumerate, EnterRelease, Quiesce, Detach, Absent, Resting

\* A worker without a run does nothing.
LEMMA WorkerUnderWay ==
    ASSUME WorkerStep, WorkerBusy, RunTypeOK PROVE ~At("none")
<1>1. CASE AsideStep BY <1>1, AsidePlaces DEF At
<1>2. CASE CallStep
  BY <1>2 DEF CallStep, BeginLaunch, LaunchDiagnostic, Stage, StopsEndpoint, EndpointStopped, At
<1>3. CASE AdapterStep \/ Verdict
  BY <1>3 DEF AdapterStep, EnsureHardware, Attached, ReleaseAtEnd, ReleasedAtEnd, RecoverHardware, Verdict, At
<1>4. CASE Hardware(Worker)
  BY <1>4, BusyStep DEF Hardware, WorkerBusy, At
<1> QED BY <1>1, <1>2, <1>3, <1>4, WorkerSteps

WorkerLocal == WorkerCalls /\ WorkerBusy

\* A worker that waits for neither endpoint nor adapter.
LEMMA WorkerAside ==
    ASSUME ThreadTypes, WorkerLocal,
           run.place \notin {"launch", "stopping"} \/ call[Worker].phase \in Answers,
           run.place \notin {"gating", "ensuring", "releasing"} \/ step[Worker] \in Resting,
           run'.place \notin {"launch", "stopping", "gating", "ensuring", "releasing"},
           UNCHANGED call, UNCHANGED step \/ step'[Worker] \in Resting
    PROVE  WorkerLocal'
<1>1. call[Worker].phase \notin Launching \cup Stopping
  BY DEF WorkerLocal, WorkerCalls, Answers, Launching, Stopping, At
<1>2. step[Worker] \in Resting BY DEF WorkerLocal, WorkerBusy, At
<1> QED BY <1>1, <1>2 DEF WorkerLocal, WorkerCalls, WorkerBusy, At, Launching, Stopping

\* What it does leaves the requests alone and itself where it waits for what it called.
LEMMA WorkerMoves ==
    ASSUME ThreadTypes, StoreInv, WorkerLocal, WorkerStep
    PROVE  Apart(Worker) /\ UNCHANGED at /\ WorkerLocal'
<1>0. Worker \in Threads /\ HardwareTypeOK /\ LocksTypeOK /\ CallTypeOK /\ RunTypeOK
  BY SmallNumbers DEF ThreadTypes
<1>1. CASE AsideStep
  <2>1. Aside BY <1>1, AsideFrame
  <2>2. UNCHANGED <<locks, call, hardwareVars, at>> BY <2>1 DEF Aside, launchVars
  <2>3. /\ run.place \notin {"stopping", "gating", "ensuring", "releasing"}
        /\ At("launch") => call[Worker].phase \in {"started", "refused"}
        /\ run'.place \notin {"none", "gating", "ensuring", "launch", "stopping", "releasing"}
    BY <1>0, <1>1, AsidePlaces DEF Ending
  <2>4. WorkerLocal' BY <2>2, <2>3, WorkerAside DEF At, Answers, hardwareVars
  <2> QED BY <1>0, <2>2, <2>4, SameCalls, SameLocks, RoutineApart DEF Apart
<1>2. CASE BeginLaunch
  <2>1. UNCHANGED <<locks, hardwareVars, at>> /\ At("begin") /\ Go("launch") BY <1>2 DEF BeginLaunch
  <2> DEFINE c == [NoCall EXCEPT !.phase = "enter", !.generation = "current"]
  <2>0. NoCall \in CallRecord BY SmallNumbers DEF NoCall, CallRecord, Phases, Answers
  <2>2. c \in CallRecord /\ c.phase = "enter" BY <2>0 DEF CallRecord, Phases, Launching
  <2>3. call' = [call EXCEPT ![Worker] = c] BY <1>2 DEF BeginLaunch
  <2> HIDE DEF c
  <2>4. CallsApart(Worker) /\ call'[Worker].phase = "enter" BY <1>0, <2>2, <2>3, CallSet
  <2>5. run'.place = "launch" BY <1>0, <2>1 DEF RunTypeOK, Go
  <2>6. WorkerLocal' BY <2>1, <2>4, <2>5 DEF WorkerLocal, WorkerCalls, WorkerBusy, At, Launching, Stopping, hardwareVars
  <2> QED BY <1>0, <2>1, <2>4, <2>6, SameLocks, RoutineApart DEF Apart
<1>3. CASE LaunchDiagnostic
  <2>1. LaunchStep(Worker, run.round, TRUE, TRUE) /\ UNCHANGED <<run, at>> /\ At("launch")
    BY <1>3 DEF LaunchDiagnostic, Diagnostic
  <2>2. run.round \in Keys BY <1>0, DiagnosticAssumption DEF RunTypeOK
  <2>3. /\ CallsApart(Worker) /\ call'[Worker].phase \in (Launching \ {"releasing"}) \cup {"started", "refused"}
        /\ call'[Worker].phase \in {"wait", "decide", "fail"} =>
               call'[Worker].launch \in Launches /\ process'[call'[Worker].launch] # "none"
        /\ UNCHANGED hardwareVars
    BY <1>0, <2>1, <2>2, LaunchCalls DEF WorkerLocal
  <2>4. WorkerCalls' BY <2>1, <2>3 DEF WorkerCalls, At, Launching, Stopping, Launches
  <2>5. WorkerBusy' BY <2>1, <2>3 DEF WorkerLocal, WorkerBusy, At, hardwareVars
  <2> QED BY <1>0, <2>1, <2>3, <2>4, <2>5, LaunchLocks, RoutineApart DEF Apart, WorkerLocal
<1>4. CASE Stage
  <2>1. UNCHANGED <<locks, hardwareVars, at>> /\ At("stage") /\ Go("stopping") /\ To(Worker, "cancel")
    BY <1>4 DEF Stage, To
  <2>2. CallsApart(Worker) /\ call'[Worker].phase = "cancel"
    BY <1>0, <2>1, CallGoes DEF Phases, Stopping
  <2>3. run'.place = "stopping" BY <1>0, <2>1 DEF RunTypeOK, Go
  <2>4. WorkerLocal' BY <2>1, <2>2, <2>3 DEF WorkerLocal, WorkerCalls, WorkerBusy, At, Launching, Stopping, hardwareVars
  <2> QED BY <1>0, <2>1, <2>2, <2>4, SameLocks, RoutineApart DEF Apart
<1>5. CASE StopsEndpoint
  <2>1. StopStep(Worker) /\ UNCHANGED <<run, at>> /\ At("stopping") BY <1>5 DEF StopsEndpoint, Diagnostic
  <2>2. CallsApart(Worker) /\ call'[Worker].phase \in Stopping \cup {"stopped", "unstopped"} /\ UNCHANGED locks
    BY <1>0, <2>1, StopCalls
  <2>3. UNCHANGED hardwareVars BY <2>1, StopFrame
  <2>4. WorkerCalls' BY <2>1, <2>2 DEF WorkerCalls, At, Launching, Stopping
  <2>5. WorkerBusy' BY <2>1, <2>3 DEF WorkerLocal, WorkerBusy, At, hardwareVars
  <2> QED BY <1>0, <2>1, <2>2, <2>3, <2>4, <2>5, SameLocks, RoutineApart DEF Apart, WorkerLocal
<1>6. CASE EndpointStopped
  <2>1. UNCHANGED <<locks, call, hardwareVars, at>> /\ call[Worker].phase \in Answers BY <1>6 DEF EndpointStopped, In, Answers
  <2>2. At("stopping") /\ run'.place \in {"peer", "verdict"} BY <1>0, <1>6 DEF EndpointStopped, RunTypeOK, Go
  <2>3. WorkerLocal' BY <2>1, <2>2, WorkerAside DEF At, hardwareVars
  <2> QED BY <1>0, <2>1, <2>3, SameCalls, SameLocks, RoutineApart DEF Apart
<1>7. CASE EnsureHardware
  <2>0. UNCHANGED <<locks, call, at>> /\ run.place \in {"gate", "ensure"}
    BY <1>7 DEF EnsureHardware, CallsHardware, launchVars, At
  <2>1. CASE run.acquired
    <3>1. UNCHANGED hardwareVars BY <1>7, <2>1 DEF EnsureHardware
    <3>2. run'.place \in {"check", "create", "final", "stage"}
      BY <1>0, <1>7, <2>1 DEF EnsureHardware, Go, Fails, Finally, RunTypeOK
    <3>3. WorkerLocal' BY <2>0, <3>1, <3>2, WorkerAside DEF hardwareVars
    <3> QED BY <1>0, <2>0, <3>1, <3>3, SameCalls, SameLocks, RoutineApart DEF Apart
  <2>2. CASE ~run.acquired
    <3>1. Calls(Worker, "attachOnly") BY <1>7, <2>2 DEF EnsureHardware, CallsHardware
    <3>2. run'.place \in {"gating", "ensuring"} BY <1>0, <1>7, <2>2 DEF EnsureHardware, Go, RunTypeOK
    <3>3. routine'[Worker] = "attachOnly" BY <1>0, <3>1 DEF Calls, HardwareTypeOK
    <3>4. WorkerBusy' BY <3>2, <3>3 DEF WorkerBusy, At
    <3>5. WorkerCalls' BY <2>0, <3>2 DEF WorkerLocal, WorkerCalls, At, Launching, Stopping
    <3>6. "attachOnly" \in Routines BY DEF Routines
    <3> QED BY <1>0, <2>0, <3>1, <3>4, <3>5, <3>6, SameCalls, SameLocks, RoutineApart DEF Apart, WorkerLocal
  <2> QED BY <2>1, <2>2
<1>8. CASE Attached \/ ReleasedAtEnd
  <2>1. UNCHANGED <<locks, call, at>> /\ Forgets(Worker) /\ run.place \in {"gating", "ensuring", "releasing"}
    BY <1>8 DEF Attached, ReleasedAtEnd, launchVars, At
  <2>2. run'.place \in {"check", "create", "final", "stage", "verdict"}
    BY <1>0, <1>8 DEF Attached, ReleasedAtEnd, Finally, RunTypeOK
  <2>3. step[Worker] \in Resting /\ step'[Worker] \in Resting
    BY <1>0, <2>1 DEF Forgets, Moves, Resting, HardwareTypeOK
  <2>4. WorkerLocal' BY <2>1, <2>2, <2>3, WorkerAside
  <2> QED BY <1>0, <2>1, <2>4, SameCalls, SameLocks, RoutineApart DEF Apart
<1>9. CASE ReleaseAtEnd \/ RecoverHardware
  <2>0. UNCHANGED <<locks, call, at>> /\ run.place = "cleaned"
    BY <1>9 DEF ReleaseAtEnd, RecoverHardware, CallsHardware, Aside, launchVars, At
  <2>1. CASE UNCHANGED <<step, routine>> /\ run'.place = "verdict"
    <3>1. WorkerLocal' BY <2>0, <2>1, WorkerAside
    <3>2. StepsApart(Worker) BY <2>1 DEF StepsApart
    <3> QED BY <1>0, <2>0, <3>1, <3>2, SameCalls, SameLocks DEF Apart
  <2>2. CASE /\ step' = [step EXCEPT ![Worker] = "enter"] /\ routine' = [routine EXCEPT ![Worker] = "release"]
             /\ run'.place = "releasing"
    <3>1. routine'[Worker] = "release" BY <1>0, <2>2 DEF HardwareTypeOK
    <3>2. WorkerBusy' BY <2>2, <3>1 DEF WorkerBusy, At
    <3>3. WorkerCalls' BY <2>0, <2>2 DEF WorkerLocal, WorkerCalls, At, Launching, Stopping
    <3>4. StepsApart(Worker) BY <1>0, <2>2 DEF StepsApart, HardwareTypeOK
    <3> QED BY <1>0, <2>0, <3>2, <3>3, <3>4, SameCalls, SameLocks DEF Apart, WorkerLocal
  <2>3. CASE ReleaseAtEnd
    BY <1>0, <2>1, <2>2, <2>3 DEF ReleaseAtEnd, CallsHardware, Calls, Aside, hardwareVars, RunTypeOK
  <2>4. CASE RecoverHardware
    BY <1>0, <2>1, <2>2, <2>4 DEF RecoverHardware, Go, RunTypeOK
  <2> QED BY <1>9, <2>3, <2>4
<1>10. CASE Verdict
  <2>1. UNCHANGED <<locks, call, hardwareVars, at>> /\ At("verdict") /\ run'.place = "none"
    BY <1>10 DEF Verdict, launchVars, NoRun
  <2>2. WorkerLocal' BY <2>1, WorkerAside DEF At, hardwareVars
  <2> QED BY <1>0, <2>1, <2>2, SameCalls, SameLocks, RoutineApart DEF Apart
<1>11. CASE Hardware(Worker)
  <2>1. UNCHANGED <<locks, call, at, run>> /\ HardwareStep(Worker) BY <1>11 DEF Hardware, launchVars, Diagnostic
  <2>2. UNCHANGED routine
    BY <2>1 DEF HardwareStep, EnterAttach, Record, Inspect, Issue, Enumerate, GivesUp, EnterRelease, Quiesce, Detach,
                Absent, Moves, Leaves
  <2>3. WorkerBusy' BY <2>1, <2>2, BusyStep DEF WorkerLocal, WorkerBusy, At
  <2>4. WorkerCalls' BY <2>1, <2>3, <1>11 DEF WorkerLocal, WorkerCalls, At, Hardware, launchVars, Processes
  <2> QED BY <1>0, <2>1, <2>3, <2>4, SameCalls, SameLocks, RoutineApart DEF Apart, WorkerLocal
<1> QED
  BY <1>1, <1>2, <1>3, <1>4, <1>5, <1>6, <1>7, <1>8, <1>9, <1>10, <1>11, WorkerSteps DEF CallStep, AdapterStep

-----------------------------------------------------------------------------
(* The requests.                                                         *)

RequestLocal(t) == RequestCalls(t) /\ RequestBusy(t)

\* A request that waits for neither endpoint nor adapter.
LEMMA RequestAside ==
    ASSUME NEW t \in Requesters, RequestLocal(t),
           at[t] # "teardown" \/ call[t].phase \in Answers,
           at[t] \notin {"returning", "starting", "borrowing"} \/ step[t] \in Resting,
           at'[t] # "teardown",
           call'[t].phase = call[t].phase \/ call'[t].phase = "idle",
           step'[t] = step[t] \/ step'[t] \in Resting
    PROVE  RequestLocal(t)'
<1>1. call[t].phase \notin Launching \cup Stopping
  BY DEF RequestLocal, RequestCalls, Answers, Launching, Stopping
<1>2. step[t] \in Resting BY DEF RequestLocal, RequestBusy
<1> QED BY <1>1, <1>2 DEF RequestLocal, RequestCalls, RequestBusy, Launching, Stopping

\* The other requests stay where they are.
AtApart(t) == AtTypeOK' /\ \A u \in Requesters \ {t} : at'[u] = at[u]

\* A request that goes on is one thread's.
LEMMA AtGoes ==
    ASSUME AtTypeOK, NEW t \in Requesters, NEW p \in RequestPlaces, Continues(t, p)
    PROVE  AtApart(t) /\ at'[t] = p
BY DEF AtTypeOK, Continues, AtApart

\* Requests that stay.
LEMMA SameAt ==
    ASSUME AtTypeOK, NEW t \in Requesters, UNCHANGED at PROVE AtApart(t)
BY DEF AtTypeOK, AtApart

\* Each step of a request leaves it where it waits for what it called.
LEMMA RequestMoves ==
    ASSUME ThreadTypes, NEW t \in Requesters, RequestLocal(t), Request(t) \/ RequestStep(t)
    PROVE  Apart(t) /\ AtApart(t) /\ RequestLocal(t)'
<1>0. t \in Threads /\ HardwareTypeOK /\ LocksTypeOK /\ CallTypeOK /\ AtTypeOK
  BY DEF ThreadTypes, Requesters
<1> USE DEF RequestPlaces
<1>1. ASSUME UNCHANGED <<hardwareVars, launchVars>>, at[t] \notin {"teardown", "returning", "starting", "borrowing"},
             NEW p \in RequestPlaces \ {"teardown"}, Continues(t, p)
      PROVE  Apart(t) /\ AtApart(t) /\ RequestLocal(t)'
  <2>1. UNCHANGED <<locks, call, step>> BY <1>1 DEF launchVars, hardwareVars
  <2>2. AtApart(t) /\ at'[t] = p BY <1>0, <1>1, AtGoes
  <2>3. RequestLocal(t)' BY <1>1, <2>1, <2>2, RequestAside
  <2> QED BY <1>0, <1>1, <2>1, <2>2, <2>3, SameCalls, SameLocks, RoutineApart DEF Apart
<1>2. CASE Cancels(t) \/ Shutdown(t) \/ Stops(t) \/ Checks(t)
  BY <1>1, <1>2 DEF Cancels, Shutdown, Stops, Checks, Receives
<1>3. CASE ContinuesRun(t)
  <2>1. UNCHANGED <<locks, call, step, hardwareVars, at>> /\ at[t] = "idle"
    BY <1>3 DEF ContinuesRun, Receives, launchVars, hardwareVars
  <2>2. RequestLocal(t)' BY <2>1, RequestAside
  <2> QED BY <1>0, <2>1, <2>2, SameCalls, SameLocks, RoutineApart, SameAt DEF Apart
<1>4. CASE WaitForIdle(t)
  BY <1>1, <1>4 DEF WaitForIdle
<1>5. CASE CancelsLaunch(t)
  <2>1. /\ UNCHANGED <<locks, hardwareVars, step>> /\ call' = Outdated(call) /\ at[t] \in {"cancel", "shutdown"}
        /\ Continues(t, "idle") \/ Continues(t, "waiting")
    BY <1>5 DEF CancelsLaunch, hardwareVars
  <2>2. CallsApart(t) /\ call'[t].phase = call[t].phase
    BY <1>0, <2>1, CallOutdated DEF CallsApart, CallTypeOK, CallRecord, Phases
  <2>3. AtApart(t) /\ at'[t] \in {"idle", "waiting"} BY <1>0, <2>1, AtGoes
  <2>4. RequestLocal(t)' BY <2>1, <2>2, <2>3, RequestAside
  <2> QED BY <1>0, <2>1, <2>2, <2>3, <2>4, SameLocks, RoutineApart DEF Apart
<1>6. CASE EndSession(t)
  <2>1. /\ Takes(t, "state") /\ Continues(t, "teardown") /\ To(t, "cancel") /\ UNCHANGED hardwareVars
        /\ at[t] = "ending"
    BY <1>6 DEF EndSession, To
  <2>2. CallsApart(t) /\ call'[t].phase = "cancel" BY <1>0, <2>1, CallGoes DEF Phases, Stopping
  <2>3. AtApart(t) /\ at'[t] = "teardown" BY <1>0, <2>1, AtGoes
  <2>4. LocksApart(t) /\ locks'["state"] = t BY <1>0, <2>1, LockTaken DEF Takes, LocksTypeOK
  <2>5. RequestCalls(t)' BY <2>2, <2>3, <2>4 DEF RequestCalls, Launching, Stopping
  <2>6. RequestBusy(t)' BY <2>1 DEF RequestLocal, RequestBusy, hardwareVars
  <2> QED BY <1>0, <2>1, <2>2, <2>3, <2>4, <2>5, <2>6, RoutineApart DEF Apart, RequestLocal
<1>7. CASE Teardown(t)
  <2>0. at[t] = "teardown" BY <1>7 DEF Teardown
  <2>1. CASE StopStep(t) /\ UNCHANGED at
    <3>1. /\ CallsApart(t) /\ call'[t].phase \in Stopping \cup {"stopped", "unstopped"} /\ UNCHANGED locks
      BY <1>0, <2>1, StopCalls
    <3>2. UNCHANGED hardwareVars BY <2>1, StopFrame
    <3>3. RequestCalls(t)' BY <2>0, <2>1, <3>1 DEF RequestLocal, RequestCalls, Launching, Stopping
    <3>4. RequestBusy(t)' BY <2>0, <2>1, <3>2 DEF RequestLocal, RequestBusy, hardwareVars
    <3> QED BY <1>0, <2>1, <3>1, <3>2, <3>3, <3>4, SameLocks, SameAt, RoutineApart DEF Apart, RequestLocal
  <2>2. CASE /\ In(t, "stopped") /\ Calls(t, "release") /\ Continues(t, "returning") /\ Gives(t, {"state"})
             /\ UNCHANGED call
    <3>1. AtApart(t) /\ at'[t] = "returning" BY <1>0, <2>2, AtGoes
    <3>2. step'[t] = "enter" /\ routine'[t] = "release" BY <1>0, <2>2 DEF Calls, HardwareTypeOK
    <3>3. RequestCalls(t)' BY <2>2, <3>1 DEF In, RequestCalls, Launching, Stopping
    <3>4. RequestBusy(t)' BY <3>1, <3>2 DEF RequestBusy
    <3>5. "release" \in Routines BY DEF Routines
    <3> QED BY <1>0, <2>2, <3>1, <3>3, <3>4, <3>5, SameCalls, LockGiven, RoutineApart DEF Apart, RequestLocal
  <2>3. CASE /\ In(t, "unstopped") /\ Continues(t, "idle") /\ Gives(t, {"state"}) /\ call' = [call EXCEPT ![t] = NoCall]
             /\ UNCHANGED hardwareVars
    <3>1. AtApart(t) /\ at'[t] = "idle" BY <1>0, <2>3, AtGoes
    <3>2. CallsApart(t) /\ call'[t].phase = "idle" BY <1>0, <2>3, CallOver
    <3>3. RequestLocal(t)' BY <2>0, <2>3, <3>1, <3>2, RequestAside DEF In, Answers, hardwareVars
    <3> QED BY <1>0, <2>3, <3>1, <3>2, <3>3, LockGiven, RoutineApart DEF Apart
  <2> QED BY <1>7, <2>1, <2>2, <2>3 DEF Teardown
<1>8. CASE Returned(t)
  <2>1. /\ Forgets(t) /\ Continues(t, "idle") /\ call' = [call EXCEPT ![t] = NoCall] /\ UNCHANGED locks
        /\ at[t] \in {"returning", "starting"}
    BY <1>8 DEF Returned
  <2>2. AtApart(t) /\ at'[t] = "idle" BY <1>0, <2>1, AtGoes
  <2>3. CallsApart(t) /\ call'[t].phase = "idle" BY <1>0, <2>1, CallOver
  <2>4. step[t] \in Resting /\ step'[t] \in Resting BY <1>0, <2>1 DEF Forgets, Moves, Resting, HardwareTypeOK
  <2>5. RequestLocal(t)' BY <2>1, <2>2, <2>3, <2>4, RequestAside
  <2> QED BY <1>0, <2>1, <2>2, <2>3, <2>5, SameLocks, RoutineApart DEF Apart
<1>9. ASSUME NEW r \in Routines, Calls(t, r), NEW p \in RequestPlaces \ {"teardown"}, Continues(t, p), UNCHANGED launchVars,
             IF r = "release" THEN p \in {"returning", "starting"} ELSE p = "borrowing", at[t] # "teardown"
      PROVE  Apart(t) /\ AtApart(t) /\ RequestLocal(t)'
  <2>1. AtApart(t) /\ at'[t] = p BY <1>0, <1>9, AtGoes
  <2>2. step'[t] = "enter" /\ routine'[t] = r BY <1>0, <1>9 DEF Calls, HardwareTypeOK
  <2>3. UNCHANGED <<locks, call>> BY <1>9 DEF launchVars
  <2>4. RequestBusy(t)' BY <1>9, <2>1, <2>2 DEF RequestBusy
  <2>5. RequestCalls(t)' BY <1>9, <2>1, <2>3 DEF RequestLocal, RequestCalls
  <2> QED BY <1>0, <1>9, <2>1, <2>3, <2>4, <2>5, SameCalls, SameLocks, RoutineApart DEF Apart, RequestLocal
<1>10. CASE Borrows(t)
  <2>1. Calls(t, "attach") /\ Continues(t, "borrowing") /\ UNCHANGED launchVars /\ at[t] # "teardown"
    BY <1>10 DEF Borrows
  <2> QED BY <2>1, <1>9 DEF Routines
<1>11. CASE Borrowed(t)
  <2>1. CASE Calls(t, "release") /\ Continues(t, "returning")
    <3>1. UNCHANGED launchVars /\ at[t] # "teardown" BY <1>11 DEF Borrowed
    <3> QED BY <2>1, <3>1, <1>9 DEF Routines
  <2>2. CASE Forgets(t) /\ Continues(t, "idle")
    <3>1. UNCHANGED <<locks, call>> /\ at[t] = "borrowing" BY <1>11 DEF Borrowed, launchVars
    <3>2. AtApart(t) /\ at'[t] = "idle" BY <1>0, <2>2, AtGoes
    <3>3. step[t] \in Resting /\ step'[t] \in Resting BY <1>0, <2>2 DEF Forgets, Moves, Resting, HardwareTypeOK
    <3>4. RequestLocal(t)' BY <3>1, <3>2, <3>3, RequestAside
    <3> QED BY <1>0, <2>2, <3>1, <3>2, <3>4, SameCalls, SameLocks, RoutineApart DEF Apart
  <2> QED BY <1>11, <2>1, <2>2 DEF Borrowed
<1>12. CASE Hardware(t)
  <2>1. UNCHANGED <<locks, call, at>> /\ HardwareStep(t) BY <1>12 DEF Hardware, launchVars
  <2>2. UNCHANGED routine
    BY <2>1 DEF HardwareStep, EnterAttach, Record, Inspect, Issue, Enumerate, GivesUp, EnterRelease, Quiesce, Detach,
                Absent, Moves, Leaves
  <2>3. RequestBusy(t)' BY <2>1, <2>2, BusyStep DEF RequestLocal, RequestBusy
  <2>4. RequestCalls(t)' BY <2>1 DEF RequestLocal, RequestCalls
  <2> QED BY <1>0, <2>1, <2>3, <2>4, SameCalls, SameLocks, SameAt, RoutineApart DEF Apart, RequestLocal
<1> QED
  BY <1>2, <1>3, <1>4, <1>5, <1>6, <1>7, <1>8, <1>10, <1>11, <1>12 DEF Request, RequestStep

\* What another thread does leaves a request, and the worker, where it waits.
LEMMA OthersKept ==
    ASSUME NEW t \in Threads, Apart(t), NEW u \in Requesters, u # t, at'[u] = at[u], RequestLocal(u)
    PROVE  RequestLocal(u)'
<1>1. /\ call'[u].phase = call[u].phase /\ step'[u] = step[u] /\ routine'[u] = routine[u]
      /\ locks["state"] = u => locks'["state"] = u
  BY DEF Apart, CallsApart, LocksApart, StepsApart, Requesters
<1> QED BY <1>1 DEF RequestLocal, RequestCalls, RequestBusy

\* The worker waits for the same.
LEMMA WorkerKept ==
    ASSUME NEW t \in Requesters, Apart(t), StartedKept, run'.place = run.place, WorkerLocal
    PROVE  WorkerLocal'
<1>1. /\ call'[Worker].phase = call[Worker].phase /\ call'[Worker].launch = call[Worker].launch
      /\ step'[Worker] = step[Worker] /\ routine'[Worker] = routine[Worker]
  BY SmallNumbers DEF Apart, CallsApart, LocksApart, StepsApart, Requesters
<1>2. WorkerCalls' BY <1>1 DEF WorkerLocal, WorkerCalls, At, StartedKept, Launches
<1>3. WorkerBusy' BY <1>1 DEF WorkerLocal, WorkerBusy, At
<1> QED BY <1>2, <1>3 DEF WorkerLocal

-----------------------------------------------------------------------------
(* The threads together.                                                 *)

\* A request leaves the run where it is, and what it and its cleanup have.
LEMMA RequestFrame ==
    ASSUME RunTypeOK, NEW t, Request(t) \/ RequestStep(t)
    PROVE  /\ UNCHANGED <<Disk, d7, incomplete, orphan>> /\ (serving => serving')
           /\ run'.place = run.place /\ run'.clean = run.clean
<1>1. CASE Request(t)
  <2>1. UNCHANGED <<Disk, d7, incomplete, orphan, serving>>
    BY <1>1 DEF Request, Cancels, ContinuesRun, Shutdown, Stops, Checks, Receives, Diagnostic
  <2>2. UNCHANGED run \/ run' = [run EXCEPT !.canceled = TRUE] \/ run' = [run EXCEPT !.continued = TRUE]
        \/ run' = [run EXCEPT !.canceled = @ \/ Active]
    BY <1>1 DEF Request, Cancels, ContinuesRun, Shutdown, Stops, Checks, Diagnostic
  <2> QED BY <2>1, <2>2 DEF RunTypeOK
<1>2. CASE RequestStep(t)
  BY <1>2 DEF RequestStep, CancelsLaunch, WaitForIdle, EndSession, Teardown, Returned, Borrows, Borrowed,
              Hardware, Diagnostic, Life
<1> QED BY <1>1, <1>2

\* Only a service that serves takes a request, and only its start-up is taken before it does.
LEMMA RequestServes ==
    ASSUME AtTypeOK, NEW t \in Requesters, RequestLocal(t), Serving(t), Request(t) \/ RequestStep(t)
    PROVE  /\ serving \/ at[t] = "starting"
           /\ at'[t] = "starting" => at[t] = "starting" /\ UNCHANGED serving
           /\ at[t] = "starting" => at'[t] \in {"starting", "idle"}
<1> USE DEF AtTypeOK, Continues
<1>1. CASE Request(t)
  <2>1. serving /\ at[t] = "idle" BY <1>1 DEF Request, Cancels, ContinuesRun, Shutdown, Stops, Checks, Receives
  <2>2. at'[t] # "starting"
    BY <1>1, <2>1 DEF Request, Cancels, ContinuesRun, Shutdown, Stops, Checks
  <2> QED BY <2>1, <2>2
<1>2. CASE Hardware(t)
  <2>1. at[t] # "idle" /\ UNCHANGED <<at, serving>>
    BY <1>2, BusyStep DEF Hardware, Life, RequestLocal, RequestBusy
  <2> QED BY <2>1 DEF Serving
<1>3. CASE Returned(t)
  BY <1>3 DEF Returned, Serving
<1>4. CASE CancelsLaunch(t) \/ WaitForIdle(t) \/ EndSession(t) \/ Teardown(t) \/ Borrows(t) \/ Borrowed(t)
  <2>1. at[t] \notin {"idle", "starting"}
    BY <1>4 DEF CancelsLaunch, WaitForIdle, EndSession, Teardown, Borrows, Borrowed
  <2>2. at'[t] # "starting"
    BY <1>4, <2>1 DEF CancelsLaunch, WaitForIdle, EndSession, Teardown, Borrows, Borrowed
  <2> QED BY <2>1, <2>2 DEF Serving
<1> QED BY <1>1, <1>2, <1>3, <1>4 DEF RequestStep

CountedTypes == LocksTypeOK /\ CallTypeOK /\ AtTypeOK

\* What no thread does.
LEMMA ThreadsStay ==
    ASSUME ThreadTypes, ThreadsInv, UNCHANGED <<locks, call, step, routine, at, serving>>,
           run'.place = run.place, recovery'.exists = recovery.exists, StartedKept
    PROVE  CountedTypes' /\ ThreadsInv'
<1>1. CountedTypes' BY DEF ThreadTypes, CountedTypes, LocksTypeOK, CallTypeOK, AtTypeOK
<1>2. WorkerCalls' BY DEF ThreadsInv, WorkerCalls, At, StartedKept, Launches
<1>3. WorkerBusy' BY DEF ThreadsInv, WorkerBusy, At
<1>4. \A t \in Requesters : RequestCalls(t)' /\ RequestBusy(t)'
  BY DEF ThreadsInv, RequestCalls, RequestBusy
<1>5. \A t \in Requesters : Serving(t)'
  BY DEF ThreadsInv, Serving, At
<1> QED BY <1>1, <1>2, <1>3, <1>4, <1>5 DEF ThreadsInv, Requesters

\* Every step keeps the threads in order.
LEMMA ThreadsSteps ==
    ASSUME TypeInv, StoreInv, ThreadsInv, StoreIsKept, [Next \/ Idle]_vars
    PROVE  CountedTypes' /\ ThreadsInv'
<1>0. /\ ThreadTypes /\ WorkerLocal /\ \A u \in Requesters : RequestLocal(u) /\ Serving(u)
      /\ HardwareTypeOK /\ LocksTypeOK /\ CallTypeOK /\ RunTypeOK /\ AtTypeOK /\ StartedKept /\ DiskTypeOK
  BY TypesSplit DEF ThreadTypes, ThreadsInv, WorkerLocal, RequestLocal, StoreIsKept
<1>a. Worker \in Threads /\ Requesters = Threads \ {Worker} BY SmallNumbers DEF Requesters
<1>b. ASSUME WorkerLocal', \A u \in Requesters : RequestLocal(u)' /\ Serving(u)' PROVE ThreadsInv'
  BY <1>b DEF ThreadsInv, WorkerLocal, RequestLocal, Requesters
<1>1. CASE WorkerStep
  <2>1. Apart(Worker) /\ UNCHANGED at /\ WorkerLocal' BY <1>0, <1>1, WorkerMoves
  <2>2. \A u \in Requesters : RequestLocal(u)' BY <1>0, <1>a, <2>1, OthersKept
  <2>3. ~At("none") BY <1>0, <1>1, WorkerUnderWay DEF WorkerLocal
  <2>4. serving => serving'
    <3>1. AsideStep => UNCHANGED serving BY AsideFrame DEF Aside, Life
    <3>2. CallStep \/ AdapterStep \/ Hardware(Worker) => UNCHANGED serving
      BY DEF CallStep, BeginLaunch, LaunchDiagnostic, Stage, StopsEndpoint, EndpointStopped, AdapterStep, EnsureHardware,
             Attached, ReleaseAtEnd, ReleasedAtEnd, RecoverHardware, CallsHardware, Aside, Life, Hardware
    <3>3. Verdict => serving' BY DEF Verdict
    <3> QED BY <1>1, <3>1, <3>2, <3>3, WorkerSteps
  <2>5. \A u \in Requesters : Serving(u)' BY <1>0, <2>1, <2>3, <2>4 DEF Serving
  <2>6. CountedTypes' BY <2>1, <1>0 DEF Apart, CallsApart, LocksApart, CountedTypes, AtTypeOK
  <2> QED BY <1>b, <2>1, <2>2, <2>5, <2>6
<1>2. ASSUME NEW t \in Requesters, Request(t) \/ RequestStep(t) PROVE CountedTypes' /\ ThreadsInv'
  <2>1. Apart(t) /\ AtApart(t) /\ RequestLocal(t)' BY <1>0, <1>2, RequestMoves
  <2>2. /\ UNCHANGED <<Disk, d7, incomplete, orphan>> /\ (serving => serving')
        /\ run'.place = run.place /\ run'.clean = run.clean
    BY <1>0, <1>2, RequestFrame
  <2>3. /\ serving \/ at[t] = "starting"
        /\ at'[t] = "starting" => at[t] = "starting" /\ UNCHANGED serving
        /\ at[t] = "starting" => at'[t] \in {"starting", "idle"}
    BY <1>0, <1>2, RequestServes
  <2>4. WorkerLocal' BY <1>0, <2>1, <2>2, WorkerKept
  <2>5. \A u \in Requesters : RequestLocal(u)'
    <3>1. ASSUME NEW u \in Requesters, u # t PROVE RequestLocal(u)'
      BY <1>0, <1>a, <2>1, <3>1, OthersKept DEF AtApart
    <3> QED BY <2>1, <3>1
  <2>6. ASSUME NEW u \in Requesters PROVE Serving(u)'
    <3>1. recovery'.exists = recovery.exists BY <2>2 DEF Disk
    <3>2. at'[u] \notin {"idle", "starting"} => serving'
      <4>1. CASE u = t BY <1>0, <2>2, <2>3, <4>1
      <4>2. CASE u # t BY <1>0, <2>1, <2>2, <4>2 DEF AtApart, Serving
      <4> QED BY <4>1, <4>2
    <3>3. CASE at'[u] = "starting"
      <4>1. at[u] = "starting" BY <2>1, <2>3, <3>3 DEF AtApart
      <4>2. ~serving /\ At("none") /\ ~recovery.exists /\ \A v \in Requesters \ {u} : at[v] = "idle"
        BY <1>0, <4>1 DEF Serving
      <4>3. u = t BY <2>3, <4>2
      <4>4. \A v \in Requesters \ {u} : at'[v] = "idle" BY <2>1, <4>2, <4>3 DEF AtApart
      <4>5. ~serving' BY <2>3, <3>3, <4>2, <4>3
      <4> QED BY <2>2, <3>1, <3>2, <3>3, <4>2, <4>4, <4>5 DEF Serving, At
    <3> QED BY <3>2, <3>3 DEF Serving
  <2>7. CountedTypes' BY <2>1 DEF Apart, CallsApart, LocksApart, CountedTypes, AtApart
  <2> QED BY <1>b, <2>4, <2>5, <2>6, <2>7
<1>3. CASE StartDiagnostic
  <2>1. /\ UNCHANGED <<locks, call, hardwareVars, at, serving>> /\ serving /\ At("none")
        /\ \E first \in Rounds : run' = [NoRun EXCEPT !.place = "preflight", !.round = first]
    BY <1>3 DEF StartDiagnostic, Begins
  <2>2. run'.place = "preflight" BY <2>1 DEF NoRun
  <2>3. WorkerLocal' BY <1>0, <2>1, <2>2, WorkerAside DEF hardwareVars, At
  <2>4. \A u \in Requesters : RequestLocal(u)' BY <1>0, <2>1 DEF RequestLocal, RequestCalls, RequestBusy, hardwareVars
  <2>5. \A u \in Requesters : Serving(u)' BY <1>0, <2>1 DEF Serving
  <2>6. CountedTypes' BY <1>0, <2>1 DEF CountedTypes, LocksTypeOK, CallTypeOK, AtTypeOK
  <2> QED BY <1>b, <2>3, <2>4, <2>5, <2>6
<1>4. CASE StartUp
  <2>0. ~serving /\ At("none") /\ (\A u \in Requesters : at[u] = "idle") /\ UNCHANGED <<launchVars, recovery>>
    BY <1>4 DEF StartUp, Disk
  <2>1. CASE recovery.exists
    <3>1. UNCHANGED <<hardwareVars, at, serving>> /\ run' = [NoRun EXCEPT !.place = "stage", !.mode = "recover"]
      BY <1>4, <2>1 DEF StartUp
    <3>2. run'.place = "stage" BY <3>1 DEF NoRun
    <3>3. WorkerLocal' BY <1>0, <2>0, <3>1, <3>2, WorkerAside DEF hardwareVars, At, launchVars
    <3>4. \A u \in Requesters : RequestLocal(u)'
      BY <1>0, <2>0, <3>1 DEF RequestLocal, RequestCalls, RequestBusy, hardwareVars, launchVars
    <3>5. \A u \in Requesters : Serving(u)' BY <1>0, <2>0, <3>1 DEF Serving
    <3>6. CountedTypes' BY <1>0, <2>0, <3>1 DEF CountedTypes, LocksTypeOK, CallTypeOK, AtTypeOK, launchVars
    <3> QED BY <1>b, <3>3, <3>4, <3>5, <3>6
  <2>2. CASE ~recovery.exists /\ UNCHANGED <<at, hardwareVars>> /\ serving' = TRUE
    <3>1. UNCHANGED <<locks, call, run>> BY <1>4, <2>0, <2>2 DEF StartUp, launchVars
    <3>2. WorkerLocal' BY <1>0, <2>0, <2>2, <3>1, WorkerAside DEF hardwareVars, At
    <3>3. \A u \in Requesters : RequestLocal(u)'
      BY <1>0, <2>2, <3>1 DEF RequestLocal, RequestCalls, RequestBusy, hardwareVars
    <3>4. \A u \in Requesters : Serving(u)' BY <2>0, <2>2 DEF Serving
    <3>5. CountedTypes' BY <1>0, <2>2, <3>1 DEF CountedTypes, LocksTypeOK, CallTypeOK, AtTypeOK
    <3> QED BY <1>b, <3>2, <3>3, <3>4, <3>5
  <2>3. ASSUME ~recovery.exists, NEW t \in Requesters, at' = [at EXCEPT ![t] = "starting"], Calls(t, "release"),
               UNCHANGED serving
        PROVE  CountedTypes' /\ ThreadsInv'
    <3>1. UNCHANGED <<locks, call, run>> BY <1>4, <2>0, <2>3 DEF StartUp, launchVars
    <3>2. t \in Threads /\ t # Worker /\ "release" \in Routines BY <1>a DEF Routines
    <3>3. AtApart(t) /\ at'[t] = "starting" BY <1>0, <2>3, AtGoes DEF Continues, RequestPlaces
    <3>4. Apart(t) BY <1>0, <2>3, <3>1, <3>2, SameCalls, SameLocks, RoutineApart DEF Apart
    <3>5. step'[t] = "enter" /\ routine'[t] = "release" BY <1>0, <2>3, <3>2 DEF Calls, HardwareTypeOK
    <3>6. RequestLocal(t)'
      <4>1. RequestCalls(t)' BY <1>0, <2>0, <3>1, <3>3 DEF RequestLocal, RequestCalls
      <4>2. RequestBusy(t)' BY <3>3, <3>5 DEF RequestBusy
      <4> QED BY <4>1, <4>2 DEF RequestLocal
    <3>7. \A u \in Requesters : RequestLocal(u)'
      <4>1. ASSUME NEW u \in Requesters, u # t PROVE RequestLocal(u)'
        BY <1>0, <3>2, <3>3, <3>4, <4>1, OthersKept DEF AtApart
      <4> QED BY <3>6, <4>1
    <3>8. WorkerLocal' BY <1>0, <3>1, <3>4, WorkerKept
    <3>9. \A u \in Requesters : Serving(u)'
      <4>1. \A u \in Requesters \ {t} : at'[u] = "idle" BY <2>0, <3>3 DEF AtApart
      <4> QED BY <2>0, <2>3, <3>1, <3>3, <4>1 DEF Serving, At
    <3>10. CountedTypes' BY <1>0, <3>1, <3>3 DEF CountedTypes, LocksTypeOK, CallTypeOK, AtApart
    <3> QED BY <1>b, <3>7, <3>8, <3>9, <3>10
  <2> QED BY <1>4, <2>1, <2>2, <2>3 DEF StartUp
<1>5. CASE Endpoint
  <2>1. UNCHANGED <<hardwareVars, locks, call>>
    BY <1>5 DEF Endpoint, EndpointStep, Gate, Register, Refresh, Finish, Exit
  <2>2. UNCHANGED <<at, serving, run, recovery>> BY <1>5 DEF Endpoint, Diagnostic, Disk, Life
  <2> QED BY <1>0, <2>1, <2>2, ThreadsStay DEF hardwareVars
<1>6. CASE RoomExpires \/ Unplugged \/ Idle \/ UNCHANGED vars
  <2>1. UNCHANGED <<locks, call, step, routine, at, serving, run, recovery>>
    BY <1>6 DEF RoomExpires, Unplugged, Unplug, Idle, vars, hardwareVars, launchVars, Diagnostic, Disk, Life
  <2> QED BY <1>0, <2>1, ThreadsStay
<1>7. CASE Crash
  <2>1. /\ locks' = [l \in DOMAIN locks |-> NoThread] /\ call' = [t \in Threads |-> NoCall]
        /\ step' = [t \in Threads |-> "idle"] /\ run' = NoRun /\ at' = [t \in Requesters |-> "idle"]
    BY <1>7 DEF Crash, LaunchCrash, HardwareCrash
  <2>2. CountedTypes'
    <3>1. LocksTypeOK' BY <1>0, <2>1 DEF LocksTypeOK
    <3>2. CallTypeOK' BY <2>1, SmallNumbers DEF CallTypeOK, NoCall, Answers
    <3>3. AtTypeOK' BY <2>1 DEF AtTypeOK, RequestPlaces
    <3> QED BY <3>1, <3>2, <3>3 DEF CountedTypes
  <2>3. WorkerLocal'
    BY <1>a, <2>1 DEF WorkerLocal, WorkerCalls, WorkerBusy, NoCall, NoRun, At, Launching, Stopping, Resting
  <2>4. \A u \in Requesters : RequestLocal(u)'
    BY <1>a, <2>1 DEF RequestLocal, RequestCalls, RequestBusy, NoCall, Launching, Stopping, Resting
  <2>5. \A u \in Requesters : Serving(u)' BY <2>1 DEF Serving
  <2> QED BY <1>b, <2>2, <2>3, <2>4, <2>5
<1> QED
  BY <1>1, <1>2, <1>3, <1>4, <1>5, <1>6, <1>7 DEF Next

\* Every step keeps the types.
LEMMA TypesSteps ==
    ASSUME TypeInv, OnlyAttachAttaches, FileIsNamed, InOrder, ThreadsInv, [Next \/ Idle]_vars
    PROVE  TypeInv' /\ OnlyAttachAttaches' /\ FileIsNamed' /\ InOrder' /\ ThreadsInv' /\ StartedKept
<1>1. AdapterInv /\ StoreInv BY TypesSplit DEF AdapterInv, StoreInv
<1>2. StoreIsKept BY <1>1, StoreSteps
<1>3. CountedTypes' /\ ThreadsInv' BY <1>1, <1>2, ThreadsSteps
<1>4. AdapterInv' BY <1>1, AdapterSteps
<1>5. RunTypeOK' /\ DiskTypeOK' /\ FlagsTypeOK' BY RunSteps, DiskSteps, FlagsSteps
<1>6. TypeInv'
  <2>1. (/\ HardwareTypeOK /\ LocksTypeOK /\ CallTypeOK /\ StoreTypeOK
         /\ RunTypeOK /\ DiskTypeOK /\ FlagsTypeOK /\ AtTypeOK)'
    BY <1>2, <1>3, <1>4, <1>5 DEF StoreIsKept, StoreInv, CountedTypes, AdapterInv
  <2>2. TypeInv' <=> (/\ HardwareTypeOK /\ LocksTypeOK /\ CallTypeOK /\ StoreTypeOK
                      /\ RunTypeOK /\ DiskTypeOK /\ FlagsTypeOK /\ AtTypeOK)'
    BY TypesSplit, PTL
  <2> QED BY <2>1, <2>2
<1> QED BY <1>2, <1>3, <1>4, <1>6 DEF StoreIsKept, StoreInv, AdapterInv

-----------------------------------------------------------------------------
(* The recovery file.                                                    *)

\* A step that neither begins nor ends a run, and leaves what is named as it is.
LEMMA SameRecovery ==
    ASSUME RecoveryInv, UNCHANGED <<d7, Disk, incomplete>>,
           serving' => serving \/ ~recovery.exists,
           run'.place = "none" <=> At("none"),
           run'.place \in {"preflight", "room closed", "credential deleted"} => run'.place = run.place,
           run'.place \in Ending /\ run'.clean => (run.place \in Ending /\ run.clean) \/ d7 = NoD7
    PROVE  RecoveryInv'
BY DEF RecoveryInv, At, Disk, RecoveryNamesLeftovers

\* A step of the worker that changes what is named, within its run.
LEMMA NamedInRun ==
    ASSUME RecoveryInv, ~At("none"), run'.place \notin {"none", "preflight"} \cup Ending, UNCHANGED incomplete,
           recovery'.exists = recovery.exists,
           d7'.room = recovery'.room, d7'.credential = recovery'.token,
           run'.place = "room closed" => relayRoom' # "named",
           run'.place = "credential deleted" => credential' = "none",
           RecoveryNamesLeftovers'
    PROVE  RecoveryInv'
BY DEF RecoveryInv, At

\* The worker names what it takes and forgets what is gone.
LEMMA AsideRecovery ==
    ASSUME RecoveryInv, RunTypeOK, DiskTypeOK, AsideStep PROVE RecoveryInv'
<1>0. ~At("none") /\ run.place \notin Ending /\ run'.place # "none" /\ UNCHANGED serving
  BY AsidePlaces, AsideFrame DEF At, Aside, Life
<1> USE DEF At, Go, Fails
<1>1. CASE Preflight
  <2>1. d7 = NoD7 /\ UNCHANGED <<d7, incomplete, relayRoom, credential>> BY <1>1 DEF Preflight, RecoveryInv
  <2>2. recovery'.exists = recovery.exists /\ recovery'.room = recovery.room /\ recovery'.token = recovery.token
    BY <1>1 DEF Preflight, Recovers, DiskTypeOK
  <2>3. run'.place \in {"gate", "await", "verdict"} BY <1>1 DEF Preflight, Opening, RunTypeOK
  <2> QED BY <1>0, <2>1, <2>2, <2>3 DEF RecoveryInv, RecoveryNamesLeftovers
<1>2. CASE HardwareGate \/ AwaitContinue \/ Entry \/ Launched \/ Watch \/ BeginCleanup
  <2>1. UNCHANGED <<d7, Disk, incomplete>>
    BY <1>2 DEF HardwareGate, AwaitContinue, Entry, Launched, Watch, BeginCleanup
  <2>2. run'.place \in {"entry", "final", "stage", "ensure", "watch"}
    BY <1>2 DEF HardwareGate, AwaitContinue, Entry, Launched, Watch, BeginCleanup, RunTypeOK
  <2> QED BY <1>0, <2>1, <2>2, SameRecovery DEF Ending
<1>3. CASE NextRound
  <2>1. UNCHANGED <<d7, Disk, incomplete>> BY <1>3 DEF NextRound
  <2>2. run'.place \in {"gate", "await", "final"} BY <1>3 DEF NextRound, RunTypeOK, Opening
  <2> QED BY <1>0, <2>1, <2>2, SameRecovery DEF Ending
<1>4. CASE CreateRoom
  <2>1. UNCHANGED <<d7, recovery, credential, incomplete>> /\ relayRoom' \in {relayRoom, "unnamed"}
        /\ run'.place \in {"register", "stage"}
    BY <1>4 DEF CreateRoom, RunTypeOK
  <2> QED BY <1>0, <2>1, NamedInRun DEF RecoveryInv, RecoveryNamesLeftovers, Ending
<1>5. CASE RegisterRoom
  <2>1. /\ d7' = [d7 EXCEPT !.room = TRUE] /\ recovery' = [recovery EXCEPT !.room = TRUE]
        /\ UNCHANGED <<credential, incomplete>> /\ run'.place = "join"
    BY <1>5 DEF RegisterRoom, Registers, Recovers, RunTypeOK
  <2>2. d7'.room /\ recovery'.room /\ d7'.credential = d7.credential /\ recovery'.token = recovery.token
        /\ recovery'.exists = recovery.exists
    BY <2>1 DEF DiskTypeOK
  <2> QED BY <1>0, <2>1, <2>2, NamedInRun DEF RecoveryInv, RecoveryNamesLeftovers, Ending
<1>6. CASE JoinRoom \/ StopPeer
  <2>1. UNCHANGED <<Disk, incomplete>> /\ run'.place \in {"stage", "token", "room"}
        /\ d7' \in {d7, [d7 EXCEPT !.peer = TRUE], [d7 EXCEPT !.peer = FALSE]}
    BY <1>6 DEF JoinRoom, StopPeer, Peers, RunTypeOK
  <2>2. d7'.room = d7.room /\ d7'.credential = d7.credential BY <2>1 DEF DiskTypeOK
  <2> QED BY <1>0, <2>1, <2>2, NamedInRun DEF RecoveryInv, RecoveryNamesLeftovers, Ending, Disk
<1>7. CASE WriteToken
  <2>1. UNCHANGED <<recovery, relayRoom, incomplete, d7>> /\ run'.place = "name" /\ credential' = "unnamed"
    BY <1>7 DEF WriteToken, RunTypeOK
  <2> QED BY <1>0, <2>1, NamedInRun DEF RecoveryInv, RecoveryNamesLeftovers, Ending
<1>8. CASE RegisterCredential
  <2>1. /\ d7' = [d7 EXCEPT !.credential = TRUE] /\ recovery' = [recovery EXCEPT !.token = TRUE]
        /\ UNCHANGED <<relayRoom, incomplete>> /\ run'.place = "begin"
    BY <1>8 DEF RegisterCredential, Recovers, RunTypeOK
  <2>2. d7'.room = d7.room /\ recovery'.room = recovery.room /\ d7'.credential /\ recovery'.token
        /\ recovery'.exists = recovery.exists
    BY <2>1 DEF DiskTypeOK
  <2> QED BY <1>0, <2>1, <2>2, NamedInRun DEF RecoveryInv, RecoveryNamesLeftovers, Ending
<1>9. CASE CloseRoom
  <2>1. UNCHANGED <<recovery, credential, incomplete, d7>> /\ relayRoom' \in {relayRoom, "none"}
        /\ run'.place \in {"room closed", "credential"} /\ (run'.place = "room closed" => relayRoom' = "none")
    BY <1>9 DEF CloseRoom, RunTypeOK
  <2> QED BY <1>0, <2>1, NamedInRun DEF RecoveryInv, RecoveryNamesLeftovers, Ending
<1>10. CASE RoomClosed
  <2>1. /\ d7' = [d7 EXCEPT !.room = FALSE] /\ recovery' = [recovery EXCEPT !.room = FALSE]
        /\ UNCHANGED <<relayRoom, credential, incomplete>> /\ run'.place = "credential" /\ At("room closed")
    BY <1>10 DEF RoomClosed, Recovers, RunTypeOK
  <2>2. d7'.room = FALSE /\ recovery'.room = FALSE /\ d7'.credential = d7.credential /\ recovery'.token = recovery.token
        /\ recovery'.exists = recovery.exists /\ relayRoom # "named"
    BY <2>1 DEF DiskTypeOK, RecoveryInv
  <2> QED BY <1>0, <2>1, <2>2, NamedInRun DEF RecoveryInv, RecoveryNamesLeftovers, Ending
<1>11. CASE DeleteCredential
  <2>1. UNCHANGED <<recovery, relayRoom, incomplete, d7>> /\ credential' \in {credential, "none"}
        /\ run'.place \in {"credential deleted", "cleaned"} /\ (run'.place = "credential deleted" => credential' = "none")
    BY <1>11 DEF DeleteCredential, RunTypeOK
  <2> QED BY <1>0, <2>1, NamedInRun DEF RecoveryInv, RecoveryNamesLeftovers, Ending
<1>12. CASE CredentialDeleted
  <2>1. /\ d7' = [d7 EXCEPT !.credential = FALSE] /\ recovery' = [recovery EXCEPT !.token = FALSE]
        /\ UNCHANGED <<relayRoom, credential, incomplete>> /\ run'.place = "cleaned" /\ At("credential deleted")
    BY <1>12 DEF CredentialDeleted, Recovers, RunTypeOK
  <2>2. d7'.credential = FALSE /\ recovery'.token = FALSE /\ d7'.room = d7.room /\ recovery'.room = recovery.room
        /\ recovery'.exists = recovery.exists /\ credential = "none"
    BY <2>1 DEF DiskTypeOK, RecoveryInv
  <2> QED BY <1>0, <2>1, <2>2, NamedInRun DEF RecoveryInv, RecoveryNamesLeftovers, Ending
<1> QED
  BY <1>1, <1>2, <1>3, <1>4, <1>5, <1>6, <1>7, <1>8, <1>9, <1>10, <1>11, <1>12 DEF AsideStep

\* What is named is gone when it is named no more; a clean run takes its file with it.
LEMMA RecoverySteps ==
    ASSUME TypeInv, ThreadsInv, RecoveryInv, [Next \/ Idle]_vars PROVE RecoveryInv'
<1>0. RunTypeOK /\ DiskTypeOK /\ AtTypeOK BY TypesSplit
<1>1. CASE AsideStep BY <1>0, <1>1, AsideRecovery
<1>2. CASE CallStep
  <2>1. UNCHANGED <<d7, Disk, incomplete, serving>> /\ ~At("none")
    BY <1>2 DEF CallStep, BeginLaunch, LaunchDiagnostic, Stage, StopsEndpoint, EndpointStopped, Diagnostic, Life, At
  <2>2. \/ run'.place \in {"launch", "stopping", "peer"} \/ UNCHANGED run
        \/ run'.place = "verdict" /\ ~run'.clean
    BY <1>0, <1>2 DEF CallStep, BeginLaunch, LaunchDiagnostic, Stage, StopsEndpoint, EndpointStopped, Diagnostic, Go, RunTypeOK
  <2> QED BY <2>1, <2>2, SameRecovery DEF Ending, At
<1>3. CASE AdapterStep
  <2>1. UNCHANGED <<d7, Disk, incomplete, serving>> /\ ~At("none")
    BY <1>3 DEF AdapterStep, EnsureHardware, Attached, ReleaseAtEnd, ReleasedAtEnd, RecoverHardware, CallsHardware,
                Aside, Life, At
  <2>2. CASE EnsureHardware \/ Attached
    <3>1. run'.place \in {"gating", "ensuring", "check", "create", "final", "stage"}
      BY <1>0, <2>2 DEF EnsureHardware, Attached, Go, Fails, Finally, RunTypeOK
    <3> QED BY <2>1, <3>1, SameRecovery DEF Ending
  <2>3. CASE ReleaseAtEnd \/ RecoverHardware
    <3>1. run'.place \in Ending /\ (run'.clean => Cleaned)
      BY <1>0, <2>3 DEF ReleaseAtEnd, RecoverHardware, Go, RunTypeOK, Ending, Cleaned
    <3> QED BY <2>1, <3>1, SameRecovery DEF Ending, Cleaned
  <2>4. CASE ReleasedAtEnd
    <3>1. run'.place = "verdict" /\ (run'.clean => run.clean) /\ At("releasing")
      BY <1>0, <2>4 DEF ReleasedAtEnd, RunTypeOK
    <3> QED BY <2>1, <3>1, SameRecovery DEF Ending, At
  <2> QED BY <1>3, <2>2, <2>3, <2>4 DEF AdapterStep
<1>4. CASE Verdict
  <2>1. /\ At("verdict") /\ run'.place = "none" /\ d7' = NoD7 /\ UNCHANGED <<relayRoom, credential>>
        /\ Completes \/ Unresolved
    BY <1>4 DEF Verdict, NoRun
  <2>2. recovery.exists BY <2>1 DEF RecoveryInv, At
  <2>3. CASE Completes
    <3>1. d7 = NoD7 BY <2>1, <2>3 DEF Completes, RecoveryInv, At, Ending
    <3>2. ~recovery.room /\ ~recovery.token BY <2>1, <3>1 DEF RecoveryInv, NoD7, At
    <3>3. recovery' = NoRecovery /\ incomplete' = FALSE BY <2>3 DEF Completes, Recovers
    <3> QED BY <2>1, <3>2, <3>3 DEF RecoveryInv, RecoveryNamesLeftovers, NoRecovery, At, Ending
  <2>4. CASE Unresolved
    <3>1. recovery' = recovery /\ incomplete' = TRUE BY <2>4 DEF Unresolved, Recovers
    <3> QED BY <2>1, <2>2, <3>1 DEF RecoveryInv, RecoveryNamesLeftovers, At, Ending
  <2> QED BY <2>1, <2>3, <2>4
<1>5. ASSUME NEW t \in Threads, Hardware(t) PROVE RecoveryInv'
  <2>1. UNCHANGED <<d7, Disk, incomplete, serving, run>> BY <1>5 DEF Hardware, Diagnostic, Life
  <2> QED BY <2>1, SameRecovery DEF At
<1>6. CASE StartDiagnostic
  <2>1. /\ serving /\ At("none") /\ ~incomplete /\ UNCHANGED <<d7, relayRoom, credential, incomplete>>
        /\ run'.place = "preflight" /\ recovery' = [NoRecovery EXCEPT !.exists = TRUE]
    BY <1>6 DEF StartDiagnostic, Begins, Recovers, NoRun
  <2>2. ~recovery.room /\ ~recovery.token /\ d7 = NoD7 BY <2>1 DEF RecoveryInv
  <2>3. recovery'.exists /\ recovery'.room = FALSE /\ recovery'.token = FALSE BY <2>1 DEF NoRecovery
  <2> QED BY <2>1, <2>2, <2>3 DEF RecoveryInv, RecoveryNamesLeftovers, At, Ending, NoD7
<1>7. CASE StartUp
  <2>1. CASE recovery.exists
    <3>1. /\ UNCHANGED Disk /\ run'.place = "stage" /\ incomplete' = TRUE
          /\ d7' = [peer |-> FALSE, room |-> recovery.room, credential |-> recovery.token]
      BY <1>7, <2>1 DEF StartUp, NoRun
    <3> QED BY <2>1, <3>1 DEF RecoveryInv, RecoveryNamesLeftovers, At, Ending, Disk
  <2>2. CASE ~recovery.exists
    <3>1. UNCHANGED <<d7, Disk, incomplete, run>> BY <1>7, <2>2 DEF StartUp
    <3> QED BY <2>2, <3>1, SameRecovery DEF At
  <2> QED BY <2>1, <2>2
<1>8. ASSUME NEW t \in Requesters, Request(t) \/ RequestStep(t) PROVE RecoveryInv'
  <2>1. UNCHANGED <<d7, Disk, incomplete>> /\ run'.place = run.place /\ run'.clean = run.clean
    BY <1>0, <1>8, RequestFrame
  <2>2. serving \/ ~recovery.exists
    <3>1. RequestLocal(t) /\ Serving(t) BY DEF ThreadsInv, RequestLocal
    <3>2. serving \/ at[t] = "starting" BY <1>0, <1>8, <3>1, RequestServes
    <3> QED BY <3>1, <3>2 DEF Serving
  <2> QED BY <2>1, <2>2, SameRecovery DEF At
<1>9. CASE Endpoint \/ Unplugged \/ Idle \/ UNCHANGED vars
  <2>1. UNCHANGED <<d7, Disk, incomplete, run, serving>>
    BY <1>9 DEF Endpoint, Unplugged, Idle, vars, Diagnostic, Life
  <2> QED BY <2>1, SameRecovery DEF At
<1>10. CASE RoomExpires
  <2>1. UNCHANGED <<d7, recovery, credential, incomplete, run, serving>> /\ relayRoom' = "none"
    BY <1>10 DEF RoomExpires
  <2> QED BY <2>1 DEF RecoveryInv, RecoveryNamesLeftovers, At
<1>11. CASE Crash
  <2>1. run'.place = "none" /\ d7' = NoD7 /\ incomplete' = FALSE /\ serving' = FALSE /\ UNCHANGED Disk
    BY <1>11 DEF Crash, NoRun
  <2> QED BY <2>1 DEF RecoveryInv, RecoveryNamesLeftovers, At, Disk, Ending
<1> QED
  BY <1>1, <1>2, <1>3, <1>4, <1>5, <1>6, <1>7, <1>8, <1>9, <1>10, <1>11, WorkerSteps, SmallNumbers DEF Next, Requesters

-----------------------------------------------------------------------------
(* The endpoint.                                                         *)

\* No process comes to life.
ProcessesEnd == \A n \in Launches : Alive(n)' => Alive(n)

\* An endpoint that is known and alive is running.
LEMMA NotRunning ==
    ASSUME EndpointIsKnown, ~Running PROVE Nobody
<1> SUFFICES ASSUME NEW n \in Launches, Alive(n) PROVE FALSE
  BY DEF Nobody
<1>1. CASE Up(n)
  <2>1. file.registered /\ file.launch = n BY <1>1 DEF EndpointIsKnown
  <2> QED BY <1>1, <2>1 DEF Running, Verified
<1>2. CASE ~Up(n)
  <2>1. popen = n /\ n # 0 BY <1>2, SmallNumbers DEF EndpointIsKnown, Launches
  <2> QED BY <2>1 DEF Running
<1> QED BY <1>1, <1>2

\* Of one that nobody touches, nothing changes.
LEMMA SameEndpoint ==
    ASSUME UNCHANGED <<process, file, popen>>
    PROVE  /\ EndpointIsKnown => EndpointIsKnown'
           /\ OneAlive => OneAlive'
           /\ Nobody <=> Nobody'
           /\ ProcessesEnd
BY DEF EndpointIsKnown, OneAlive, Nobody, ProcessesEnd, Alive, Up, Launches

\* While no process comes to life, one at most is alive.
LEMMA OneStays ==
    ASSUME ProcessesEnd PROVE (OneAlive => OneAlive') /\ (Nobody => Nobody')
BY DEF ProcessesEnd, OneAlive, Nobody, Launches

\* Where nobody is alive, none is to be known.
LEMMA NobodyIsKnown == ASSUME Nobody PROVE EndpointIsKnown /\ OneAlive
BY DEF Nobody, EndpointIsKnown, OneAlive, Alive

\* What the endpoint does by itself.
LEMMA EndpointEndpoint ==
    ASSUME StoreTypeOK, NEW c, EndpointStep({"passed", "failed"}, c)
    PROVE  ProcessesEnd /\ (OneAlive /\ EndpointIsKnown => EndpointIsKnown') /\ UNCHANGED <<popen, call, locks>>
<1>1. PICK n \in Launches :
          Gate(n) \/ Register(n, c) \/ Refresh(n) \/ Finish(n, {"passed", "failed"}) \/ Exit(n)
  BY DEF EndpointStep
<1>2. UNCHANGED <<popen, call, locks>> BY <1>1 DEF Gate, Register, Refresh, Finish, Exit, Memory
<1>3. /\ Alive(n)
      /\ UNCHANGED process \/ \E p \in {"gated", "up", "closing", "ended"} : process' = [process EXCEPT ![n] = p]
  BY <1>1 DEF Gate, Register, Refresh, Finish, Exit, Becomes, Processes, Alive, Up
<1>4. \A m \in Launches : m # n => process'[m] = process[m] BY <1>3 DEF StoreTypeOK
<1>5. ProcessesEnd BY <1>3, <1>4 DEF ProcessesEnd, Alive, Up
<1>6. ASSUME OneAlive, EndpointIsKnown PROVE EndpointIsKnown'
  <2>1. \A m \in Launches : Alive(m)' => m = n BY <1>3, <1>5, <1>6 DEF ProcessesEnd, OneAlive
  <2>2. CASE Gate(n)
    <3>1. ~Up(n) /\ popen = n BY <1>6, <1>3, <2>2 DEF Gate, EndpointIsKnown, Up
    <3>2. process'[n] \in {"gated", "ended"} BY <2>2 DEF Gate, Becomes, StoreTypeOK
    <3> QED BY <1>2, <2>1, <3>1, <3>2 DEF EndpointIsKnown, Alive, Up, Launches
  <2>3. CASE Register(n, c)
    <3>1. \/ process'[n] = "up" /\ file'.registered = TRUE /\ file'.launch = n
          \/ process'[n] = "ended"
      BY <2>3 DEF Register, Becomes, StoreTypeOK, Reports, Says
    <3> QED BY <2>1, <3>1 DEF EndpointIsKnown, Alive, Up, Launches
  <2>4. CASE Refresh(n) \/ Finish(n, {"passed", "failed"})
    <3>1. file'.registered = TRUE /\ file'.launch = n BY <2>4 DEF Refresh, Finish, Reports, Says
    <3>2. process'[n] \in {"up", "closing"} BY <2>4 DEF Refresh, Finish, Becomes, StoreTypeOK, Processes
    <3> QED BY <2>1, <3>1, <3>2 DEF EndpointIsKnown, Alive, Up, Launches
  <2>5. CASE Exit(n)
    <3>1. process'[n] = "ended" BY <2>5 DEF Exit, Becomes, StoreTypeOK
    <3> QED BY <2>1, <3>1 DEF EndpointIsKnown, Alive, Up, Launches
  <2> QED BY <1>1, <2>2, <2>3, <2>4, <2>5
<1> QED BY <1>2, <1>5, <1>6

\* Ended processes do not live.
LEMMA TerminatedEnd ==
    ASSUME NEW ns \in SUBSET Launches, Terminated(ns)
    PROVE  ProcessesEnd /\ \A n \in ns : ~Alive(n)'
<1>1. \A n \in Launches : process'[n] = IF n \in ns THEN "ended" ELSE process[n]
  BY DEF Terminated
<1> QED BY <1>1 DEF ProcessesEnd, Alive, Up

\* A stop finds every endpoint that is known.
LEMMA StopEndpoint ==
    ASSUME NEW t, StopStep(t)
    PROVE  /\ ProcessesEnd
           /\ EndpointIsKnown /\ (In(t, "forget") => Nobody) => EndpointIsKnown'
           /\ EndpointIsKnown /\ Terminate(t) => Nobody' \/ To(t, "unstopped")
<1>1. CASE Cancel(t)
  <2>1. UNCHANGED <<process, file, popen>> BY <1>1 DEF Cancel, Files, Memory, Processes
  <2> QED BY <1>1, <2>1, SameEndpoint DEF Cancel, Terminate, In
<1>2. CASE Forget(t)
  <2>1. UNCHANGED process /\ In(t, "forget") BY <1>2 DEF Forget, Processes
  <2>2. ProcessesEnd /\ (Nobody => Nobody') BY <2>1 DEF ProcessesEnd, Nobody, Alive, Up, Launches
  <2>3. Nobody' => EndpointIsKnown' BY NobodyIsKnown, PTL
  <2>4. ~In(t, "terminate") BY <2>1 DEF In
  <2> QED BY <2>1, <2>2, <2>3, <2>4 DEF Terminate
<1>3. CASE Terminate(t)
  <2>0. ~In(t, "forget") BY <1>3 DEF Terminate, In
  <2>1. CASE UNCHANGED <<file, Processes>> /\ To(t, "unstopped")
    <3>1. UNCHANGED <<process, file, popen>> BY <1>3, <2>1 DEF Terminate, Memory, Processes
    <3> QED BY <2>1, <3>1, SameEndpoint
  <2>2. CASE Terminated({n \in Launches : Alive(n) /\ (n = popen \/ (Verified /\ n = file.launch))})
    <3> DEFINE ns == {n \in Launches : Alive(n) /\ (n = popen \/ (Verified /\ n = file.launch))}
    <3>0. \A n \in Launches : n \in ns <=> Alive(n) /\ (n = popen \/ (Verified /\ n = file.launch)) OBVIOUS
    <3>1. Terminated(ns) /\ ns \in SUBSET Launches BY <2>2
    <3> HIDE DEF ns
    <3>2. ProcessesEnd /\ \A n \in ns : ~Alive(n)' BY <3>1, TerminatedEnd
    <3>3. ASSUME EndpointIsKnown PROVE Nobody'
      <4>1. ASSUME NEW n \in Launches, Alive(n) PROVE n \in ns
        BY <3>0, <3>3, <4>1 DEF EndpointIsKnown, Verified
      <4> QED BY <3>2, <4>1 DEF Nobody, ProcessesEnd, Launches
    <3> QED BY <3>2, <3>3, NobodyIsKnown, PTL
  <2> QED BY <1>3, <2>1, <2>2 DEF Terminate
<1> QED BY <1>1, <1>2, <1>3 DEF StopStep

\* A launch starts an endpoint only when there is none, and ends the one it waits for.
LEMMA LaunchEndpoint ==
    ASSUME StoreInv, CallTypeOK, WorkerCalls, OneAlive, NEW key \in Keys, LaunchStep(Worker, key, TRUE, TRUE)
    PROVE  /\ OneAlive'
           /\ ~Free("state") /\ Nobody => Nobody'
           /\ EndpointIsKnown /\ LaunchIsAlone => EndpointIsKnown' /\ LaunchIsAlone'
<1>0. Worker \in Threads /\ StoreTypeOK BY SmallNumbers DEF StoreInv
<1> USE DEF Phases, Launching, Answers
<1>1. ASSUME UNCHANGED <<process, file, popen>>, NEW p \in Phases \ {"record"}, To(Worker, p),
             p \in {"wait", "decide", "fail"} => call[Worker].phase \in {"wait", "decide", "fail"}
      PROVE  /\ OneAlive' /\ (Nobody => Nobody')
             /\ EndpointIsKnown /\ LaunchIsAlone => EndpointIsKnown' /\ LaunchIsAlone'
  <2>1. call'[Worker].phase = p /\ call'[Worker].launch = call[Worker].launch BY <1>0, <1>1, CallGoes
  <2>2. LaunchIsAlone => LaunchIsAlone' BY <1>1, <2>1 DEF LaunchIsAlone, Alive, Up, Launches
  <2> QED BY <1>1, <2>2, SameEndpoint
<1>2. CASE EnterLaunch(Worker)
  <2>1. UNCHANGED <<process, file, popen>> /\ (To(Worker, "refused") \/ To(Worker, "locked"))
    BY <1>2 DEF EnterLaunch, Files, Memory, Processes
  <2> QED BY <1>1, <2>1
<1>3. CASE FindRunning(Worker, key)
  <2>1. UNCHANGED <<process, file, popen>> /\ (To(Worker, "started") \/ To(Worker, "refused"))
    BY <1>3 DEF FindRunning, Files, Processes
  <2> QED BY <1>1, <2>1
<1>4. CASE Wait(Worker) \/ Decide(Worker) \/ Deadline(Worker)
  <2>1. UNCHANGED <<process, file, popen>> /\ \E p \in {"fail", "decide", "wait", "started"} : To(Worker, p)
    BY <1>4 DEF Wait, Decide, Deadline, Files, Memory, Processes
  <2>2. call[Worker].phase \in {"wait", "decide", "fail"} BY <1>4 DEF Wait, Decide, Deadline, In
  <2> QED BY <1>1, <2>1, <2>2
<1>5. CASE FindLaunched(Worker, key, TRUE) \/ Released(Worker)
  BY <1>5 DEF FindLaunched, Released, In, WorkerCalls
<1>6. CASE CannotStart(Worker, key, TRUE, TRUE)
  <2>1. Free("state") /\ ~Running /\ To(Worker, "refused") /\ UNCHANGED process
    BY <1>6 DEF CannotStart, MayStart, Processes
  <2>2. OneAlive' BY <2>1 DEF OneAlive, Alive, Up, Launches
  <2>3. ASSUME EndpointIsKnown PROVE EndpointIsKnown' /\ LaunchIsAlone'
    <3>1. Nobody BY <2>1, <2>3, NotRunning
    <3>2. \A n \in Launches : ~Alive(n)' BY <2>1, <3>1 DEF Nobody, Alive, Up
    <3>3. call'[Worker].phase = "refused" BY <1>0, <2>1, CallGoes
    <3> QED BY <3>2, <3>3 DEF EndpointIsKnown, LaunchIsAlone, Alive, Launches
  <2> QED BY <2>1, <2>2, <2>3
<1>7. CASE Start(Worker, key, TRUE)
  <2> DEFINE n == NextLaunch
  <2>1. n \in Launches /\ process[n] = "none" /\ n # 0
    BY <1>7, NextIsFree, SmallNumbers DEF Start, StoreInv, Launches
  <2>2. /\ process' = [process EXCEPT ![n] = IF \E m \in Launches : Alive(m) THEN "ended" ELSE "gate"]
        /\ Free("state") /\ ~Running /\ popen' = n
    BY <1>7 DEF Start, MayStart
  <2>3. call'[Worker].phase = "wait" /\ call'[Worker].launch = n
    BY <1>0, <1>7 DEF Start, CallTypeOK
  <2> HIDE DEF n
  <2>4. \A m \in Launches : m # n => process'[m] = process[m] BY <1>0, <2>2 DEF StoreTypeOK
  <2>5. process'[n] = IF \E m \in Launches : Alive(m) THEN "ended" ELSE "gate" BY <1>0, <2>1, <2>2 DEF StoreTypeOK
  <2>6. CASE Nobody
    <3>1. process'[n] = "gate" BY <2>5, <2>6 DEF Nobody
    <3>2. \A m \in Launches : Alive(m)' => m = n BY <2>4, <2>6 DEF Nobody, Alive, Up
    <3>3. OneAlive' BY <3>2 DEF OneAlive, Launches
    <3>4. EndpointIsKnown' BY <2>2, <3>1, <3>2 DEF EndpointIsKnown, Alive, Up, Launches
    <3>5. LaunchIsAlone' BY <2>3, <3>2 DEF LaunchIsAlone, Launches
    <3> QED BY <2>2, <3>3, <3>4, <3>5
  <2>7. CASE ~Nobody
    <3>1. process'[n] = "ended" BY <2>5, <2>7 DEF Nobody
    <3>2. ProcessesEnd BY <2>4, <3>1 DEF ProcessesEnd, Alive, Up
    <3>3. OneAlive' BY <3>2, OneStays
    <3>4. ~EndpointIsKnown BY <2>2, <2>7, NotRunning
    <3> QED BY <2>7, <3>3, <3>4
  <2> QED BY <2>6, <2>7
<1>8. CASE Fail(Worker)
  <2> DEFINE n == call[Worker].launch
  <2>1. n \in Launches /\ In(Worker, "fail") BY <1>8 DEF Fail, In, WorkerCalls
  <2>2. Terminated({n}) /\ To(Worker, "record") BY <1>8 DEF Fail
  <2> HIDE DEF n
  <2>3. ProcessesEnd /\ \A m \in {n} : ~Alive(m)'
    <3>1. {n} \in SUBSET Launches BY <2>1
    <3> QED BY <2>2, <3>1, TerminatedEnd
  <2>4. call'[Worker].phase = "record" BY <1>0, <2>2, CallGoes
  <2>5. OneAlive' /\ (Nobody => Nobody') BY <2>3, OneStays
  <2>6. ASSUME LaunchIsAlone PROVE EndpointIsKnown' /\ LaunchIsAlone'
    <3>1. \A m \in Launches : ~Alive(m)'
      <4>1. ASSUME NEW m \in Launches, Alive(m) PROVE m \in {n}
        BY <2>1, <2>6, <4>1 DEF LaunchIsAlone, In, n
      <4> QED BY <2>3, <4>1 DEF ProcessesEnd
    <3> QED BY <3>1 DEF EndpointIsKnown, LaunchIsAlone, Alive, Launches
  <2> QED BY <2>5, <2>6
<1>9. CASE RecordFailure(Worker, key, TRUE)
  <2>1. In(Worker, "record") /\ Free("state") /\ To(Worker, "refused") /\ UNCHANGED process
    BY <1>9 DEF RecordFailure, Processes
  <2>2. OneAlive' BY <2>1 DEF OneAlive, Alive, Up, Launches
  <2>3. ASSUME LaunchIsAlone PROVE EndpointIsKnown' /\ LaunchIsAlone'
    <3>1. \A m \in Launches : ~Alive(m)' BY <2>1, <2>3 DEF LaunchIsAlone, In, Alive, Up
    <3> QED BY <3>1 DEF EndpointIsKnown, LaunchIsAlone, Alive, Launches
  <2> QED BY <2>1, <2>2, <2>3
<1> QED BY <1>2, <1>3, <1>4, <1>5, <1>6, <1>7, <1>8, <1>9 DEF LaunchStep

\* No thread comes to wait for an endpoint, and none is through with one.
CallsSettle ==
    \A u \in Threads :
        call'[u].phase \in {"wait", "decide", "fail", "record", "forget", "stopped"} =>
            call'[u].phase = call[u].phase /\ call'[u].launch = call[u].launch

\* A step that leaves the endpoint alone keeps its part of the invariant.
LEMMA EndpointAside ==
    ASSUME EndpointInv, UNCHANGED <<process, file, popen, orphan>>,
           CallsSettle,
           \A u \in Threads : call'[u].phase \in {"forget", "stopped"} =>
               IF u = Worker THEN run'.place = "stopping" => At("stopping")
               ELSE at'[u] = "teardown" => at[u] = "teardown",
           EndpointIsKnown /\ EndpointIsRecovered => EndpointIsRecovered'
    PROVE  EndpointInv'
<1>1. OneAlive' BY SameEndpoint DEF EndpointInv
<1>2. ASSUME ~orphan PROVE EndpointIsKnown' /\ LaunchIsAlone' /\ StopIsThrough' /\ EndpointIsRecovered'
  <2>1. EndpointIsKnown' /\ (Nobody => Nobody') BY <1>2, SameEndpoint DEF EndpointInv
  <2>2. LaunchIsAlone'
    BY <1>2, SmallNumbers DEF EndpointInv, LaunchIsAlone, CallsSettle, Alive, Up, Launches
  <2>3. StopIsThrough'
    <3> SUFFICES ASSUME NEW u \in Threads, (IF u = Worker THEN At("stopping") ELSE at[u] = "teardown")',
                        call'[u].phase \in {"forget", "stopped"}
                 PROVE  Nobody'
      BY DEF StopIsThrough
    <3>1. IF u = Worker THEN At("stopping") ELSE at[u] = "teardown" BY DEF At
    <3>2. call[u].phase \in {"forget", "stopped"} BY DEF CallsSettle
    <3>3. Nobody BY <1>2, <3>1, <3>2 DEF EndpointInv, StopIsThrough
    <3> QED BY <2>1, <3>3
  <2> QED BY <1>2, <2>1, <2>2, <2>3 DEF EndpointInv
<1> QED BY <1>1, <1>2 DEF EndpointInv

\* A run goes on where it is, or has told that it could not stop the endpoint.
LEMMA RecoveredKept ==
    ASSUME EndpointIsRecovered, Nobody' <=> Nobody, recovery'.exists = recovery.exists,
           \/ run'.place \in {"none", "launch", "watch", "stage", "stopping"}
           \/ run.place \notin {"none", "launch", "watch", "stage", "stopping"} /\ (run'.clean => run.clean)
    PROVE  EndpointIsRecovered'
BY DEF EndpointIsRecovered

\* A run keeps its file until its verdict.
LEMMA AsideExists == ASSUME DiskTypeOK, AsideStep PROVE recovery'.exists = recovery.exists
<1>1. \/ recovery' = recovery \/ recovery' = [recovery EXCEPT !.adapter = TRUE]
      \/ \E b \in BOOLEAN : recovery' = [recovery EXCEPT !.room = b] \/ recovery' = [recovery EXCEPT !.token = b]
  <2>1. CASE Preflight \/ RegisterRoom \/ RegisterCredential \/ RoomClosed \/ CredentialDeleted
    BY <2>1 DEF Preflight, RegisterRoom, Registers, RegisterCredential, RoomClosed, CredentialDeleted, Recovers
  <2>2. CASE HardwareGate \/ AwaitContinue \/ Entry \/ CreateRoom \/ JoinRoom \/ WriteToken \/ Launched \/ Watch
             \/ StopPeer \/ CloseRoom \/ DeleteCredential \/ NextRound \/ BeginCleanup
    BY <2>2 DEF HardwareGate, AwaitContinue, Entry, CreateRoom, JoinRoom, WriteToken, Launched, Watch, StopPeer,
                CloseRoom, DeleteCredential, NextRound, BeginCleanup, Disk
  <2> QED BY <2>1, <2>2 DEF AsideStep
<1> QED BY <1>1 DEF DiskTypeOK

\* The worker's steps aside.
LEMMA AsideEndpoint ==
    ASSUME EndpointInv, RunTypeOK, DiskTypeOK, AsideStep PROVE EndpointInv'
<1>1. /\ UNCHANGED <<process, file, popen, orphan, call, at>>
  BY AsideFrame DEF Aside, launchVars, Files, Memory, Processes
<1>2. run'.place # "stopping" BY AsidePlaces
<1>3. recovery'.exists = recovery.exists BY AsideExists
<1>4. \/ run'.place \in {"watch", "stage"}
      \/ run.place \notin {"none", "launch", "watch", "stage", "stopping"} /\ (run'.clean => run.clean)
  <2> USE DEF At, Go, Fails, RunTypeOK
  <2>1. CASE Preflight \/ HardwareGate \/ AwaitContinue \/ Entry \/ CreateRoom \/ RegisterRoom \/ JoinRoom \/ WriteToken
    BY <2>1 DEF Preflight, HardwareGate, AwaitContinue, Entry, CreateRoom, RegisterRoom, JoinRoom, WriteToken
  <2>2. CASE RegisterCredential \/ Launched \/ Watch \/ StopPeer \/ CloseRoom \/ RoomClosed
    BY <2>2 DEF RegisterCredential, Launched, Watch, StopPeer, CloseRoom, RoomClosed
  <2>3. CASE DeleteCredential \/ CredentialDeleted \/ BeginCleanup \/ NextRound
    BY <2>3 DEF DeleteCredential, CredentialDeleted, BeginCleanup, NextRound
  <2> QED BY <2>1, <2>2, <2>3 DEF AsideStep
<1>5. EndpointIsRecovered => EndpointIsRecovered'
  BY <1>1, <1>3, <1>4, SameEndpoint, RecoveredKept
<1> QED BY <1>1, <1>2, <1>5, EndpointAside DEF CallsSettle

\* The adapter's steps, the verdict and the routines.
LEMMA AdapterEndpoint ==
    ASSUME EndpointInv, RunTypeOK, AdapterStep \/ Verdict \/ \E t \in Threads : Hardware(t) PROVE EndpointInv'
<1>1. UNCHANGED <<process, file, popen, orphan, call, at>>
  BY DEF AdapterStep, EnsureHardware, Attached, ReleaseAtEnd, ReleasedAtEnd, RecoverHardware, CallsHardware,
         Aside, Verdict, Hardware, launchVars, Files, Memory, Processes
<1>2. CASE AdapterStep
  <2>1. UNCHANGED recovery
    BY <1>2 DEF AdapterStep, EnsureHardware, Attached, ReleaseAtEnd, ReleasedAtEnd, RecoverHardware, Disk
  <2>2. run'.place # "stopping" /\ run.place \notin {"none", "launch", "watch", "stage", "stopping"}
        /\ (run'.clean => run.clean)
    <3> USE DEF At, Go, Fails, RunTypeOK
    <3>1. CASE EnsureHardware \/ Attached BY <3>1 DEF EnsureHardware, Attached, Finally
    <3>2. CASE ReleaseAtEnd \/ ReleasedAtEnd \/ RecoverHardware
      BY <3>2 DEF ReleaseAtEnd, ReleasedAtEnd, RecoverHardware, Cleaned
    <3> QED BY <1>2, <3>1, <3>2 DEF AdapterStep
  <2>3. EndpointIsRecovered => EndpointIsRecovered' BY <1>1, <2>1, <2>2, SameEndpoint, RecoveredKept
  <2> QED BY <1>1, <2>2, <2>3, EndpointAside DEF CallsSettle
<1>3. CASE Verdict
  <2>1. At("verdict") /\ run'.place = "none" /\ (recovery' = recovery \/ run.clean)
    BY <1>3 DEF Verdict, NoRun, Completes, Unresolved, Recovers
  <2>2. EndpointIsRecovered => EndpointIsRecovered'
    BY <1>1, <2>1, SameEndpoint DEF EndpointIsRecovered, At
  <2> QED BY <1>1, <2>1, <2>2, EndpointAside DEF CallsSettle
<1>4. ASSUME NEW t \in Threads, Hardware(t) PROVE EndpointInv'
  <2>1. UNCHANGED <<run, recovery>> BY <1>4 DEF Hardware, Diagnostic, Disk
  <2>2. EndpointIsRecovered => EndpointIsRecovered' BY <1>1, <2>1, SameEndpoint DEF EndpointIsRecovered
  <2> QED BY <1>1, <2>1, <2>2, EndpointAside DEF CallsSettle, At
<1> QED BY <1>2, <1>3, <1>4

\* Where nobody is alive, all of it holds.
LEMMA NobodyEnough == ASSUME Nobody PROVE EndpointInv
<1>1. EndpointIsKnown /\ OneAlive BY NobodyIsKnown
<1>2. LaunchIsAlone BY DEF Nobody, LaunchIsAlone
<1>3. StopIsThrough /\ EndpointIsRecovered BY DEF StopIsThrough, EndpointIsRecovered
<1> QED BY <1>1, <1>2, <1>3 DEF EndpointInv

\* Where a stop has its caller.
StopPlace(t) == IF t = Worker THEN At("stopping") ELSE at[t] = "teardown"

\* A stop.
LEMMA StopKeepsEndpoint ==
    ASSUME EndpointInv, CallTypeOK, WorkerCalls, NEW t \in Threads, StopStep(t), StopPlace(t),
           UNCHANGED <<run, recovery, at, orphan>>
    PROVE  EndpointInv'
<1>1. /\ CallsApart(t) /\ call'[t].phase \in Stopping \cup {"stopped", "unstopped"}
      /\ call'[t].launch = call[t].launch
  BY StopCalls
<1>2. /\ ProcessesEnd
      /\ EndpointIsKnown /\ (In(t, "forget") => Nobody) => EndpointIsKnown'
      /\ EndpointIsKnown /\ Terminate(t) => Nobody' \/ To(t, "unstopped")
  BY StopEndpoint
<1>3. OneAlive' /\ (Nobody => Nobody') BY <1>2, OneStays DEF EndpointInv
<1>4. ASSUME ~orphan PROVE EndpointIsKnown' /\ LaunchIsAlone' /\ StopIsThrough' /\ EndpointIsRecovered'
  <2>0. EndpointIsKnown /\ LaunchIsAlone /\ StopIsThrough /\ EndpointIsRecovered BY <1>4 DEF EndpointInv
  <2>1. call[t].phase \in {"forget", "stopped"} => Nobody BY <2>0 DEF StopIsThrough, StopPlace
  <2>2. EndpointIsKnown' BY <1>2, <2>0, <2>1 DEF In
  <2>3. LaunchIsAlone'
    <3>1. CASE t = Worker
      BY <1>1, <3>1 DEF LaunchIsAlone, Stopping
    <3>2. CASE t # Worker
      <4>1. call'[Worker].phase = call[Worker].phase /\ call'[Worker].launch = call[Worker].launch
        BY <1>1, <3>2, SmallNumbers DEF CallsApart
      <4> QED BY <1>2, <2>0, <4>1 DEF LaunchIsAlone, ProcessesEnd, Launches
    <3> QED BY <3>1, <3>2
  <2>4. StopIsThrough'
    <3> SUFFICES ASSUME NEW u \in Threads, StopPlace(u)', call'[u].phase \in {"forget", "stopped"}
                 PROVE  Nobody'
      BY DEF StopIsThrough, StopPlace
    <3>1. StopPlace(u) BY DEF StopPlace, At
    <3>2. CASE u # t
      <4>1. call[u].phase \in {"forget", "stopped"} BY <1>1, <3>2 DEF CallsApart
      <4> QED BY <1>3, <2>0, <3>1, <4>1 DEF StopIsThrough, StopPlace
    <3>3. CASE u = t /\ Terminate(t)
      <4>1. "unstopped" \in Phases BY DEF Phases, Answers
      <4>2. ~To(t, "unstopped") BY <3>3, <4>1, CallGoes
      <4> QED BY <1>2, <2>0, <3>3, <4>2
    <3>4. CASE u = t /\ Forget(t)
      BY <1>3, <2>1, <3>4 DEF Forget, In
    <3>5. CASE u = t /\ Cancel(t)
      <4>1. Outdated(call) \in [Threads -> CallRecord] BY CallOutdated
      <4>2. call'[t].phase = "terminate" BY <3>5, <4>1 DEF Cancel, CallRecord
      <4> QED BY <3>5, <4>2
    <3> QED BY <3>2, <3>3, <3>4, <3>5 DEF StopStep
  <2>5. EndpointIsRecovered' BY <1>3, <2>0 DEF EndpointIsRecovered
  <2> QED BY <2>2, <2>3, <2>4, <2>5
<1> QED BY <1>3, <1>4 DEF EndpointInv

\* The launch of a diagnostic, and the other steps of its endpoint.
LEMMA CallEndpoint ==
    ASSUME EndpointInv, TypeInv, StoreInv, ThreadsInv, RecoveryInv, CallStep PROVE EndpointInv'
<1>0. RunTypeOK /\ CallTypeOK /\ WorkerCalls /\ Worker \in Threads BY TypesSplit, SmallNumbers DEF ThreadsInv
<1>1. CASE BeginLaunch
  <2>1. /\ UNCHANGED <<process, file, popen, orphan, at, recovery>> /\ At("begin") /\ Go("launch")
        /\ call' = [call EXCEPT ![Worker] = [NoCall EXCEPT !.phase = "enter", !.generation = "current"]]
    BY <1>1 DEF BeginLaunch, Files, Memory, Processes, Disk
  <2>2. call'[Worker].phase = "enter" /\ \A u \in Threads \ {Worker} : call'[u] = call[u]
    BY <1>0, <2>1 DEF CallTypeOK, NoCall
  <2>3. run'.place = "launch" BY <1>0, <2>1 DEF RunTypeOK, Go
  <2>4. CallsSettle BY <2>2 DEF CallsSettle
  <2>5. EndpointIsRecovered => EndpointIsRecovered' BY <2>1, <2>3, SameEndpoint DEF EndpointIsRecovered
  <2> QED BY <2>1, <2>2, <2>3, <2>4, <2>5, EndpointAside
<1>2. CASE LaunchDiagnostic
  <2>1. LaunchStep(Worker, run.round, TRUE, TRUE) /\ UNCHANGED <<run, at, recovery, orphan>> /\ At("launch")
    BY <1>2 DEF LaunchDiagnostic, Diagnostic, Disk
  <2>2. run.round \in Keys BY <1>0, DiagnosticAssumption DEF RunTypeOK
  <2>3. /\ OneAlive'
        /\ ~Free("state") /\ Nobody => Nobody'
        /\ EndpointIsKnown /\ LaunchIsAlone => EndpointIsKnown' /\ LaunchIsAlone'
    BY <1>0, <2>1, <2>2, LaunchEndpoint DEF EndpointInv
  <2>4. CallsApart(Worker) BY <1>0, <2>1, <2>2, LaunchCalls
  <2>5. ASSUME ~orphan PROVE StopIsThrough'
    <3> SUFFICES ASSUME NEW u \in Threads, StopPlace(u)', call'[u].phase \in {"forget", "stopped"}
                 PROVE  Nobody'
      BY DEF StopIsThrough, StopPlace
    <3>1. StopPlace(u) /\ u # Worker BY <2>1 DEF StopPlace, At
    <3>2. call[u].phase \in {"forget", "stopped"} BY <2>4, <3>1 DEF CallsApart
    <3>3. Nobody BY <2>5, <3>1, <3>2 DEF EndpointInv, StopIsThrough, StopPlace
    <3>4. locks["state"] = u BY <3>1 DEF ThreadsInv, RequestCalls, Requesters, StopPlace
    <3>5. ~Free("state") BY <3>4, ThreadsAssumption DEF Free
    <3> QED BY <2>3, <3>3, <3>5
  <2>6. EndpointIsRecovered'
    <3>1. recovery.exists BY <2>1 DEF RecoveryInv, At
    <3> QED BY <2>1, <3>1 DEF EndpointIsRecovered, At
  <2> QED BY <2>1, <2>3, <2>5, <2>6 DEF EndpointInv
<1>3. CASE Stage
  <2>1. /\ UNCHANGED <<process, file, popen, orphan, at, recovery>> /\ At("stage") /\ Go("stopping")
        /\ To(Worker, "cancel")
    BY <1>3 DEF Stage, Files, Memory, Processes, Disk, To
  <2>2. CallsApart(Worker) /\ call'[Worker].phase = "cancel"
    BY <1>0, <2>1, CallGoes DEF Phases, Stopping
  <2>3. run'.place = "stopping" BY <1>0, <2>1 DEF RunTypeOK, Go
  <2>4. CallsSettle BY <2>2 DEF CallsSettle, CallsApart
  <2>5. EndpointIsRecovered => EndpointIsRecovered' BY <2>1, <2>3, SameEndpoint DEF EndpointIsRecovered, At
  <2> QED BY <2>1, <2>2, <2>3, <2>4, <2>5, EndpointAside
<1>4. CASE StopsEndpoint
  BY <1>0, <1>4, StopKeepsEndpoint DEF StopsEndpoint, StopPlace, Diagnostic, Disk
<1>5. CASE EndpointStopped
  <2>1. UNCHANGED <<process, popen, orphan, call, at, recovery>> /\ At("stopping")
    BY <1>5 DEF EndpointStopped, Processes, Disk
  <2>2. CASE In(Worker, "stopped")
    <3>1. (Nobody => Nobody') /\ (OneAlive => OneAlive')
      BY <2>1 DEF Nobody, OneAlive, Alive, Up, Launches
    <3>2. ~orphan => Nobody BY <1>0, <2>1, <2>2 DEF EndpointInv, StopIsThrough, In
    <3>3. Nobody' => EndpointInv' BY NobodyEnough, PTL
    <3>4. orphan => EndpointInv' BY <2>1, <3>1 DEF EndpointInv
    <3> QED BY <3>1, <3>2, <3>3, <3>4
  <2>3. CASE In(Worker, "unstopped")
    <3>1. UNCHANGED file /\ run'.clean = FALSE /\ run'.place \in {"verdict", "peer"}
      BY <1>0, <1>5, <2>3 DEF EndpointStopped, Files, RunTypeOK, In
    <3>2. recovery.exists BY <2>1 DEF RecoveryInv, At
    <3>3. EndpointIsRecovered' BY <2>1, <3>1, <3>2 DEF EndpointIsRecovered
    <3> QED BY <2>1, <3>1, <3>3, EndpointAside DEF CallsSettle
  <2> QED BY <1>5, <2>2, <2>3 DEF EndpointStopped
<1> QED BY <1>1, <1>2, <1>3, <1>4, <1>5 DEF CallStep

\* The requests.
LEMMA RequestEndpoint ==
    ASSUME EndpointInv, TypeInv, ThreadsInv, NEW t \in Requesters, Request(t) \/ RequestStep(t)
    PROVE  EndpointInv'
<1>0. /\ ThreadTypes /\ CallTypeOK /\ RunTypeOK /\ AtTypeOK /\ WorkerCalls /\ RequestLocal(t)
      /\ t \in Threads /\ t # Worker
  BY TypesSplit DEF ThreadsInv, ThreadTypes, RequestLocal, Requesters
<1>1. Apart(t) /\ AtApart(t) BY <1>0, RequestMoves
<1>2. UNCHANGED <<recovery, orphan>> /\ run'.place = run.place /\ run'.clean = run.clean
  BY <1>0, RequestFrame DEF Disk
<1>3. ASSUME UNCHANGED <<process, file, popen>>,
             call'[t].phase \in {"wait", "decide", "fail", "record", "forget", "stopped"} =>
                 call'[t].phase = call[t].phase /\ call'[t].launch = call[t].launch,
             call'[t].phase \in {"forget", "stopped"} => (at'[t] = "teardown" => at[t] = "teardown")
      PROVE  EndpointInv'
  <2>1. CallsSettle BY <1>1, <1>3 DEF CallsSettle, Apart, CallsApart
  <2>2. \A u \in Threads : call'[u].phase \in {"forget", "stopped"} =>
            IF u = Worker THEN run'.place = "stopping" => At("stopping")
            ELSE at'[u] = "teardown" => at[u] = "teardown"
    BY <1>1, <1>2, <1>3 DEF AtApart, Requesters, At
  <2>3. EndpointIsRecovered => EndpointIsRecovered'
    BY <1>2, <1>3, SameEndpoint DEF EndpointIsRecovered
  <2> QED BY <1>2, <1>3, <2>1, <2>2, <2>3, EndpointAside
<1> USE DEF AtTypeOK, Continues
<1>4. CASE Request(t) \/ WaitForIdle(t) \/ Borrows(t) \/ Borrowed(t) \/ Hardware(t)
  <2>1. UNCHANGED <<process, file, popen, call>>
    BY <1>4 DEF Request, Cancels, ContinuesRun, Shutdown, Stops, Checks, WaitForIdle, Borrows, Borrowed, Hardware,
                launchVars, Files, Memory, Processes
  <2>2. at'[t] = "teardown" => at[t] = "teardown"
    BY <1>0, <1>4 DEF Request, Cancels, ContinuesRun, Shutdown, Stops, Checks, WaitForIdle, Borrows, Borrowed, Hardware
  <2> QED BY <1>3, <2>1, <2>2
<1>5. CASE CancelsLaunch(t)
  <2>1. UNCHANGED <<process, file, popen>> /\ call' = Outdated(call) BY <1>5 DEF CancelsLaunch, Files, Memory, Processes
  <2>2. call'[t].phase = call[t].phase /\ call'[t].launch = call[t].launch BY <1>0, <2>1, CallOutdated
  <2>3. at'[t] # "teardown" BY <1>0, <1>5 DEF CancelsLaunch
  <2> QED BY <1>3, <2>1, <2>2, <2>3
<1>6. CASE EndSession(t)
  <2>1. UNCHANGED <<process, file, popen>> /\ To(t, "cancel") BY <1>6 DEF EndSession, Files, Memory, Processes, To
  <2>2. call'[t].phase = "cancel" BY <1>0, <2>1, CallGoes DEF Phases, Stopping
  <2> QED BY <1>3, <2>1, <2>2
<1>7. CASE Teardown(t)
  <2>0. at[t] = "teardown" BY <1>7 DEF Teardown
  <2>1. CASE StopStep(t) /\ UNCHANGED at
    <3>1. UNCHANGED run BY <1>7 DEF Teardown, Diagnostic
    <3> QED BY <1>0, <1>2, <2>0, <2>1, <3>1, StopKeepsEndpoint DEF StopPlace
  <2>2. CASE In(t, "stopped") /\ UNCHANGED <<call, popen, Processes>>
    <3>1. (Nobody => Nobody') /\ (OneAlive => OneAlive')
      BY <2>2 DEF Nobody, OneAlive, Alive, Up, Launches, Processes
    <3>2. ~orphan => Nobody BY <1>0, <2>0, <2>2 DEF EndpointInv, StopIsThrough, In
    <3>3. Nobody' => EndpointInv' BY NobodyEnough, PTL
    <3>4. orphan => EndpointInv' BY <1>2, <3>1 DEF EndpointInv
    <3> QED BY <3>1, <3>2, <3>3, <3>4
  <2>3. CASE call' = [call EXCEPT ![t] = NoCall] /\ UNCHANGED <<Files, Memory, Processes>>
    <3>1. call'[t].phase = "idle" BY <1>0, <2>3, CallOver
    <3> QED BY <1>3, <2>3, <3>1 DEF Files, Memory, Processes
  <2> QED BY <1>7, <2>1, <2>2, <2>3 DEF Teardown
<1>8. CASE Returned(t)
  <2>1. UNCHANGED <<process, file, popen>> /\ call' = [call EXCEPT ![t] = NoCall]
    BY <1>8 DEF Returned, Files, Memory, Processes
  <2>2. call'[t].phase = "idle" BY <1>0, <2>1, CallOver
  <2> QED BY <1>3, <2>1, <2>2
<1> QED BY <1>4, <1>5, <1>6, <1>7, <1>8 DEF RequestStep

\* An endpoint that is alive is known, and somebody will stop it.
LEMMA EndpointSteps ==
    ASSUME TypeInv, StoreInv, ThreadsInv, RecoveryInv, EndpointInv, [Next \/ Idle]_vars PROVE EndpointInv'
<1>0. RunTypeOK /\ DiskTypeOK /\ StoreTypeOK /\ CallTypeOK BY TypesSplit
<1>1. CASE AsideStep BY <1>0, <1>1, AsideEndpoint
<1>2. CASE CallStep BY <1>2, CallEndpoint
<1>3. CASE AdapterStep \/ Verdict \/ \E t \in Threads : Hardware(t) BY <1>0, <1>3, AdapterEndpoint
<1>4. ASSUME NEW t \in Requesters, Request(t) \/ RequestStep(t) PROVE EndpointInv' BY <1>4, RequestEndpoint
<1>5. CASE StartDiagnostic
  <2>1. UNCHANGED <<process, file, popen, orphan, call, at>> /\ ~Running /\ run'.place = "preflight"
    BY <1>5 DEF StartDiagnostic, Begins, Processes, Files, NoRun
  <2>2. EndpointIsKnown => EndpointIsRecovered' BY <2>1, NotRunning, SameEndpoint DEF EndpointIsRecovered
  <2> QED BY <2>1, <2>2, EndpointAside DEF CallsSettle
<1>6. CASE StartUp
  <2>1. UNCHANGED <<process, file, popen, orphan, call, recovery>>
    BY <1>6 DEF StartUp, launchVars, Files, Memory, Processes, Disk
  <2>2. run'.place # "stopping" /\ \A u \in Requesters : at'[u] # "teardown"
    <3>1. At("none") /\ (\A u \in Requesters : at[u] = "idle") /\ at \in [Requesters -> RequestPlaces]
      BY <1>6 DEF StartUp, TypeInv
    <3>2. UNCHANGED run \/ run'.place = "stage" BY <1>6 DEF StartUp, NoRun
    <3>3. UNCHANGED at \/ \E t \in Requesters : at' = [at EXCEPT ![t] = "starting"] BY <1>6 DEF StartUp
    <3> QED BY <3>1, <3>2, <3>3 DEF At
  <2>3. EndpointIsRecovered => EndpointIsRecovered'
    <3>1. CASE recovery.exists
      BY <1>6, <2>1, <3>1 DEF StartUp, NoRun, EndpointIsRecovered
    <3>2. CASE ~recovery.exists
      BY <1>6, <2>1, <3>2, SameEndpoint DEF StartUp, EndpointIsRecovered
    <3> QED BY <3>1, <3>2
  <2> QED BY <2>1, <2>2, <2>3, EndpointAside DEF CallsSettle, Requesters
<1>7. CASE Endpoint
  <2>1. UNCHANGED <<run, recovery, at, orphan>> /\ EndpointStep({"passed", "failed"}, credential # "none")
    BY <1>7 DEF Endpoint, Diagnostic, Disk
  <2>2. /\ ProcessesEnd /\ (OneAlive /\ EndpointIsKnown => EndpointIsKnown') /\ UNCHANGED <<popen, call, locks>>
    BY <1>0, <2>1, EndpointEndpoint
  <2>3. OneAlive' /\ (Nobody => Nobody') BY <2>2, OneStays DEF EndpointInv
  <2>4. LaunchIsAlone => LaunchIsAlone' BY <2>2 DEF LaunchIsAlone, ProcessesEnd, Launches
  <2>5. StopIsThrough => StopIsThrough' BY <2>1, <2>2, <2>3 DEF StopIsThrough, At
  <2>6. EndpointIsRecovered => EndpointIsRecovered' BY <2>1, <2>3 DEF EndpointIsRecovered
  <2> QED BY <2>1, <2>2, <2>3, <2>4, <2>5, <2>6 DEF EndpointInv
<1>8. CASE RoomExpires \/ Unplugged \/ Idle \/ UNCHANGED vars
  <2>1. UNCHANGED <<process, file, popen, orphan, call, at, run, recovery>>
    BY <1>8 DEF RoomExpires, Unplugged, Idle, vars, launchVars, Files, Memory, Processes, Diagnostic, Disk
  <2>2. EndpointIsRecovered => EndpointIsRecovered' BY <2>1, SameEndpoint DEF EndpointIsRecovered
  <2> QED BY <2>1, <2>2, EndpointAside DEF CallsSettle, At
<1>9. CASE Crash
  <2>1. /\ UNCHANGED <<process, file, recovery>> /\ run'.place = "none"
        /\ call' = [t \in Threads |-> NoCall]
        /\ orphan' = (orphan \/ \E n \in Launches : process[n] \in {"gate", "gated"})
    BY <1>9 DEF Crash, LaunchCrash, Files, Processes, Disk, NoRun
  <2>2. OneAlive' BY <2>1 DEF EndpointInv, OneAlive, Alive, Up, Launches
  <2>3. ASSUME ~orphan' PROVE EndpointIsKnown' /\ LaunchIsAlone' /\ StopIsThrough' /\ EndpointIsRecovered'
    <3>1. ~orphan /\ \A n \in Launches : process[n] \notin {"gate", "gated"} BY <2>1, <2>3
    <3>2. EndpointIsKnown' BY <2>1, <3>1 DEF EndpointInv, EndpointIsKnown, Alive, Up, Launches
    <3>3. \A t \in Threads : call'[t].phase = "idle" BY <2>1 DEF NoCall
    <3>4. LaunchIsAlone' /\ StopIsThrough' BY <3>3, SmallNumbers DEF LaunchIsAlone, StopIsThrough
    <3>5. Nobody => Nobody' BY <2>1 DEF Nobody, Alive, Up, Launches
    <3> QED BY <2>1, <3>1, <3>2, <3>4, <3>5 DEF EndpointInv, EndpointIsRecovered
  <2> QED BY <2>2, <2>3 DEF EndpointInv
<1> QED
  BY <1>1, <1>2, <1>3, <1>4, <1>5, <1>6, <1>7, <1>8, <1>9, WorkerSteps, SmallNumbers DEF Next

-----------------------------------------------------------------------------
(* The adapter.                                                          *)

\* A routine takes the adapter before it goes on to attach it; a release that is done has
\* given it back.
LEMMA RoutineOwns ==
    ASSUME AdapterInv, NEW t \in Threads, HardwareStep(t)
    PROVE  /\ step'[t] \notin Resting \/ step'[t] \in {"ok", "failed"}
           /\ owned' => owned \/ step'[t] = "issue"
           /\ step'[t] = "ok" /\ routine[t] = "release" => ~owned'
           /\ UNCHANGED routine
<1> USE DEF AdapterInv, HardwareTypeOK, OnlyAttachAttaches, Resting
<1>1. CASE EnterAttach(t) BY <1>1 DEF EnterAttach
<1>2. CASE Record(t) BY <1>2 DEF Record, Moves
<1>3. CASE Inspect(t) BY <1>3 DEF Inspect, Moves, Leaves
<1>4. CASE Issue(t) BY <1>4 DEF Issue, GivesUp, Moves, Leaves
<1>5. CASE Enumerate(t) BY <1>5 DEF Enumerate, GivesUp, Moves, Leaves
<1>6. CASE EnterRelease(t) BY <1>6 DEF EnterRelease
<1>7. CASE Quiesce(t) BY <1>7 DEF Quiesce, Moves, Leaves
<1>8. CASE Detach(t) BY <1>8 DEF Detach, Moves, Leaves
<1>9. CASE Absent(t)
  <2>1. CASE owned' = FALSE /\ Leaves(t, Returns(t)) BY <2>1 DEF Returns, Leaves
  <2>2. CASE UNCHANGED owned /\ Leaves(t, "failed") BY <2>2 DEF Leaves
  <2> QED BY <1>9, <2>1, <2>2 DEF Absent
<1> QED BY <1>1, <1>2, <1>3, <1>4, <1>5, <1>6, <1>7, <1>8, <1>9 DEF HardwareStep

\* What the run has still to do stays to be done.
LEMMA ReturnsKept ==
    ASSUME RunReturns, run'.place = run.place, run'.clean = run.clean, recovery'.exists = recovery.exists,
           step'[Worker] = step[Worker]
    PROVE  RunReturns'
BY DEF RunReturns, At

\* A run that goes on will.
LEMMA RunGoesOn ==
    ASSUME recovery'.exists, run'.place # "preflight",
           run'.clean => run'.place # "verdict" /\ (run'.place = "releasing" => step'[Worker] # "ok")
    PROVE  RunReturns'
BY DEF RunReturns, At

\* So will a request that another thread leaves alone.
LEMMA ReleasesKept ==
    ASSUME NEW t, Releases(t), step'[t] = step[t], at'[t] = at[t] PROVE Releases(t)'
BY DEF Releases

\* A request releases what it has taken, or tells that it could not.
LEMMA RequestReleases ==
    ASSUME HardwareTypeOK, OnlyAttachAttaches, AtTypeOK, NEW t \in Requesters, RequestBusy(t), Releases(t),
           owned, owned', ~leftover', Request(t) \/ RequestStep(t)
    PROVE  Releases(t)'
<1>0. t \in Threads BY DEF Requesters
<1>1. CASE Hardware(t)
  <2>1. HardwareStep(t) /\ UNCHANGED at /\ t # Worker BY <1>1 DEF Hardware, Requesters
  <2>2. /\ step'[t] \notin Resting \/ step'[t] \in {"ok", "failed"}
        /\ step'[t] = "ok" /\ routine[t] = "release" => ~owned'
    BY <1>0, <2>1, RoutineOwns DEF AdapterInv
  <2>3. step'[t] # "failed" BY <1>1, <2>1 DEF Hardware
  <2>4. step[t] \notin Resting BY <2>1, BusyStep
  <2> QED BY <2>1, <2>2, <2>3, <2>4 DEF Releases, RequestBusy
<1>2. CASE Borrowed(t)
  <2>1. step[t] \in Resting /\ at[t] = "borrowing" BY <1>2 DEF Borrowed, Resting
  <2>2. step[t] = "ok" BY <2>1 DEF Releases
  <2>3. Calls(t, "release") BY <1>2, <2>2 DEF Borrowed
  <2>4. step'[t] = "enter" BY <1>0, <2>3 DEF Calls, HardwareTypeOK
  <2> QED BY <2>4 DEF Releases, Resting
<1>3. CASE Returned(t)
  BY <1>3 DEF Returned, Forgets, Releases, Resting
<1>4. CASE Borrows(t)
  <2>1. Calls(t, "attach") BY <1>4 DEF Borrows
  <2>2. step'[t] = "enter" BY <1>0, <2>1 DEF Calls, HardwareTypeOK
  <2> QED BY <2>2 DEF Releases, Resting
<1>5. CASE Teardown(t)
  <2>1. at[t] = "teardown" BY <1>5 DEF Teardown
  <2>2. step[t] \notin Resting BY <2>1 DEF Releases
  <2>3. UNCHANGED step BY <1>5, <2>2, StopFrame DEF Teardown, Calls, hardwareVars
  <2> QED BY <2>2, <2>3 DEF Releases
<1>6. CASE Request(t) \/ CancelsLaunch(t) \/ WaitForIdle(t) \/ EndSession(t)
  <2>1. UNCHANGED step /\ at[t] # "borrowing"
    BY <1>6 DEF Request, Cancels, ContinuesRun, Shutdown, Stops, Checks, Receives, CancelsLaunch, WaitForIdle,
                EndSession, hardwareVars
  <2> QED BY <2>1 DEF Releases
<1> QED BY <1>1, <1>2, <1>3, <1>4, <1>5, <1>6 DEF RequestStep

\* A step aside that does not end a run as it begins does not end it.
LEMMA AsideGoesOn ==
    ASSUME RunTypeOK, AsideStep, ~At("preflight") PROVE run'.place \notin {"preflight", "verdict"}
<1> USE DEF At, Go, Fails, RunTypeOK
<1>1. CASE Preflight \/ HardwareGate \/ AwaitContinue \/ Entry \/ CreateRoom \/ RegisterRoom \/ JoinRoom \/ WriteToken
  BY <1>1 DEF Preflight, HardwareGate, AwaitContinue, Entry, CreateRoom, RegisterRoom, JoinRoom, WriteToken
<1>2. CASE RegisterCredential \/ Launched \/ Watch \/ StopPeer \/ CloseRoom \/ RoomClosed
  BY <1>2 DEF RegisterCredential, Launched, Watch, StopPeer, CloseRoom, RoomClosed
<1>3. CASE DeleteCredential \/ CredentialDeleted \/ BeginCleanup \/ NextRound
  BY <1>3 DEF DeleteCredential, CredentialDeleted, BeginCleanup, NextRound, Opening
<1> QED BY <1>1, <1>2, <1>3 DEF AsideStep

\* The end of a run's part with the adapter.
LEMMA AdapterReturns ==
    ASSUME RunTypeOK, DiskTypeOK, HardwareTypeOK, RecoveryInv, RunReturns \/ ~owned, owned', AdapterStep
    PROVE  RunReturns'
<1>0. /\ recovery.exists /\ UNCHANGED recovery /\ Worker \in Threads
  BY SmallNumbers DEF AdapterStep, EnsureHardware, Attached, ReleaseAtEnd, ReleasedAtEnd, RecoverHardware, RecoveryInv, At, Disk
<1> USE DEF At, Go, Fails, RunTypeOK
<1>1. CASE EnsureHardware \/ Attached
  <2>1. run'.place \notin {"preflight", "verdict", "releasing"} BY <1>1 DEF EnsureHardware, Attached, Finally
  <2> QED BY <1>0, <2>1, RunGoesOn
<1>2. CASE ReleaseAtEnd
  <2>1. UNCHANGED owned BY <1>2 DEF ReleaseAtEnd, CallsHardware, Calls, Aside, hardwareVars
  <2>2. run'.place = "releasing" /\ Calls(Worker, "release") BY <1>2, <2>1 DEF ReleaseAtEnd, CallsHardware
  <2>3. step'[Worker] = "enter" BY <1>0, <2>2 DEF Calls, HardwareTypeOK
  <2> QED BY <1>0, <2>2, <2>3, RunGoesOn
<1>3. CASE ReleasedAtEnd
  <2>1. UNCHANGED owned /\ run' = [run EXCEPT !.place = "verdict", !.clean = @ /\ step[Worker] = "ok"]
    BY <1>3 DEF ReleasedAtEnd, Forgets
  <2>2. ~(run.clean /\ step[Worker] = "ok") BY <1>3, <2>1 DEF ReleasedAtEnd, RunReturns
  <2>3. run'.place = "verdict" /\ ~run'.clean BY <2>1, <2>2
  <2> QED BY <1>0, <2>3, RunGoesOn
<1>4. CASE RecoverHardware
  <2>1. CASE Cleaned /\ (owned \/ recovery.adapter)
    <3>1. run'.place = "releasing" /\ step'[Worker] = "enter"
      BY <1>0, <1>4, <2>1 DEF RecoverHardware, HardwareTypeOK
    <3> QED BY <1>0, <3>1, RunGoesOn
  <2>2. CASE ~(Cleaned /\ (owned \/ recovery.adapter))
    <3>1. UNCHANGED owned BY <1>4, <2>2 DEF RecoverHardware
    <3>2. ~Cleaned BY <2>2, <3>1
    <3>3. run'.place = "verdict" /\ run'.clean = FALSE BY <1>4, <2>2, <3>2 DEF RecoverHardware
    <3> QED BY <1>0, <3>3, RunGoesOn
  <2> QED BY <2>1, <2>2
<1> QED BY <1>1, <1>2, <1>3, <1>4 DEF AdapterStep

\* Somebody will return the adapter, or tell that it could not.
LEMMA OwnedSteps ==
    ASSUME TypeInv, OnlyAttachAttaches, FileIsNamed, StoreInv, ThreadsInv, RecoveryInv, EndpointInv, OwnedInv,
           [Next \/ Idle]_vars
    PROVE  OwnedInv'
<1> DEFINE Looked == RunReturns \/ Down \/ \E t \in Requesters : Releases(t)
<1> SUFFICES ASSUME ~orphan', owned', ~leftover' PROVE Looked'
  BY DEF OwnedInv
<1>0. /\ ThreadTypes /\ RunTypeOK /\ DiskTypeOK /\ HardwareTypeOK /\ AtTypeOK /\ StoreTypeOK /\ WorkerLocal
      /\ Worker \in Threads /\ Requesters = Threads \ {Worker} /\ AdapterInv
      /\ \A t \in Requesters : RequestLocal(t) /\ RequestBusy(t) /\ Serving(t)
  BY TypesSplit, SmallNumbers DEF ThreadTypes, ThreadsInv, WorkerLocal, RequestLocal, Requesters, AdapterInv
<1>1. ASSUME ~orphan, ~leftover, owned PROVE Looked
  BY <1>1 DEF OwnedInv
<1>2. ASSUME UNCHANGED <<step, at>>, NEW t \in Requesters, Releases(t) PROVE Looked'
  <2>1. Releases(t)' BY <1>2, ReleasesKept
  <2> QED BY <2>1 DEF Requesters
<1>3. CASE WorkerStep
  <2>1. Apart(Worker) /\ UNCHANGED at /\ ~At("none") BY <1>0, <1>3, WorkerMoves, WorkerUnderWay DEF WorkerLocal
  <2>2. ASSUME NEW t \in Requesters, Releases(t) PROVE Looked'
    <3>1. step'[t] = step[t] BY <1>0, <2>1 DEF Apart, StepsApart
    <3>2. Releases(t)' BY <2>1, <2>2, <3>1, ReleasesKept
    <3> QED BY <3>2 DEF Requesters
  <2>3. ~Down /\ recovery.exists BY <2>1 DEF Down, RecoveryInv
  <2>4. CASE AsideStep
    <3>1. UNCHANGED <<orphan, leftover, owned>> BY <2>4, AsideFrame DEF Aside, hardwareVars
    <3>2. ASSUME RunReturns PROVE RunReturns'
      <4>1. run'.place \notin {"none", "gating", "ensuring", "launch", "stopping", "releasing"} BY <1>0, <2>4, AsidePlaces
      <4>2. ~At("preflight") /\ run.place # "none" BY <2>1, <3>2 DEF RunReturns, At
      <4>3. recovery'.exists = recovery.exists BY <1>0, <2>4, AsideExists
      <4>4. run'.place \notin {"preflight", "verdict"} BY <1>0, <2>4, <4>2, AsideGoesOn
      <4> QED BY <2>3, <4>1, <4>3, <4>4, RunGoesOn
    <3> QED BY <1>1, <2>2, <2>3, <3>1, <3>2
  <2>5. CASE CallStep
    <3>1. UNCHANGED <<orphan, leftover, recovery>> /\ UNCHANGED owned
      <4>1. Forgets(Worker) \/ UNCHANGED hardwareVars
        BY <2>5, LaunchFrame, StopFrame DEF CallStep, BeginLaunch, LaunchDiagnostic, Stage, StopsEndpoint, EndpointStopped
      <4>2. UNCHANGED owned BY <4>1 DEF Forgets, hardwareVars
      <4> QED BY <2>5, <4>2 DEF CallStep, BeginLaunch, LaunchDiagnostic, Stage, StopsEndpoint, EndpointStopped, Diagnostic, Disk
    <3>2. \/ run'.place \in {"launch", "stopping", "peer"}
          \/ run'.place = "verdict" /\ ~run'.clean
          \/ UNCHANGED run /\ run.place \in {"launch", "stopping"}
      <4> USE DEF RunTypeOK, At
      <4>1. CASE BeginLaunch \/ Stage BY <1>0, <4>1 DEF BeginLaunch, Stage, Go
      <4>2. CASE LaunchDiagnostic \/ StopsEndpoint BY <4>2 DEF LaunchDiagnostic, StopsEndpoint, Diagnostic
      <4>3. CASE EndpointStopped BY <1>0, <4>3 DEF EndpointStopped, Go
      <4> QED BY <2>5, <4>1, <4>2, <4>3 DEF CallStep
    <3>3. ASSUME UNCHANGED run, run.place \in {"launch", "stopping"} PROVE RunReturns'
      BY <2>3, <3>1, <3>3, RunGoesOn
    <3> QED BY <2>3, <3>1, <3>2, <3>3, RunGoesOn
  <2>6. CASE AdapterStep
    <3>1. UNCHANGED <<orphan, leftover>>
      BY <2>6 DEF AdapterStep, EnsureHardware, Attached, ReleaseAtEnd, ReleasedAtEnd, RecoverHardware, CallsHardware, Aside
    <3>2. RunReturns \/ ~owned => RunReturns' BY <1>0, <2>6, AdapterReturns
    <3> QED BY <1>1, <2>2, <2>3, <3>1, <3>2
  <2>7. CASE Verdict
    <3>1. UNCHANGED <<orphan, leftover, owned>> /\ At("verdict") /\ run' = NoRun /\ (Completes \/ Unresolved)
      BY <2>7 DEF Verdict, hardwareVars
    <3>2. ASSUME RunReturns PROVE RunReturns'
      <4>1. recovery' = recovery BY <3>1, <3>2 DEF RunReturns, Completes, Unresolved, Recovers
      <4> QED BY <2>3, <3>1, <4>1, RunGoesOn DEF NoRun
    <3> QED BY <1>1, <2>2, <2>3, <3>1, <3>2
  <2>8. CASE Hardware(Worker)
    <3>1. HardwareStep(Worker) /\ UNCHANGED <<orphan, run, recovery>> /\ (owned' /\ ~leftover' => ~leftover)
      BY <2>8 DEF Hardware, Diagnostic, Disk
    <3>2. step[Worker] \notin Resting BY <3>1, BusyStep
    <3>3. /\ owned' => owned \/ step'[Worker] = "issue"
          /\ step'[Worker] = "ok" /\ routine[Worker] = "release" => ~owned'
      BY <1>0, <3>1, RoutineOwns
    <3>4. run.place \in {"releasing", "gating", "ensuring"} /\ (At("releasing") => routine[Worker] = "release")
      BY <1>0, <3>2 DEF WorkerLocal, WorkerBusy, At
    <3> QED BY <2>3, <3>1, <3>3, <3>4, RunGoesOn DEF At
  <2> QED BY <1>3, <2>4, <2>5, <2>6, <2>7, <2>8, WorkerSteps
<1>4. ASSUME NEW t \in Requesters, Request(t) \/ RequestStep(t) PROVE Looked'
  <2>0. t \in Threads /\ t # Worker BY <1>0
  <2>1. Apart(t) /\ AtApart(t) BY <1>0, <1>4, RequestMoves
  <2>2. UNCHANGED <<recovery, orphan>> /\ run'.place = run.place /\ run'.clean = run.clean
    BY <1>0, <1>4, RequestFrame DEF Disk
  <2>3. CASE Hardware(t) /\ step'[t] = "issue"
    <3>1. Releases(t)' BY <2>3 DEF Releases, Resting
    <3> QED BY <3>1 DEF Requesters
  <2>4. CASE ~(Hardware(t) /\ step'[t] = "issue")
    <3>1. owned
      <4>1. CASE Hardware(t)
        <5>1. HardwareStep(t) BY <4>1 DEF Hardware
        <5> QED BY <1>0, <2>0, <2>4, <4>1, <5>1, RoutineOwns
      <4>2. CASE ~Hardware(t)
        <5>1. Forgets(t) \/ Calls(t, "attach") \/ Calls(t, "release") \/ UNCHANGED hardwareVars
          BY <1>4, <4>2, StopFrame DEF Request, Cancels, ContinuesRun, Shutdown, Stops, Checks, RequestStep, CancelsLaunch,
             WaitForIdle, EndSession, Teardown, Returned, Borrows, Borrowed
        <5> QED BY <5>1 DEF Forgets, Calls, hardwareVars
      <4> QED BY <4>1, <4>2
    <3>2. ~leftover
      BY <1>4 DEF Request, Cancels, ContinuesRun, Shutdown, Stops, Checks, RequestStep, CancelsLaunch,
             WaitForIdle, EndSession, Teardown, Returned, Borrows, Borrowed, Hardware
    <3>3. Looked BY <1>1, <2>2, <3>1, <3>2
    <3>4. CASE RunReturns
      <4>1. step'[Worker] = step[Worker] BY <1>0, <2>0, <2>1 DEF Apart, StepsApart
      <4> QED BY <2>2, <3>4, <4>1, ReturnsKept
    <3>5. CASE Down
      BY <1>0, <1>4, <3>5, RequestServes DEF Down
    <3>6. ASSUME NEW u \in Requesters, Releases(u) PROVE Looked'
      <4>1. CASE u = t
        <5>1. Releases(t)' BY <1>0, <1>4, <3>1, <3>6, <4>1, RequestReleases DEF AdapterInv
        <5> QED BY <5>1 DEF Requesters
      <4>2. CASE u # t
        <5>1. step'[u] = step[u] /\ at'[u] = at[u] BY <1>0, <2>1, <4>2 DEF Apart, StepsApart, AtApart
        <5>2. Releases(u)' BY <3>6, <5>1, ReleasesKept
        <5> QED BY <5>2 DEF Requesters
      <4> QED BY <4>1, <4>2
    <3> QED BY <3>3, <3>4, <3>5, <3>6
  <2> QED BY <2>3, <2>4
<1>5. CASE StartDiagnostic
  <2>1. /\ serving /\ At("none") /\ ~incomplete /\ UNCHANGED <<step, at, orphan, leftover, owned>>
    BY <1>5 DEF StartDiagnostic, Begins, hardwareVars
  <2>2. ~RunReturns /\ ~Down BY <2>1 DEF RunReturns, Down, RecoveryInv
  <2> QED BY <1>1, <1>2, <2>1, <2>2
<1>6. CASE StartUp
  <2>1. UNCHANGED <<recovery, orphan, leftover>> BY <1>6 DEF StartUp, Disk
  <2>2. CASE recovery.exists
    <3>1. run'.place = "stage" BY <1>6, <2>2 DEF StartUp, NoRun
    <3> QED BY <2>1, <2>2, <3>1, RunGoesOn
  <2>3. CASE ~recovery.exists
    <3>1. UNCHANGED owned BY <1>6, <2>3 DEF StartUp, Calls, hardwareVars
    <3>2. ~Running
      <4>1. Nobody BY <2>1, <2>3 DEF EndpointInv, EndpointIsRecovered
      <4>2. popen \in 0..MaxLaunches BY <1>0 DEF StoreTypeOK
      <4> QED BY <4>1, <4>2, SmallNumbers DEF Nobody, Running, Verified, FileIsNamed, Launches, Alive
    <3>3. PICK t \in Requesters : Calls(t, "release") BY <1>6, <2>3, <3>1, <3>2 DEF StartUp
    <3>4. step'[t] = "enter" BY <1>0, <3>3 DEF Calls, HardwareTypeOK
    <3>5. Releases(t)' BY <3>4 DEF Releases, Resting
    <3> QED BY <3>5 DEF Requesters
  <2> QED BY <2>2, <2>3
<1>7. CASE Endpoint \/ RoomExpires \/ Unplugged \/ Idle \/ UNCHANGED vars
  <2>1. UNCHANGED <<step, at, run, recovery, orphan, leftover, owned, serving>>
    BY <1>7, EndpointFrame DEF Endpoint, RoomExpires, Unplugged, Unplug, Idle, vars, hardwareVars, Diagnostic, Disk, Life
  <2>2. RunReturns => RunReturns' BY <2>1, ReturnsKept
  <2>3. Down => Down' BY <2>1 DEF Down, At
  <2> QED BY <1>1, <1>2, <2>1, <2>2, <2>3
<1>8. CASE Crash
  <2>1. Down' BY <1>8 DEF Crash, Down, NoRun, At, Requesters
  <2> QED BY <2>1
<1> QED BY <1>3, <1>4, <1>5, <1>6, <1>7, <1>8 DEF Next

-----------------------------------------------------------------------------
(* The theorems.                                                         *)

\* The service starts without a run.
LEMMA Starts == Init => DiagnosticInv
<1> SUFFICES ASSUME Init PROVE DiagnosticInv
  OBVIOUS
<1>0. /\ Worker \in Threads /\ Requesters = Threads \ {Worker} /\ MaxLaunches \in Nat /\ 1 \in Keys
  BY SmallNumbers DEF Requesters
<1>1. HardwareTypeOK /\ OnlyAttachAttaches
  BY DEF Init, HardwareInit, HardwareTypeOK, OnlyAttachAttaches, Routines, Locked, Resting
<1>2. TypeInv
  <2>1. LocksTypeOK BY DEF Init, LaunchInit, LocksTypeOK
  <2>2. CallTypeOK BY <1>0 DEF Init, LaunchInit, CallTypeOK, NoCall, Answers
  <2>3. StoreTypeOK
    <3>1. FileTypeOK BY <1>0 DEF Init, LaunchInit, FileTypeOK, NoFile, States, NoKey
    <3>2. session \in BOOLEAN BY DEF Init, LaunchInit
    <3>3. process \in [Launches -> {"none", "gate", "gated", "up", "closing", "ended"}] /\ keyOf \in [Launches -> Keys \cup {NoKey}]
      BY DEF Init, LaunchInit
    <3> QED BY <1>0, <3>1, <3>2, <3>3 DEF Init, LaunchInit, StoreTypeOK
  <2>4. RunTypeOK BY DEF Init, NoRun, RunTypeOK, WorkerPlaces, Rounds
  <2>5. DiskTypeOK BY DEF Init, DiskTypeOK, NoRecovery, NoD7
  <2>6. FlagsTypeOK BY DEF Init, FlagsTypeOK
  <2>7. AtTypeOK BY DEF Init, AtTypeOK, RequestPlaces
  <2> QED BY <1>1, <2>1, <2>2, <2>3, <2>4, <2>5, <2>6, <2>7, TypesSplit
<1>3. \A n \in Launches : process[n] = "none" BY DEF Init, LaunchInit
<1>4. InOrder BY <1>0, <1>3 DEF InOrder, Launches
<1>5. FileIsNamed BY DEF Init, LaunchInit, FileIsNamed, NoFile
<1>6. \A t \in Threads : call[t].phase = "idle" /\ step[t] = "idle"
  BY DEF Init, LaunchInit, HardwareInit, NoCall
<1>7. At("none") /\ \A t \in Requesters : at[t] = "idle" BY DEF Init, NoRun, At
<1>8. ThreadsInv
  BY <1>0, <1>6, <1>7 DEF ThreadsInv, WorkerCalls, WorkerBusy, RequestCalls, RequestBusy, Serving, Launching, Stopping,
                          Resting, At
<1>9. RecoveryInv BY <1>7 DEF Init, RecoveryInv, NoRecovery, NoD7, At, RecoveryNamesLeftovers, Ending
<1>10. EndpointInv
  <2>1. Nobody BY <1>3 DEF Nobody, Alive, Up
  <2> QED BY <2>1, NobodyEnough
<1>11. OwnedInv BY DEF Init, HardwareInit, OwnedInv
<1> QED BY <1>1, <1>2, <1>4, <1>5, <1>8, <1>9, <1>10, <1>11 DEF DiagnosticInv

(* Where the threads are, whose endpoint is alive, what the recovery file names and   *)
(* who will return the adapter: this much is true at every moment of the control      *)
(* service, whatever its requests, its worker and its endpoint do in which order, and *)
(* wherever it dies (run_production_diagnostic, recover_incomplete_diagnostic).       *)
THEOREM DiagnosticInvariance == Spec => []DiagnosticInv
<1>1. Init => DiagnosticInv
  BY Starts
<1>2. DiagnosticInv /\ [Next \/ Idle]_vars => DiagnosticInv'
  <2> SUFFICES ASSUME DiagnosticInv, [Next \/ Idle]_vars PROVE DiagnosticInv'
    OBVIOUS
  <2>0. /\ TypeInv /\ OnlyAttachAttaches /\ InOrder /\ FileIsNamed
        /\ ThreadsInv /\ RecoveryInv /\ EndpointInv /\ OwnedInv
    BY DEF DiagnosticInv
  <2>1. StoreInv BY <2>0, TypesSplit DEF StoreInv
  <2>2. TypeInv' /\ OnlyAttachAttaches' /\ FileIsNamed' /\ InOrder' /\ ThreadsInv'
    BY <2>0, TypesSteps
  <2>3. RecoveryInv' BY <2>0, RecoverySteps
  <2>4. EndpointInv' BY <2>0, <2>1, EndpointSteps
  <2>5. OwnedInv' BY <2>0, <2>1, OwnedSteps
  <2> QED BY <2>2, <2>3, <2>4, <2>5 DEF DiagnosticInv
<1> QED BY <1>1, <1>2, PTL DEF Spec

(* A room and a credential stay named until they are gone, and when no diagnostic is    *)
(* under way and none is held back as unclean, no endpoint runs and the adapter is back *)
(* with Windows unless a request has told that it is not (DiagnosticD7Resources,        *)
(* final_cleanup, recover_incomplete_diagnostic).                                       *)
THEOREM DiagnosticConsistent == Spec => []DiagnosticIsConsistent
<1>1. DiagnosticInv => DiagnosticIsConsistent
  <2> SUFFICES ASSUME DiagnosticInv PROVE DiagnosticIsConsistent
    OBVIOUS
  <2>0. /\ TypeInv /\ ThreadsInv /\ RecoveryInv /\ EndpointInv /\ OwnedInv
    BY DEF DiagnosticInv
  <2>1. DiagnosticTypeOK /\ RecoveryNamesLeftovers BY <2>0 DEF TypeInv, RecoveryInv
  <2>2. ASSUME AtRest, ~incomplete, ~orphan
        PROVE  (\A n \in Launches : ~Up(n)) /\ (owned => leftover)
    <3>1. ~recovery.exists BY <2>0, <2>2 DEF AtRest, RecoveryInv
    <3>2. Nobody BY <2>0, <2>2, <3>1 DEF EndpointInv, EndpointIsRecovered
    <3>3. ~RunReturns /\ ~Down BY <2>2, <3>1 DEF RunReturns, Down, AtRest
    <3>4. \A t \in Requesters : ~Releases(t)
      BY <2>0, <2>2 DEF AtRest, Releases, ThreadsInv, RequestBusy
    <3> QED BY <2>0, <2>2, <3>2, <3>3, <3>4 DEF OwnedInv, Nobody, Alive
  <2> QED BY <2>1, <2>2 DEF DiagnosticIsConsistent, DiagnosticLeavesNothing
<1> QED BY <1>1, DiagnosticInvariance, PTL
=============================================================================
