------------------------ MODULE ConnectionRunProofs ------------------------
(***************************************************************************)
(* One connection run, its peer, and its recoveries after any number of     *)
(* crashes and unplugged adapters, for every set of programs.               *)
(*                                                                         *)
(* The argument follows the places of the control process.  BorrowInv: the  *)
(* adapter is out of the machine's hands only with a recovery file that     *)
(* says so, and a lease at every place that still has to return it.         *)
(* WorkerInv: the only process that can be alive is one the record names or *)
(* one still starting up.  QuietInv: what a probe saw quiet stays quiet.    *)
(* OutcomeInv: the outcome on record is the authority's.  VerdictInv and    *)
(* CredentialInv: a verdict ends the run, and what the next process needs   *)
(* to know is kept until there is one.                                      *)
(***************************************************************************)
EXTENDS ConnectionRun, TLAPS
-----------------------------------------------------------------------------
(* The places of the control process, in the order of a run.                *)
Opening == {"enter", "pairing", "start", "p0a", "establish", "save", "pair", "bind", "lease"}
Borrowing == {"intent", "attach", "activate", "spawn"}
Working == {"await_ready", "own", "mark", "ready", "await_attempt", "launch", "await_started",
            "direct", "drive", "drive_error", "send", "await_done"}
Ending == {"close", "stop"}
Before == Opening \cup Borrowing \cup Working \cup Ending
Aborting == {"abort", "abort_room"}
Closings == {"d1", "d5", "ack", "d6", "d7", "d8"}
Releasing == {"release", "detach", "returned"}
Settling == {"report", "finalize", "forget"}
Over == {"unclean", "done", "down"}
Resuming == {"r_room", "r_intent", "r_finish"}
Returning == {"r_radio", "r_verify", "r_usb", "r_done"}
Outcomes == {"none", "passed", "completed", "failed", "canceled"}
Codes == {"none", "peer", "run", "relay", "endpoint", "interrupted"}
Meanings == [outcome : Outcomes, code : Codes]

Records ==
  [phase : {"none", "preflight", "running", "closing", "cleaning", "terminal"},
   functional : {"pending", "passed", "failed", "canceled", "interrupted"},
   code : Codes, cleanup : {"pending", "verified", "failed"},
   usbSeen : BOOLEAN, wrapper : BOOLEAN, phy : BOOLEAN, attempt : BOOLEAN, endpoint : BOOLEAN]

FlagSet == [established : BOOLEAN, started : BOOLEAN, prepared : BOOLEAN,
            forced : BOOLEAN, quiet : BOOLEAN]

Attempts ==
  [phase : {"none", "active", "closing", "terminal"}, of : Meanings,
   mine : {"none", "clean", "dirty"}, peer : {"none", "clean", "dirty"}]

RecordShape == rec \in Records
FlagShape == flags \in FlagSet
MeaningShape == intent \in Meanings /\ result \in Meanings
AttemptShape == att \in Attempts /\ d5 \in {"none", "clean", "dirty"}

PlainShape ==
  /\ kind \in {"direct", "harness", "production"}
  /\ ret \in {"none", "abort", "d10", "recover"} /\ cancel \in BOOLEAN
  /\ session \in BOOLEAN /\ authority \in BOOLEAN
  /\ room \in {"none", "in", "ready", "out"} /\ boots \in 0..MaxBoots

TypeInv == HostTypeOK /\ RecordShape /\ FlagShape /\ MeaningShape /\ AttemptShape /\ PlainShape

-----------------------------------------------------------------------------
(* Where a run can be.                                                      *)
PlaceInv ==
  /\ pc \in {"enter", "pairing", "r_room", "r_intent"} => kind = "harness"
  /\ pc \in {"establish", "save", "pair"} => kind = "production"
  /\ pc = "direct" => kind = "direct"
  /\ pc \in Returning => ret = "recover"
  /\ pc \in Releasing => ret # "none"
  /\ pc = "abort_room" => ret = "abort"
  /\ pc = "d11" => ret = "d10"
  /\ ret = "recover" => pc \in Returning \cup Releasing \cup {"r_failed", "r_finish", "done"}

(* The run's outcome and the attempt's.                                     *)
OutcomeInv ==
  /\ att.phase \in {"none", "active"} => att.of = Nothing
  /\ intent # Nothing => intent = att.of
  /\ pc \in {"send", "await_done"} => intent # Nothing
  /\ pc = "close" => result.outcome \in {"passed", "failed", "canceled"}
  /\ att.of # Nothing => att.of.outcome \in {"completed", "canceled", "failed"}
  /\ kind # "direct" /\ "passed" \in {result.outcome, rec.functional} => att.of.outcome = "completed"

(* The verdict, and what a program keeps until it is told.                  *)
VerdictInv ==
  /\ Verified => pc \in Settling \cup Over \cup Resuming
  /\ pc \in Settling => Verified
  /\ pc = "r_finish" => Verified \/ (kind = "harness" /\ rec.phase = "none")
  /\ pc \in {"enter", "pairing", "start"} => rec.phase = "none"
  /\ rec.phase = "none" => \/ pc \in {"enter", "pairing", "start"}
                           \/ kind = "harness" /\ pc \in {"done", "down"} \cup Resuming
  /\ kind = "harness" /\ pc \in {"pairing", "start"} => session
  /\ RecoverableSession

CredentialInv ==
  /\ kind = "direct" \/ pc = "enter" => ~session
  /\ kind # "production" => ~authority
  /\ kind = "production" /\ (~Verified \/ pc \in {"report", "finalize"}) => (session => authority)
  /\ pc = "forget" => room = "out" \/ authority \/ ~session

(* The adapter: borrowed only with the file that says so.                   *)
Held == Borrowing \cup Working \cup Closings \cup Releasing

BorrowInv ==
  /\ usbFile.exists => usbFile.prior = prior /\ usbFile.intent = ~prior
  /\ lease.acquired => ~prior
  /\ usb = "attached" /\ ~prior => usbFile.exists /\ (lease.held => lease.acquired)
  /\ prior /\ replugs = 0 => usb = "attached"
  /\ pc = "attach" => ~prior /\ usbFile.exists
  /\ pc = "detach" => lease.acquired
  /\ pc \in Opening \cup {"intent", "d11", "r_done"} => ~usbFile.exists
  /\ pc \in Held => lease.held
  /\ pc \in Opening => ~flags.prepared
  /\ pc \in Ending /\ flags.prepared => lease.held
  /\ pc \in Ending \cup Aborting /\ usbFile.exists => lease.held

(* The worker and its radio.                                                *)
Launched == worker \in {"launched", "endpoint", "failing"}
Quiet == iface = "down" \/ usb = "detached"
Ours == rec.wrapper \/ ret # "recover"

WorkerInv ==
  /\ pc \in Opening \cup Borrowing => worker = "none"
  /\ pc \in Ending \cup {"abort"} /\ ~lease.held => worker = "none"
  /\ worker = "none" => iface = "down"
  /\ pc = "spawn" => lease.active
  /\ worker # "none" /\ lease.held => lease.active
  /\ Launched => rec.wrapper
  /\ pc \in {"mark", "ready", "await_attempt", "launch"} => rec.wrapper
  /\ pc \in Aborting \cup Closings \cup Releasing \cup Returning \cup {"d11"} /\ Ours => ~Alive

QuietInv ==
  /\ pc \in Before => d5 = "none" /\ att.mine = "none" /\ ~rec.usbSeen
  /\ "clean" \in {d5, att.mine} => ~Alive /\ iface = "down"
  /\ pc \in Releasing /\ ret = "d10" => iface = "down"
  /\ pc = "detach" /\ Ours => iface = "down"
  /\ pc = "abort_room" /\ ~lease.held => Quiet
  /\ pc \in {"d11", "r_done"} /\ Ours => Quiet
  /\ rec.usbSeen /\ rec.wrapper => ~Alive /\ Quiet

IInv ==
  /\ TypeInv /\ PlaceInv /\ OutcomeInv /\ VerdictInv /\ CredentialInv
  /\ BorrowInv /\ WorkerInv /\ QuietInv

(* What the helpers make.                                                   *)

LEMMA MeansTyped == \A o \in Outcomes, c \in Codes : Means(o, c) \in Meanings
BY DEF Means, Outcomes, Meanings, Codes

LEMMA NothingTyped == Nothing \in Meanings
BY DEF Nothing, Outcomes, Meanings, Codes

LEMMA HostRecords ==
  ASSUME HostTypeOK
  PROVE  /\ NoFile \in [exists : BOOLEAN, prior : BOOLEAN, intent : BOOLEAN]
         /\ [exists |-> TRUE, prior |-> prior, intent |-> ~prior]
              \in [exists : BOOLEAN, prior : BOOLEAN, intent : BOOLEAN]
         /\ {NoLease, LeaseFromRecovery} \subseteq [held : BOOLEAN, acquired : BOOLEAN, active : BOOLEAN]
<1>1. (usbFile.intent /\ ~usbFile.prior) \in BOOLEAN
  OBVIOUS
<1>2. prior \in BOOLEAN
  BY DEF HostTypeOK
<1>3. (~prior) \in BOOLEAN
  BY <1>2
<1> QED
  BY <1>1, <1>2, <1>3 DEF NoFile, NoLease, LeaseFromRecovery

-----------------------------------------------------------------------------
(* Shapes.                                                                  *)

\* The record is written whole by the coordinator: each command leaves a record.
LEMMA RecordSteps ==
  RecordShape /\ MeaningShape /\ PlainShape /\ PlaceInv /\ OutcomeInv /\ [Next]_vars
    => RecordShape'
<1>0. SUFFICES ASSUME RecordShape /\ MeaningShape /\ PlainShape /\ PlaceInv /\ OutcomeInv, [Next]_vars
               PROVE  RecordShape'
  OBVIOUS
<1> USE DEF RecordShape, Records, Body, BodyFails, Raise, KeepHost, KeepRelay, Means, hostVars,
    controlVars, fileVars, relayVars, runVars, vars
<1>1. ASSUME Environment PROVE RecordShape'
  BY <1>0, <1>1 DEF Environment, WorkerReady, Alive, EndpointStarts, TicketRefused, WorkerLeaves,
    Replug, EndpointFails, EndpointCloses, StageEnds, AttemptStarts, PeerEnds, Closing,
    PeerAcknowledges, BarrierEnds
<1>2. ASSUME Start PROVE RecordShape'
  BY <1>2 DEF Start, NewRecord, Codes
<1>3. ASSUME Bind PROVE RecordShape'  BY <1>0, <1>3 DEF Bind
<1>4. ASSUME AcquireWrapper PROVE RecordShape'  BY <1>0, <1>4 DEF AcquireWrapper
<1>5. ASSUME MarkP0Ready PROVE RecordShape'  BY <1>0, <1>5 DEF MarkP0Ready
<1>6. ASSUME LockAttempt PROVE RecordShape'  BY <1>0, <1>6 DEF LockAttempt
<1>7. ASSUME AcknowledgeEndpoint PROVE RecordShape'  BY <1>0, <1>7 DEF AcknowledgeEndpoint, Sees
<1>8. ASSUME CloseRun PROVE RecordShape'
  BY <1>0, <1>8 DEF CloseRun, OutcomeInv, MeaningShape, Meanings
<1>9. ASSUME Unclean PROVE RecordShape'  BY <1>0, <1>9 DEF Unclean
<1>10. ASSUME AbortCheck PROVE RecordShape'
  BY <1>0, <1>10 DEF AbortCheck, Quiesced, D8D9, LaunchAbsent, InWsl, Alive
<1>11. ASSUME AbortRoom PROVE RecordShape'
  <2>1. PICK c \in {"verified", "failed"}, u \in BOOLEAN :
             rec' = [rec EXCEPT !.phase = "terminal", !.cleanup = c, !.usbSeen = u]
    <3>1. (usbFile = NoFile /\ ~flags.forced /\ flags.quiet /\ ~lease.held /\ StageReleased) \in BOOLEAN
      OBVIOUS
    <3> QED
      BY <1>11, <3>1 DEF AbortRoom
  <2> QED
    BY <1>0, <2>1
<1>12. ASSUME CheckBarrier PROVE RecordShape'
  BY <1>0, <1>12 DEF CheckBarrier, BarrierHolds, Agreed, AuthorityOutcome
<1>13. ASSUME ProbeRelease PROVE RecordShape'
  BY <1>0, <1>13 DEF ProbeRelease, ReleaseFails, LaunchAbsent, RadioQuiet, RadioDown, Alive
<1>14. ASSUME CompleteD11 PROVE RecordShape'  BY <1>0, <1>14 DEF CompleteD11
<1>15. ASSUME Release PROVE RecordShape'
  <2>1. rec' = rec \/ ReleaseFails
    BY <1>0, <1>15 DEF Release, PlaceInv, PlainShape, Releasing, ReleaseDone, ReleaseFailed
  <2> QED
    BY <1>0, <2>1 DEF ReleaseFails
<1>16. ASSUME Detach PROVE RecordShape'
  <2>1. rec' = rec \/ ReleaseFails
    BY <1>0, <1>16 DEF Detach, PlaceInv, PlainShape, Releasing, ReleaseDone, ReleaseFailed
  <2> QED
    BY <1>0, <2>1 DEF ReleaseFails
<1>17. ASSUME Returned PROVE RecordShape'
  <2>1. rec' = rec \/ ReleaseFails
    BY <1>0, <1>17 DEF Returned, PlaceInv, PlainShape, Releasing, ReleaseDone, ReleaseFailed
  <2> QED
    BY <1>0, <2>1 DEF ReleaseFails
<1>18. ASSUME Boot PROVE RecordShape'  BY <1>0, <1>18 DEF Boot, Verified
<1>19. ASSUME RecoverCompletes PROVE RecordShape'  BY <1>0, <1>19 DEF RecoverCompletes
<1>20. ASSUME UserCancels \/ EnterSession \/ ConfirmPairing \/ PassiveCheck \/ EnterRoom \/
             SaveCredential \/ Pair \/ CreateLease
      PROVE  RecordShape'
  BY <1>0, <1>20 DEF UserCancels, MayCancel, EnterSession, ConfirmPairing, PairingFails, LetGo,
    PassiveCheck, EnterRoom, SaveCredential, Pair, CreateLease, NoLease
<1>21. ASSUME WriteIntent \/ Attach \/ Enumerated \/ Spawn \/ AwaitReady \/ SendReady \/ Launch \/
             DirectStage
      PROVE  RecordShape'
  BY <1>0, <1>21 DEF WriteIntent, PersistIntent, AdapterIs, Attach, AttachCommand, Enumerated,
    Activate, InWsl, Spawn, AwaitReady, Sees, SendReady, Launch, DirectStage
<1>22. ASSUME Drive \/ DriveError \/ SendIntent \/ AwaitDone \/ Stop \/ Forget \/ BeginCleanupD1 \/
             MeasureD5
      PROVE  RecordShape'
  BY <1>0, <1>22 DEF Drive, Sees, BeginD, HasD, Closing, OwnerEnds, Nothing, DriveError, SendIntent,
    AwaitDone, Mapped, Stop, Alive, Forget, BeginCleanupD1, MeasureD5, Agreed, AuthorityOutcome,
    ReportIs, Measured, ProcessGone, InterfacesAbsent, RadioDown
<1>23. ASSUME AcknowledgeD5 \/ AwaitBarrier \/ ReportD11 \/ FinalizeRoom \/ ResumeRoom \/ RecoverIntent
             \/ RecoverProcess \/ RecoverRadio
      PROVE  RecordShape'
  BY <1>0, <1>23 DEF AcknowledgeD5, AwaitBarrier, ReportD11, FinalizeRoom, LetGo, KeepsRoom,
    ResumeRoom, AfterRoom, Verified, RecoverIntent, Closing, RecoverProcess, KnownProcess, Alive,
    RecoverRadio, Quiesced, KnownNetdev
<1>24. ASSUME RecoverVerify \/ RecoverUsb \/ RecoverFinish \/ Dies PROVE RecordShape'
  BY <1>0, <1>24 DEF RecoverVerify, D8D9, LaunchAbsent, InWsl, Alive, RecoverUsb, LeaseFromRecovery,
    RecoverFinish, HarnessFinishes, ServiceFinishes, LetGo, Dies, Forgotten, NoFlags, NoLease, Nothing
<1>25. CASE UNCHANGED vars  BY <1>0, <1>25
<1> QED
  BY <1>0, <1>1, <1>2, <1>3, <1>4, <1>5, <1>6, <1>7, <1>8, <1>9, <1>10, <1>11, <1>12, <1>13, <1>14,
    <1>15, <1>16, <1>17, <1>18, <1>19, <1>20, <1>21, <1>22, <1>23, <1>24, <1>25 DEF Next, Executor,
    Closes, Recovers

\* The locals of _run and of the lifecycle.
LEMMA FlagSteps == FlagShape /\ [Next]_vars => FlagShape'
<1>0. SUFFICES ASSUME FlagShape, [Next]_vars PROVE FlagShape'
  OBVIOUS
<1> USE DEF FlagShape, FlagSet, Body, BodyFails, Raise, KeepHost, KeepRelay, Means, hostVars,
    controlVars, fileVars, relayVars, runVars, vars
<1>1. ASSUME Environment PROVE FlagShape'
  BY <1>0, <1>1 DEF Environment, WorkerReady, Alive, EndpointStarts, TicketRefused, WorkerLeaves,
    Replug, EndpointFails, EndpointCloses, StageEnds, AttemptStarts, PeerEnds, Closing,
    PeerAcknowledges, BarrierEnds
<1>2. ASSUME Pair PROVE FlagShape'  BY <1>0, <1>2 DEF Pair
<1>3. ASSUME LockAttempt PROVE FlagShape'  BY <1>0, <1>3 DEF LockAttempt
<1>4. ASSUME AcknowledgeEndpoint PROVE FlagShape'  BY <1>0, <1>4 DEF AcknowledgeEndpoint, Sees
<1>5. ASSUME Stop PROVE FlagShape'  BY <1>0, <1>5 DEF Stop, Alive
<1>6. ASSUME AbortCheck PROVE FlagShape'
  BY <1>0, <1>6 DEF AbortCheck, Quiesced, D8D9, LaunchAbsent, InWsl, Alive
<1>7. ASSUME ResumeRoom PROVE FlagShape'  BY <1>0, <1>7 DEF ResumeRoom, AfterRoom, Verified
<1>8. ASSUME Dies PROVE FlagShape'  BY <1>0, <1>8 DEF Dies, Forgotten, NoFlags, NoLease, Nothing
<1>9. ASSUME UserCancels \/ EnterSession \/ ConfirmPairing \/ Start \/ PassiveCheck \/ EnterRoom \/
             SaveCredential \/ Bind
      PROVE  FlagShape'
  BY <1>0, <1>9 DEF UserCancels, MayCancel, EnterSession, ConfirmPairing, PairingFails, LetGo, Start,
    NewRecord, PassiveCheck, EnterRoom, SaveCredential, Bind
<1>10. ASSUME CreateLease \/ WriteIntent \/ Attach \/ Enumerated \/ Spawn \/ AwaitReady \/
             AcquireWrapper \/ MarkP0Ready
      PROVE  FlagShape'
  BY <1>0, <1>10 DEF CreateLease, NoLease, WriteIntent, PersistIntent, AdapterIs, Attach,
    AttachCommand, Enumerated, Activate, InWsl, Spawn, AwaitReady, Sees, AcquireWrapper, MarkP0Ready
<1>11. ASSUME SendReady \/ Launch \/ DirectStage \/ Drive \/ DriveError \/ SendIntent \/ AwaitDone \/
             CloseRun
      PROVE  FlagShape'
  BY <1>0, <1>11 DEF SendReady, Launch, DirectStage, Sees, Drive, BeginD, HasD, Closing, OwnerEnds,
    Nothing, DriveError, SendIntent, AwaitDone, Mapped, CloseRun
<1>12. ASSUME Unclean \/ AbortRoom \/ Forget \/ BeginCleanupD1 \/ MeasureD5 \/ AcknowledgeD5 \/
             AwaitBarrier \/ CheckBarrier
      PROVE  FlagShape'
  BY <1>0, <1>12 DEF Unclean, AbortRoom, StageReleased, Joined, LetGo, KeepsRoom, NoFile, Forget,
    BeginCleanupD1, BeginD, HasD, Closing, Nothing, MeasureD5, Agreed, AuthorityOutcome, ReportIs,
    Measured, ProcessGone, InterfacesAbsent, RadioDown, Alive, AcknowledgeD5, AwaitBarrier,
    CheckBarrier, BarrierHolds
<1>13. ASSUME ProbeRelease \/ CompleteD11 \/ ReportD11 \/ FinalizeRoom \/ Release \/ Detach \/ Returned
             \/ Boot
      PROVE  FlagShape'
  BY <1>0, <1>13 DEF ProbeRelease, ReleaseFails, LaunchAbsent, RadioQuiet, RadioDown, Alive,
    CompleteD11, ReportD11, FinalizeRoom, LetGo, KeepsRoom, Release, ReleaseDone, ReleaseFailed,
    NothingToReturn, MayDetach, PriorStateSeen, AdapterIs, InWsl, NoFile, NoLease, Detach, Returned,
    Boot, Verified
<1>14. ASSUME RecoverIntent \/ RecoverProcess \/ RecoverRadio \/ RecoverVerify \/ RecoverUsb \/
             RecoverCompletes \/ RecoverFinish
      PROVE  FlagShape'
  BY <1>0, <1>14 DEF RecoverIntent, Closing, AfterRoom, Verified, RecoverProcess, KnownProcess, Alive,
    RecoverRadio, Quiesced, KnownNetdev, RecoverVerify, D8D9, LaunchAbsent, InWsl, RecoverUsb,
    LeaseFromRecovery, RecoverCompletes, RecoverFinish, HarnessFinishes, ServiceFinishes, LetGo
<1>15. CASE UNCHANGED vars  BY <1>0, <1>15
<1> QED
  BY <1>0, <1>1, <1>2, <1>3, <1>4, <1>5, <1>6, <1>7, <1>8, <1>9, <1>10, <1>11, <1>12, <1>13, <1>14,
    <1>15 DEF Next, Executor, Closes, Recovers

\* An intent and a result are an outcome with its code.
LEMMA MeaningSteps == MeaningShape /\ AttemptShape /\ [Next]_vars => MeaningShape'
<1>0. SUFFICES ASSUME MeaningShape /\ AttemptShape, [Next]_vars PROVE MeaningShape'
  OBVIOUS
<1> USE DEF MeaningShape, AttemptShape, Attempts, Outcomes, Codes, Body, BodyFails, Raise, KeepHost,
    KeepRelay, hostVars, controlVars, fileVars, relayVars, runVars, vars
<1>1. ASSUME Environment PROVE MeaningShape'
  BY <1>0, MeansTyped, NothingTyped, <1>1 DEF Environment, WorkerReady, Alive, EndpointStarts,
    TicketRefused, WorkerLeaves, Replug, EndpointFails, EndpointCloses, StageEnds, AttemptStarts,
    PeerEnds, Closing, PeerAcknowledges, BarrierEnds
<1>2. ASSUME PassiveCheck PROVE MeaningShape'  BY <1>0, MeansTyped, NothingTyped, <1>2 DEF PassiveCheck
<1>3. ASSUME EnterRoom PROVE MeaningShape'  BY <1>0, MeansTyped, NothingTyped, <1>3 DEF EnterRoom
<1>4. ASSUME Pair PROVE MeaningShape'  BY <1>0, MeansTyped, NothingTyped, <1>4 DEF Pair
<1>5. ASSUME Bind PROVE MeaningShape'  BY <1>0, MeansTyped, NothingTyped, <1>5 DEF Bind
<1>6. ASSUME WriteIntent PROVE MeaningShape'
  BY <1>0, MeansTyped, NothingTyped, <1>6 DEF WriteIntent, PersistIntent, AdapterIs
<1>7. ASSUME Attach PROVE MeaningShape'
  BY <1>0, MeansTyped, NothingTyped, <1>7 DEF Attach, AttachCommand
<1>8. ASSUME Enumerated PROVE MeaningShape'
  BY <1>0, MeansTyped, NothingTyped, <1>8 DEF Enumerated, Activate, AdapterIs, InWsl
<1>9. ASSUME Spawn PROVE MeaningShape'  BY <1>0, MeansTyped, NothingTyped, <1>9 DEF Spawn
<1>10. ASSUME AwaitReady PROVE MeaningShape'
  BY <1>0, MeansTyped, NothingTyped, <1>10 DEF AwaitReady, Sees
<1>11. ASSUME SendReady PROVE MeaningShape'  BY <1>0, MeansTyped, NothingTyped, <1>11 DEF SendReady
<1>12. ASSUME LockAttempt PROVE MeaningShape'  BY <1>0, MeansTyped, NothingTyped, <1>12 DEF LockAttempt
<1>13. ASSUME Launch PROVE MeaningShape'  BY <1>0, MeansTyped, NothingTyped, <1>13 DEF Launch
<1>14. ASSUME AcknowledgeEndpoint PROVE MeaningShape'
  BY <1>0, MeansTyped, NothingTyped, <1>14 DEF AcknowledgeEndpoint, Sees
<1>15. ASSUME DirectStage PROVE MeaningShape'
  BY <1>0, MeansTyped, NothingTyped, <1>15 DEF DirectStage, Sees
<1>16. ASSUME Drive PROVE MeaningShape'
  BY <1>0, MeansTyped, NothingTyped, <1>16 DEF Drive, Sees, BeginD, HasD, Closing, OwnerEnds, Nothing
<1>17. ASSUME DriveError PROVE MeaningShape'
  BY <1>0, MeansTyped, NothingTyped, <1>17 DEF DriveError, BeginD, HasD, Closing, Nothing
<1>18. ASSUME AwaitDone PROVE MeaningShape'
  <2>1. Mapped(intent) \in Meanings
    <3>1. intent.outcome \in Outcomes /\ intent.code \in Codes
      BY <1>0 DEF Meanings
    <3> QED
      BY <3>1, MeansTyped DEF Mapped
  <2> QED
    BY <1>0, <2>1, <1>18 DEF AwaitDone
<1>19. ASSUME BeginCleanupD1 PROVE MeaningShape'
  BY <1>0, MeansTyped, NothingTyped, <1>19 DEF BeginCleanupD1, BeginD, HasD, Closing, Nothing
<1>20. ASSUME Dies PROVE MeaningShape'
  BY <1>0, MeansTyped, NothingTyped, <1>20 DEF Dies, Forgotten, NoFlags, NoLease, Nothing
<1>21. ASSUME UserCancels \/ EnterSession \/ ConfirmPairing \/ Start \/ SaveCredential \/ CreateLease
             \/ AcquireWrapper \/ MarkP0Ready
      PROVE  MeaningShape'
  BY <1>0, MeansTyped, NothingTyped, <1>21 DEF UserCancels, MayCancel, EnterSession, ConfirmPairing,
    PairingFails, LetGo, Start, NewRecord, SaveCredential, CreateLease, NoLease, AcquireWrapper,
    MarkP0Ready
<1>22. ASSUME SendIntent \/ CloseRun \/ Stop \/ Unclean \/ AbortCheck \/ AbortRoom \/ Forget \/
             MeasureD5
      PROVE  MeaningShape'
  BY <1>0, MeansTyped, NothingTyped, <1>22 DEF SendIntent, CloseRun, Stop, Alive, Unclean, AbortCheck,
    Quiesced, D8D9, LaunchAbsent, InWsl, AbortRoom, StageReleased, Joined, LetGo, KeepsRoom, NoFile,
    Forget, MeasureD5, Agreed, AuthorityOutcome, ReportIs, Measured, ProcessGone, InterfacesAbsent,
    RadioDown
<1>23. ASSUME AcknowledgeD5 \/ AwaitBarrier \/ CheckBarrier \/ ProbeRelease \/ CompleteD11 \/ ReportD11
             \/ FinalizeRoom \/ Release
      PROVE  MeaningShape'
  BY <1>0, MeansTyped, NothingTyped, <1>23 DEF AcknowledgeD5, AwaitBarrier, CheckBarrier, BarrierHolds,
    Agreed, AuthorityOutcome, ProbeRelease, ReleaseFails, LaunchAbsent, RadioQuiet, RadioDown, Alive,
    CompleteD11, ReportD11, FinalizeRoom, LetGo, KeepsRoom, Release, ReleaseDone, ReleaseFailed,
    NothingToReturn, MayDetach, PriorStateSeen, AdapterIs, InWsl, NoFile, NoLease
<1>24. ASSUME Detach \/ Returned \/ Boot \/ ResumeRoom \/ RecoverIntent \/ RecoverProcess \/
             RecoverRadio \/ RecoverVerify
      PROVE  MeaningShape'
  BY <1>0, MeansTyped, NothingTyped, <1>24 DEF Detach, ReleaseFailed, ReleaseFails, Returned,
    ReleaseDone, PriorStateSeen, AdapterIs, InWsl, RadioDown, NoFile, NoLease, Boot, Verified,
    ResumeRoom, AfterRoom, RecoverIntent, Closing, RecoverProcess, KnownProcess, Alive, RecoverRadio,
    Quiesced, KnownNetdev, RecoverVerify, D8D9, LaunchAbsent
<1>25. ASSUME RecoverUsb \/ RecoverCompletes \/ RecoverFinish PROVE MeaningShape'
  BY <1>0, MeansTyped, NothingTyped, <1>25 DEF RecoverUsb, LeaseFromRecovery, RecoverCompletes,
    RecoverFinish, HarnessFinishes, ServiceFinishes, LetGo
<1>26. CASE UNCHANGED vars  BY <1>0, <1>26
<1> QED
  BY <1>0, <1>1, <1>2, <1>3, <1>4, <1>5, <1>6, <1>7, <1>8, <1>9, <1>10, <1>11, <1>12, <1>13, <1>14,
    <1>15, <1>16, <1>17, <1>18, <1>19, <1>20, <1>21, <1>22, <1>23, <1>24, <1>25, <1>26 DEF Next,
    Executor, Closes, Recovers

\* The relay's attempt and this side's evidence.
LEMMA AttemptSteps == AttemptShape /\ [Next]_vars => AttemptShape'
<1>0. SUFFICES ASSUME AttemptShape, [Next]_vars PROVE AttemptShape'
  OBVIOUS
<1> USE DEF AttemptShape, Attempts, Outcomes, Codes, Body, BodyFails, Raise, KeepHost, KeepRelay,
    hostVars, controlVars, fileVars, relayVars, runVars, vars
<1>1. ASSUME WorkerReady, UNCHANGED <<controlVars, fileVars, relayVars, runVars>> PROVE AttemptShape'
  BY <1>0, MeansTyped, NothingTyped, <1>1 DEF WorkerReady, Alive
<1>2. ASSUME EndpointStarts, UNCHANGED <<controlVars, fileVars, relayVars, runVars>> PROVE AttemptShape'
  BY <1>0, MeansTyped, NothingTyped, <1>2 DEF EndpointStarts, Alive
<1>3. ASSUME TicketRefused, UNCHANGED <<controlVars, fileVars, relayVars, runVars>> PROVE AttemptShape'
  BY <1>0, MeansTyped, NothingTyped, <1>3 DEF TicketRefused, Alive
<1>4. ASSUME WorkerLeaves, UNCHANGED <<controlVars, fileVars, relayVars, runVars>> PROVE AttemptShape'
  BY <1>0, MeansTyped, NothingTyped, <1>4 DEF WorkerLeaves, Alive
<1>5. ASSUME Replug, UNCHANGED <<controlVars, fileVars, relayVars, runVars>> PROVE AttemptShape'
  BY <1>0, MeansTyped, NothingTyped, <1>5 DEF Replug, Alive
<1>6. ASSUME AttemptStarts PROVE AttemptShape'
  BY <1>0, MeansTyped, NothingTyped, <1>6 DEF AttemptStarts
<1>7. ASSUME PeerEnds PROVE AttemptShape'
  <2>1. CASE att' = [att EXCEPT !.phase = "terminal"]
    BY <1>0, <1>7, <2>1 DEF PeerEnds
  <2>2. CASE \E o \in {"completed", "canceled", "failed"} : att' = Closing(o, "peer")
    <3>1. PICK o \in {"completed", "canceled", "failed"} :
             att' = [att EXCEPT !.phase = "closing", !.of = Means(o, "peer")]
      BY <2>2 DEF Closing
    <3>2. Means(o, "peer") \in Meanings
      BY MeansTyped
    <3>3. UNCHANGED d5
      BY <1>7 DEF PeerEnds
    <3> QED
      BY <1>0, <3>1, <3>2, <3>3
  <2> QED
    BY <1>0, <1>7, <2>1, <2>2 DEF PeerEnds
<1>8. ASSUME PeerAcknowledges PROVE AttemptShape'
  BY <1>0, MeansTyped, NothingTyped, <1>8 DEF PeerAcknowledges
<1>9. ASSUME BarrierEnds PROVE AttemptShape'  BY <1>0, MeansTyped, NothingTyped, <1>9 DEF BarrierEnds
<1>10. ASSUME Drive PROVE AttemptShape'
  BY <1>0, MeansTyped, NothingTyped, <1>10 DEF Drive, Sees, BeginD, HasD, Closing, OwnerEnds, Nothing
<1>11. ASSUME DriveError PROVE AttemptShape'
  BY <1>0, MeansTyped, NothingTyped, <1>11 DEF DriveError, BeginD, HasD, Closing, Nothing
<1>12. ASSUME BeginCleanupD1 PROVE AttemptShape'
  BY <1>0, MeansTyped, NothingTyped, <1>12 DEF BeginCleanupD1, BeginD, HasD, Closing, Nothing
<1>13. ASSUME MeasureD5 PROVE AttemptShape'
  BY <1>0, MeansTyped, NothingTyped, <1>13 DEF MeasureD5, Agreed, AuthorityOutcome, ReportIs, Measured,
    ProcessGone, InterfacesAbsent, RadioDown, Alive
<1>14. ASSUME AcknowledgeD5 PROVE AttemptShape'
  BY <1>0, MeansTyped, NothingTyped, <1>14 DEF AcknowledgeD5
<1>15. ASSUME ReportD11 PROVE AttemptShape'  BY <1>0, MeansTyped, NothingTyped, <1>15 DEF ReportD11
<1>16. ASSUME RecoverIntent PROVE AttemptShape'
  BY <1>0, MeansTyped, NothingTyped, <1>16 DEF RecoverIntent, Closing, AfterRoom, Verified
<1>17. ASSUME EndpointFails \/ EndpointCloses \/ StageEnds \/ UserCancels \/ EnterSession \/
             ConfirmPairing \/ Start \/ PassiveCheck
      PROVE  AttemptShape'
  BY <1>0, MeansTyped, NothingTyped, <1>17 DEF EndpointFails, EndpointCloses, StageEnds, UserCancels,
    MayCancel, EnterSession, ConfirmPairing, PairingFails, LetGo, Start, NewRecord, PassiveCheck
<1>18. ASSUME EnterRoom \/ SaveCredential \/ Pair \/ Bind \/ CreateLease \/ WriteIntent \/ Attach \/
             Enumerated
      PROVE  AttemptShape'
  BY <1>0, MeansTyped, NothingTyped, <1>18 DEF EnterRoom, SaveCredential, Pair, Bind, CreateLease,
    NoLease, WriteIntent, PersistIntent, AdapterIs, Attach, AttachCommand, Enumerated, Activate, InWsl
<1>19. ASSUME Spawn \/ AwaitReady \/ AcquireWrapper \/ MarkP0Ready \/ SendReady \/ LockAttempt \/
             Launch \/ AcknowledgeEndpoint
      PROVE  AttemptShape'
  BY <1>0, MeansTyped, NothingTyped, <1>19 DEF Spawn, AwaitReady, Sees, AcquireWrapper, MarkP0Ready,
    SendReady, LockAttempt, Launch, AcknowledgeEndpoint
<1>20. ASSUME DirectStage \/ SendIntent \/ AwaitDone \/ CloseRun \/ Stop \/ Unclean \/ AbortCheck \/
             AbortRoom
      PROVE  AttemptShape'
  BY <1>0, MeansTyped, NothingTyped, <1>20 DEF DirectStage, Sees, SendIntent, AwaitDone, Mapped,
    CloseRun, Stop, Alive, Unclean, AbortCheck, Quiesced, D8D9, LaunchAbsent, InWsl, AbortRoom,
    StageReleased, Joined, LetGo, KeepsRoom, NoFile
<1>21. ASSUME Forget \/ AwaitBarrier \/ CheckBarrier \/ ProbeRelease \/ CompleteD11 \/ FinalizeRoom \/
             Release \/ Detach
      PROVE  AttemptShape'
  BY <1>0, MeansTyped, NothingTyped, <1>21 DEF Forget, AwaitBarrier, CheckBarrier, BarrierHolds,
    Agreed, AuthorityOutcome, ProbeRelease, ReleaseFails, LaunchAbsent, RadioQuiet, RadioDown, Alive,
    CompleteD11, FinalizeRoom, LetGo, KeepsRoom, Release, ReleaseDone, ReleaseFailed, NothingToReturn,
    MayDetach, PriorStateSeen, AdapterIs, InWsl, NoFile, NoLease, Detach
<1>22. ASSUME Returned \/ Boot \/ ResumeRoom \/ RecoverProcess \/ RecoverRadio \/ RecoverVerify \/
             RecoverUsb \/ RecoverCompletes
      PROVE  AttemptShape'
  BY <1>0, MeansTyped, NothingTyped, <1>22 DEF Returned, ReleaseDone, ReleaseFailed, ReleaseFails,
    PriorStateSeen, AdapterIs, InWsl, RadioDown, NoFile, NoLease, Boot, Verified, ResumeRoom,
    AfterRoom, RecoverProcess, KnownProcess, Alive, RecoverRadio, Quiesced, KnownNetdev, RecoverVerify,
    D8D9, LaunchAbsent, RecoverUsb, LeaseFromRecovery, RecoverCompletes
<1>23. ASSUME RecoverFinish \/ Dies PROVE AttemptShape'
  BY <1>0, MeansTyped, NothingTyped, <1>23 DEF RecoverFinish, HarnessFinishes, ServiceFinishes, LetGo,
    Dies, Forgotten, NoFlags, NoLease, Nothing
<1>24. CASE UNCHANGED vars  BY <1>0, <1>24
<1> QED
  BY <1>0, <1>1, <1>2, <1>3, <1>4, <1>5, <1>6, <1>7, <1>8, <1>9, <1>10, <1>11, <1>12, <1>13, <1>14,
    <1>15, <1>16, <1>17, <1>18, <1>19, <1>20, <1>21, <1>22, <1>23, <1>24 DEF Next, Executor, Closes,
    Recovers, Environment

\* Program, caller, credential copies and membership.
LEMMA PlainSteps == PlainShape /\ [Next]_vars => PlainShape'
<1>0. SUFFICES ASSUME PlainShape, [Next]_vars PROVE PlainShape'
  OBVIOUS
<1> USE DEF PlainShape, Body, BodyFails, Raise, KeepHost, KeepRelay, Means, hostVars, controlVars,
    fileVars, relayVars, runVars, vars
<1>1. ASSUME Environment PROVE PlainShape'
  BY <1>0, <1>1 DEF Environment, WorkerReady, Alive, EndpointStarts, TicketRefused, WorkerLeaves,
    Replug, EndpointFails, EndpointCloses, StageEnds, AttemptStarts, PeerEnds, Closing,
    PeerAcknowledges, BarrierEnds
<1>2. ASSUME UserCancels PROVE PlainShape'  BY <1>0, <1>2 DEF UserCancels, MayCancel
<1>3. ASSUME EnterSession PROVE PlainShape'  BY <1>0, <1>3 DEF EnterSession
<1>4. ASSUME ConfirmPairing PROVE PlainShape'  BY <1>0, <1>4 DEF ConfirmPairing, PairingFails, LetGo
<1>5. ASSUME EnterRoom PROVE PlainShape'  BY <1>0, <1>5 DEF EnterRoom
<1>6. ASSUME SaveCredential PROVE PlainShape'  BY <1>0, <1>6 DEF SaveCredential
<1>7. ASSUME SendReady PROVE PlainShape'  BY <1>0, <1>7 DEF SendReady
<1>8. ASSUME AbortCheck PROVE PlainShape'
  BY <1>0, <1>8 DEF AbortCheck, Quiesced, D8D9, LaunchAbsent, InWsl, Alive
<1>9. ASSUME AbortRoom PROVE PlainShape'
  <2>1. room' \in {room, "in", "out"} /\ authority' \in {authority, FALSE}
    BY <1>9 DEF AbortRoom, LetGo, KeepsRoom
  <2>2. UNCHANGED <<kind, ret, cancel, session, boots>>
    BY <1>9 DEF AbortRoom
  <2> QED
    BY <1>0, <2>1, <2>2
<1>10. ASSUME Forget PROVE PlainShape'  BY <1>0, <1>10 DEF Forget
<1>11. ASSUME ProbeRelease PROVE PlainShape'
  BY <1>0, <1>11 DEF ProbeRelease, ReleaseFails, LaunchAbsent, RadioQuiet, RadioDown, Alive
<1>12. ASSUME FinalizeRoom PROVE PlainShape'  BY <1>0, <1>12 DEF FinalizeRoom, LetGo, KeepsRoom
<1>13. ASSUME Boot PROVE PlainShape'
  BY <1>0, <1>13, ConnectionAssumption DEF Boot
<1>14. ASSUME RecoverProcess PROVE PlainShape'  BY <1>0, <1>14 DEF RecoverProcess, KnownProcess, Alive
<1>15. ASSUME RecoverFinish PROVE PlainShape'
  BY <1>0, <1>15 DEF RecoverFinish, HarnessFinishes, ServiceFinishes, LetGo
<1>16. ASSUME Dies PROVE PlainShape'  BY <1>0, <1>16 DEF Dies, Forgotten, NoFlags, NoLease, Nothing
<1>17. ASSUME Start \/ PassiveCheck \/ Pair \/ Bind \/ CreateLease \/ WriteIntent \/ Attach \/
             Enumerated
      PROVE  PlainShape'
  BY <1>0, <1>17 DEF Start, NewRecord, PassiveCheck, Pair, Bind, CreateLease, NoLease, WriteIntent,
    PersistIntent, AdapterIs, Attach, AttachCommand, Enumerated, Activate, InWsl
<1>18. ASSUME Spawn \/ AwaitReady \/ AcquireWrapper \/ MarkP0Ready \/ LockAttempt \/ Launch \/
             AcknowledgeEndpoint \/ DirectStage
      PROVE  PlainShape'
  BY <1>0, <1>18 DEF Spawn, AwaitReady, Sees, AcquireWrapper, MarkP0Ready, LockAttempt, Launch,
    AcknowledgeEndpoint, DirectStage
<1>19. ASSUME Drive \/ DriveError \/ SendIntent \/ AwaitDone \/ CloseRun \/ Stop \/ Unclean \/
             BeginCleanupD1
      PROVE  PlainShape'
  BY <1>0, <1>19 DEF Drive, Sees, BeginD, HasD, Closing, OwnerEnds, Nothing, DriveError, SendIntent,
    AwaitDone, Mapped, CloseRun, Stop, Alive, Unclean, BeginCleanupD1
<1>20. ASSUME MeasureD5 \/ AcknowledgeD5 \/ AwaitBarrier \/ CheckBarrier \/ CompleteD11 \/ ReportD11 \/
             Release \/ Detach
      PROVE  PlainShape'
  BY <1>0, <1>20 DEF MeasureD5, Agreed, AuthorityOutcome, ReportIs, Measured, ProcessGone,
    InterfacesAbsent, RadioDown, Alive, AcknowledgeD5, AwaitBarrier, CheckBarrier, BarrierHolds,
    CompleteD11, ReportD11, Release, ReleaseDone, ReleaseFailed, ReleaseFails, NothingToReturn,
    MayDetach, PriorStateSeen, AdapterIs, InWsl, NoFile, NoLease, Detach
<1>21. ASSUME Returned \/ ResumeRoom \/ RecoverIntent \/ RecoverRadio \/ RecoverVerify \/ RecoverUsb \/
             RecoverCompletes
      PROVE  PlainShape'
  BY <1>0, <1>21 DEF Returned, ReleaseDone, ReleaseFailed, ReleaseFails, PriorStateSeen, AdapterIs,
    InWsl, RadioDown, NoFile, NoLease, ResumeRoom, AfterRoom, Verified, RecoverIntent, Closing,
    RecoverRadio, Quiesced, KnownNetdev, RecoverVerify, D8D9, LaunchAbsent, Alive, RecoverUsb,
    LeaseFromRecovery, RecoverCompletes
<1>22. CASE UNCHANGED vars  BY <1>0, <1>22
<1> QED
  BY <1>0, <1>1, <1>2, <1>3, <1>4, <1>5, <1>6, <1>7, <1>8, <1>9, <1>10, <1>11, <1>12, <1>13, <1>14,
    <1>15, <1>16, <1>17, <1>18, <1>19, <1>20, <1>21, <1>22 DEF Next, Executor, Closes, Recovers

\* The machine: adapter, worker, recovery file, lease.
LEMMA HostSteps == HostTypeOK /\ [Next]_vars => HostTypeOK'
<1>0. SUFFICES ASSUME HostTypeOK, [Next]_vars PROVE HostTypeOK'
  OBVIOUS
<1> USE DEF HostTypeOK, Body, BodyFails, Raise, KeepHost, KeepRelay, Means, hostVars, controlVars,
    fileVars, relayVars, runVars, vars
<1>1. ASSUME WorkerReady, UNCHANGED <<controlVars, fileVars, relayVars, runVars>> PROVE HostTypeOK'
  <2>1. worker' \in {"none", "starting", "ready", "launched", "endpoint", "failing", "exited"}
    BY <1>0, <1>1 DEF WorkerReady
  <2>2. iface' \in {"down", "up"} /\ usb' \in {"detached", "attached"}
    BY <1>0, <1>1 DEF WorkerReady
  <2>3. out' \subseteq {"ready", "started", "failed", "done", "lost"}
    <3>1. PICK new \in SUBSET {"ready", "failed", "done", "lost"} : out' = out \cup new
      BY <1>1 DEF WorkerReady
    <3> QED
      BY <1>0, <3>1
  <2>4. sideFile' \in BOOLEAN
    BY <1>0, <1>1 DEF WorkerReady
  <2>5. UNCHANGED <<prior, usbFile, lease, replugs>>
    BY <1>1 DEF WorkerReady
  <2> QED
    BY <1>0, <2>1, <2>2, <2>3, <2>4, <2>5, Zenon
<1>2. ASSUME EndpointStarts, UNCHANGED <<controlVars, fileVars, relayVars, runVars>> PROVE HostTypeOK'
  BY <1>0, <1>2 DEF EndpointStarts, Alive
<1>3. ASSUME TicketRefused, UNCHANGED <<controlVars, fileVars, relayVars, runVars>> PROVE HostTypeOK'
  BY <1>0, <1>3 DEF TicketRefused, Alive
<1>4. ASSUME WorkerLeaves, UNCHANGED <<controlVars, fileVars, relayVars, runVars>> PROVE HostTypeOK'
  BY <1>0, <1>4 DEF WorkerLeaves, Alive
<1>5. ASSUME Replug, UNCHANGED <<controlVars, fileVars, relayVars, runVars>> PROVE HostTypeOK'
  BY <1>0, <1>5, ConnectionAssumption DEF Replug
<1>6. ASSUME EndpointFails PROVE HostTypeOK'  BY <1>0, <1>6 DEF EndpointFails
<1>7. ASSUME EndpointCloses PROVE HostTypeOK'  BY <1>0, <1>7 DEF EndpointCloses
<1>8. ASSUME StageEnds PROVE HostTypeOK'
  <2>1. worker' \in {"none", "starting", "ready", "launched", "endpoint", "failing", "exited"}
    BY <1>0, <1>8 DEF StageEnds
  <2>2. iface' \in {"down", "up"} /\ usb' \in {"detached", "attached"}
    BY <1>0, <1>8 DEF StageEnds
  <2>3. out' \subseteq {"ready", "started", "failed", "done", "lost"}
    <3>1. PICK new \in SUBSET {"ready", "failed", "done", "lost"} : out' = out \cup new
      BY <1>8 DEF StageEnds
    <3> QED
      BY <1>0, <3>1
  <2>4. sideFile' \in BOOLEAN
    BY <1>0, <1>8 DEF StageEnds
  <2>5. UNCHANGED <<prior, usbFile, lease, replugs>>
    BY <1>8 DEF StageEnds
  <2> QED
    BY <1>0, <2>1, <2>2, <2>3, <2>4, <2>5, Zenon
<1>9. ASSUME CreateLease PROVE HostTypeOK'
  <2>1. lease' \in [held : BOOLEAN, acquired : BOOLEAN, active : BOOLEAN]
    BY <1>9 DEF CreateLease, NoLease
  <2>2. UNCHANGED <<prior, usb, iface, worker, out, sideFile, usbFile, replugs>>
    BY <1>9 DEF CreateLease
  <2> QED
    BY <1>0, <2>1, <2>2, Zenon
<1>10. ASSUME WriteIntent PROVE HostTypeOK'
  <2>1. UNCHANGED <<prior, usb, iface, worker, out, sideFile, lease, replugs>>
    BY <1>10 DEF WriteIntent
  <2>2. usbFile' \in [exists : BOOLEAN, prior : BOOLEAN, intent : BOOLEAN]
    BY <1>0, <1>10, HostRecords DEF WriteIntent, PersistIntent
  <2> QED
    BY <1>0, <2>1, <2>2, Zenon
<1>11. ASSUME Attach PROVE HostTypeOK'  BY <1>0, <1>11 DEF Attach, AttachCommand
<1>12. ASSUME Enumerated PROVE HostTypeOK'  BY <1>0, <1>12 DEF Enumerated, Activate, AdapterIs, InWsl
<1>13. ASSUME Spawn PROVE HostTypeOK'  BY <1>0, <1>13 DEF Spawn
<1>14. ASSUME Launch PROVE HostTypeOK'  BY <1>0, <1>14 DEF Launch
<1>15. ASSUME Stop PROVE HostTypeOK'  BY <1>0, <1>15 DEF Stop, Alive
<1>16. ASSUME AbortCheck PROVE HostTypeOK'
  BY <1>0, <1>16 DEF AbortCheck, Quiesced, D8D9, LaunchAbsent, InWsl, Alive
<1>17. ASSUME Release PROVE HostTypeOK'
  <2>1. CASE ReleaseDone
    BY <1>0, HostRecords, <2>1, <1>17 DEF Release, ReleaseDone
  <2>2. CASE ~ReleaseDone
    BY <1>0, <2>2, <1>17 DEF Release
  <2> QED
    BY <2>1, <2>2
<1>18. ASSUME Detach PROVE HostTypeOK'
  BY <1>0, <1>18 DEF Detach
<1>19. ASSUME Returned PROVE HostTypeOK'
  <2>1. CASE ReleaseDone
    BY <1>0, HostRecords, <2>1, <1>19 DEF Returned, ReleaseDone
  <2>2. CASE ~ReleaseDone
    BY <1>0, <2>2, <1>19 DEF Returned
  <2> QED
    BY <2>1, <2>2
<1>20. ASSUME RecoverProcess PROVE HostTypeOK'  BY <1>0, <1>20 DEF RecoverProcess, KnownProcess, Alive
<1>21. ASSUME RecoverRadio PROVE HostTypeOK'  BY <1>0, <1>21 DEF RecoverRadio, Quiesced, KnownNetdev
<1>22. ASSUME RecoverUsb PROVE HostTypeOK'
  BY <1>0, HostRecords, <1>22 DEF RecoverUsb
<1>23. ASSUME Dies PROVE HostTypeOK'  BY <1>0, <1>23 DEF Dies, Forgotten, NoFlags, NoLease, Nothing
<1>24. ASSUME AttemptStarts \/ PeerEnds \/ PeerAcknowledges \/ BarrierEnds \/ UserCancels \/
             EnterSession \/ ConfirmPairing \/ Start
      PROVE  HostTypeOK'
  BY <1>0, <1>24 DEF AttemptStarts, PeerEnds, Closing, PeerAcknowledges, BarrierEnds, UserCancels,
    MayCancel, EnterSession, ConfirmPairing, PairingFails, LetGo, Start, NewRecord
<1>25. ASSUME PassiveCheck \/ EnterRoom \/ SaveCredential \/ Pair \/ Bind \/ AwaitReady \/
             AcquireWrapper \/ MarkP0Ready
      PROVE  HostTypeOK'
  BY <1>0, <1>25 DEF PassiveCheck, EnterRoom, SaveCredential, Pair, Bind, AwaitReady, Sees,
    AcquireWrapper, MarkP0Ready
<1>26. ASSUME SendReady \/ LockAttempt \/ AcknowledgeEndpoint \/ DirectStage \/ Drive \/ DriveError \/
             SendIntent \/ AwaitDone
      PROVE  HostTypeOK'
  BY <1>0, <1>26 DEF SendReady, LockAttempt, AcknowledgeEndpoint, Sees, DirectStage, Drive, BeginD,
    HasD, Closing, OwnerEnds, Nothing, DriveError, SendIntent, AwaitDone, Mapped
<1>27. ASSUME CloseRun \/ Unclean \/ AbortRoom \/ Forget \/ BeginCleanupD1 \/ MeasureD5 \/
             AcknowledgeD5 \/ AwaitBarrier
      PROVE  HostTypeOK'
  BY <1>0, <1>27 DEF CloseRun, Unclean, AbortRoom, StageReleased, Joined, LetGo, KeepsRoom, NoFile,
    Forget, BeginCleanupD1, BeginD, HasD, Closing, Nothing, MeasureD5, Agreed, AuthorityOutcome,
    ReportIs, Measured, ProcessGone, InterfacesAbsent, RadioDown, Alive, AcknowledgeD5, AwaitBarrier
<1>28. ASSUME CheckBarrier \/ ProbeRelease \/ CompleteD11 \/ ReportD11 \/ FinalizeRoom \/ Boot \/
             ResumeRoom \/ RecoverIntent
      PROVE  HostTypeOK'
  BY <1>0, <1>28 DEF CheckBarrier, BarrierHolds, Agreed, AuthorityOutcome, ProbeRelease, ReleaseFails,
    LaunchAbsent, RadioQuiet, RadioDown, Alive, CompleteD11, ReportD11, FinalizeRoom, LetGo, KeepsRoom,
    Boot, Verified, ResumeRoom, AfterRoom, RecoverIntent, Closing
<1>29. ASSUME RecoverVerify \/ RecoverCompletes \/ RecoverFinish PROVE HostTypeOK'
  BY <1>0, <1>29 DEF RecoverVerify, D8D9, LaunchAbsent, InWsl, Alive, RecoverCompletes, RecoverFinish,
    HarnessFinishes, ServiceFinishes, LetGo
<1>30. CASE UNCHANGED vars  BY <1>0, <1>30
<1> QED
  BY <1>0, <1>1, <1>2, <1>3, <1>4, <1>5, <1>6, <1>7, <1>8, <1>9, <1>10, <1>11, <1>12, <1>13, <1>14,
    <1>15, <1>16, <1>17, <1>18, <1>19, <1>20, <1>21, <1>22, <1>23, <1>24, <1>25, <1>26, <1>27, <1>28,
    <1>29, <1>30 DEF Next, Executor, Closes, Recovers, Environment

-----------------------------------------------------------------------------
(* What the commands that give a verdict, and a release, leave in the record. *)
LEMMA VerdictFields ==
  ASSUME RecordShape, NEW c \in {"verified", "failed"}, NEW u \in BOOLEAN,
         rec' = [rec EXCEPT !.phase = "terminal", !.cleanup = c, !.usbSeen = u]
  PROVE  /\ rec'.phase = "terminal" /\ rec'.cleanup = c /\ rec'.usbSeen = u
         /\ rec'.functional = rec.functional /\ rec'.wrapper = rec.wrapper
BY DEF RecordShape, Records

LEMMA PhaseFields ==
  ASSUME RecordShape, NEW p, rec' = [rec EXCEPT !.phase = p]
  PROVE  /\ rec'.phase = p /\ rec'.cleanup = rec.cleanup /\ rec'.usbSeen = rec.usbSeen
         /\ rec'.functional = rec.functional /\ rec'.wrapper = rec.wrapper
BY DEF RecordShape, Records

LEMMA FailedRelease ==
  ASSUME RecordShape, ret \in {"abort", "d10", "recover"}, ReleaseFailed
  PROVE  /\ rec'.functional = rec.functional /\ rec'.wrapper = rec.wrapper
         /\ rec' = rec \/ (rec'.phase = "terminal" /\ rec'.cleanup = "failed" /\ ~rec'.usbSeen)
         /\ pc' = IF ret = "d10" THEN "done" ELSE IF ret = "abort" THEN "unclean" ELSE "r_failed"
<1>1. CASE ret = "d10"
  BY <1>1, VerdictFields DEF ReleaseFailed, ReleaseFails
<1>2. CASE ret # "d10"
  BY <1>2 DEF ReleaseFailed
<1> QED
  BY <1>1, <1>2

LEMMA DoneRelease ==
  ASSUME ret \in {"abort", "d10", "recover"}, ReleaseDone
  PROVE  /\ rec' = rec /\ ~usbFile'.exists /\ ~lease'.held /\ ~lease'.acquired
         /\ pc' = IF ret = "d10" THEN "d11" ELSE IF ret = "abort" THEN "abort_room" ELSE "r_done"
BY DEF ReleaseDone, NoFile, NoLease

LEMMA BootFields ==
  ASSUME RecordShape, Boot
  PROVE  /\ rec'.wrapper = rec.wrapper /\ rec'.usbSeen = rec.usbSeen
         /\ Verified' <=> Verified
         /\ rec.phase = "none" <=> rec'.phase = "none"
         /\ rec'.functional = "passed" => rec.functional = "passed"
BY DEF RecordShape, Records, Boot, Verified

(* What a step leaves in the record.                                        *)
Kept == /\ rec'.cleanup = rec.cleanup /\ rec'.usbSeen = rec.usbSeen
        /\ rec'.functional = rec.functional /\ rec'.wrapper = rec.wrapper

LEMMA StartRecord ==
  ASSUME RecordShape, Start
  PROVE  /\ rec'.phase = "preflight" /\ rec'.cleanup = "pending" /\ rec'.functional = "pending"
         /\ ~rec'.usbSeen /\ ~rec'.wrapper
BY DEF RecordShape, Records, Kept, Start, NewRecord, Body

LEMMA BindRecord ==
  ASSUME RecordShape, Bind
  PROVE  /\ Kept
         /\ rec'.phase \in {rec.phase, "running"}
BY DEF RecordShape, Records, Kept, Bind, Body, BodyFails

LEMMA WrapperRecord ==
  ASSUME RecordShape, AcquireWrapper
  PROVE  /\ rec'.wrapper /\ UNCHANGED <<rec.phase, rec.cleanup, rec.usbSeen, rec.functional>>
BY DEF RecordShape, Records, Kept, AcquireWrapper, Body

LEMMA MarkRecord ==
  ASSUME RecordShape, MarkP0Ready \/ LockAttempt \/ AcknowledgeEndpoint
  PROVE  /\ Kept /\ rec'.phase = rec.phase
BY DEF RecordShape, Records, Kept, MarkP0Ready, LockAttempt, AcknowledgeEndpoint, Body, BodyFails

LEMMA CloseRecord ==
  ASSUME RecordShape, CloseRun
  PROVE  /\ rec'.phase = "closing" /\ rec'.functional = result.outcome
         /\ rec'.cleanup = rec.cleanup /\ rec'.usbSeen = rec.usbSeen /\ rec'.wrapper = rec.wrapper
BY DEF RecordShape, Records, Kept, CloseRun, Body

LEMMA CheckRecord ==
  ASSUME RecordShape, AbortCheck \/ CheckBarrier
  PROVE  /\ Kept
         /\ rec'.phase \in {rec.phase, "cleaning"}
BY DEF RecordShape, Records, Kept, AbortCheck, CheckBarrier

LEMMA FailRecord ==
  ASSUME RecordShape, Unclean \/ ProbeRelease
  PROVE  /\ rec'.functional = rec.functional /\ rec'.wrapper = rec.wrapper
         /\ rec' = rec \/ (rec'.phase = "terminal" /\ rec'.cleanup = "failed" /\ ~rec'.usbSeen)
BY DEF RecordShape, Records, Kept, Unclean, ProbeRelease, ReleaseFails, Body

LEMMA CompleteRecord ==
  ASSUME RecordShape, CompleteD11 \/ RecoverCompletes
  PROVE  /\ rec'.functional = rec.functional /\ rec'.wrapper = rec.wrapper /\ rec'.phase = "terminal"
         /\ rec'.cleanup = IF pc = "r_failed" THEN "failed" ELSE "verified"
         /\ rec'.usbSeen => pc = "r_done"
BY VerdictFields DEF CompleteD11, RecoverCompletes, Body

LEMMA AbortRecord ==
  ASSUME RecordShape, AbortRoom
  PROVE  /\ rec'.functional = rec.functional /\ rec'.wrapper = rec.wrapper /\ rec'.phase = "terminal"
         /\ rec'.cleanup \in {"verified", "failed"}
         /\ pc' = IF rec'.cleanup = "verified" THEN "forget" ELSE "done"
         /\ "verified" = rec'.cleanup \/ rec'.usbSeen => ~lease.held
<1> DEFINE local == ~flags.forced /\ flags.quiet /\ ~lease.held /\ StageReleased
           seen == usbFile = NoFile /\ local
<1>1. seen \in BOOLEAN
  OBVIOUS
<1>2. \E c \in {"verified", "failed"} :
        /\ rec' = [rec EXCEPT !.phase = "terminal", !.cleanup = c, !.usbSeen = seen]
        /\ pc' = IF c = "verified" THEN "forget" ELSE "done"
        /\ c = "verified" => local
  BY DEF AbortRoom
<1> QED
  BY <1>1, <1>2, VerdictFields

-----------------------------------------------------------------------------
(* What a step leaves in the attempt.                                        *)
LEMMA ClosingFields ==
  ASSUME AttemptShape, NEW o \in {"completed", "canceled", "failed"}, NEW c, att' = Closing(o, c)
  PROVE  /\ att'.phase = "closing" /\ att'.of = Means(o, c) /\ att'.mine = att.mine
         /\ Means(o, c).outcome = o /\ Means(o, c) # Nothing
BY DEF AttemptShape, Attempts, Closing, Means, Nothing

LEMMA InterruptedFields ==
  ASSUME AttemptShape, att' = Closing("failed", "interrupted")
  PROVE  /\ att'.phase = "closing" /\ att'.mine = att.mine
         /\ att'.of.outcome = "failed"
BY ClosingFields

LEMMA EnvironmentKeeps ==
  Environment =>
    UNCHANGED <<controlVars, d5, released, session, authority, runVars, prior, usbFile, lease>>
BY DEF Environment, WorkerReady, EndpointStarts, TicketRefused, WorkerLeaves, Replug, EndpointFails,
       EndpointCloses, StageEnds, AttemptStarts, PeerEnds, PeerAcknowledges, BarrierEnds, controlVars,
       fileVars, relayVars, runVars, hostVars

LEMMA EnvironmentAttempt ==
  ASSUME AttemptShape, Environment
  PROVE  /\ att'.mine = att.mine
         /\ \/ /\ att'.of = att.of
               /\ att'.phase = att.phase \/ att.phase = "none" \/ att'.phase \in {"closing", "terminal"}
            \/ /\ att.phase = "active" /\ att'.phase = "closing"
               /\ att'.of.outcome \in {"completed", "canceled", "failed"}
<1>1. CASE PeerEnds
  <2>1. CASE att' = [att EXCEPT !.phase = "terminal"]
    BY <2>1 DEF AttemptShape, Attempts
  <2>2. CASE \E o \in {"completed", "canceled", "failed"} : att' = Closing(o, "peer")
    BY <1>1, <2>2, ClosingFields DEF PeerEnds
  <2> QED
    BY <1>1, <2>1, <2>2 DEF PeerEnds
<1>2. CASE AttemptStarts \/ PeerAcknowledges \/ BarrierEnds
  BY <1>2 DEF AttemptStarts, PeerAcknowledges, BarrierEnds, AttemptShape, Attempts
<1>3. CASE ~PeerEnds /\ ~(AttemptStarts \/ PeerAcknowledges \/ BarrierEnds)
  BY <1>3 DEF Environment, EndpointFails, EndpointCloses, StageEnds, relayVars
<1> QED
  BY <1>1, <1>2, <1>3

LEMMA IntentBegun ==
  ASSUME AttemptShape, NEW o \in {"completed", "canceled", "failed"}, NEW c, NEW ok, NEW failed,
         BeginD(o, c, ok, failed)
  PROVE  /\ att'.mine = att.mine
         /\ \/ att' = att
            \/ /\ att.phase = "active" /\ att'.phase = "closing"
               /\ att'.of.outcome = o
         /\ \/ intent' = intent /\ pc' = failed
            \/ intent' = att'.of /\ intent' # Nothing /\ pc' = ok
<1>1. CASE att' = Closing(o, c)
  BY <1>1, ClosingFields DEF BeginD, HasD
<1>2. CASE att' # Closing(o, c)
  BY <1>2 DEF BeginD, HasD
<1> QED
  BY <1>1, <1>2

LEMMA MineKept ==
  ASSUME AttemptShape, Drive \/ DriveError \/ BeginCleanupD1 \/ RecoverIntent
  PROVE  att'.mine = att.mine
<1>1. CASE UNCHANGED att
  BY <1>1
<1>2. CASE \E o, c, ok, failed :
             o \in {"completed", "canceled", "failed"} /\ BeginD(o, c, ok, failed)
  BY <1>2, IntentBegun
<1>3. CASE att' = Closing("failed", "interrupted")
  BY <1>3, InterruptedFields
<1>4. CASE Drive
  BY <1>1, <1>2, <1>4 DEF Drive, OwnerEnds
<1>5. CASE DriveError
  BY <1>1, <1>2, <1>5 DEF DriveError
<1>6. CASE BeginCleanupD1
  BY <1>1, <1>2, <1>6 DEF BeginCleanupD1
<1>7. CASE RecoverIntent
  BY <1>1, <1>3, <1>7 DEF RecoverIntent
<1> QED
  BY <1>4, <1>5, <1>6, <1>7

LEMMA MineAcknowledged ==
  ASSUME AttemptShape, AcknowledgeD5
  PROVE  att'.mine = att.mine \/ att'.mine = d5
BY DEF AttemptShape, Attempts, AcknowledgeD5

(* An endpoint that is gone stays gone, and its radio as it is.              *)
LEMMA EnvironmentHost ==
  Environment /\ ~Alive => worker' = worker /\ iface' \in {iface, "down"} /\ usb' \in {usb, "detached"}
BY DEF Environment, WorkerReady, EndpointStarts, TicketRefused, WorkerLeaves, Replug, EndpointFails,
       EndpointCloses, StageEnds, AttemptStarts, PeerEnds, PeerAcknowledges, BarrierEnds, hostVars, Alive

-----------------------------------------------------------------------------
(* Places, outcome and verdict.                                             *)

\* A place belongs to a program, and to the caller whose release is under way.
LEMMA PlaceSteps == PlainShape /\ PlaceInv /\ [Next]_vars => PlaceInv'
<1>0. SUFFICES ASSUME PlainShape /\ PlaceInv, [Next]_vars PROVE PlaceInv'
  OBVIOUS
<1> USE DEF PlaceInv, PlainShape, Opening, Borrowing, Working, Ending, Before, Aborting, Closings,
    Releasing, Settling, Over, Resuming, Returning, Body, BodyFails, Raise, KeepHost, KeepRelay, Means,
    hostVars, controlVars, fileVars, relayVars, runVars, vars
<1>1. ASSUME Environment PROVE PlaceInv'
  BY <1>0, <1>1 DEF Environment, WorkerReady, Alive, EndpointStarts, TicketRefused, WorkerLeaves,
    Replug, EndpointFails, EndpointCloses, StageEnds, AttemptStarts, PeerEnds, Closing,
    PeerAcknowledges, BarrierEnds
<1>2. ASSUME UserCancels \/ EnterSession PROVE PlaceInv'
  BY <1>0, <1>2 DEF UserCancels, MayCancel, EnterSession
<1>3. ASSUME ConfirmPairing \/ Start PROVE PlaceInv'
  BY <1>0, <1>3 DEF ConfirmPairing, PairingFails, LetGo, Start, NewRecord
<1>4. ASSUME PassiveCheck \/ EnterRoom PROVE PlaceInv'  BY <1>0, <1>4 DEF PassiveCheck, EnterRoom
<1>5. ASSUME SaveCredential \/ Pair PROVE PlaceInv'  BY <1>0, <1>5 DEF SaveCredential, Pair
<1>6. ASSUME Bind \/ CreateLease PROVE PlaceInv'  BY <1>0, <1>6 DEF Bind, CreateLease, NoLease
<1>7. ASSUME WriteIntent \/ Attach PROVE PlaceInv'
  BY <1>0, <1>7 DEF WriteIntent, PersistIntent, AdapterIs, Attach, AttachCommand
<1>8. ASSUME Enumerated \/ Spawn PROVE PlaceInv'
  BY <1>0, <1>8 DEF Enumerated, Activate, AdapterIs, InWsl, Spawn
<1>9. ASSUME AwaitReady \/ AcquireWrapper PROVE PlaceInv'
  BY <1>0, <1>9 DEF AwaitReady, Sees, AcquireWrapper
<1>10. ASSUME MarkP0Ready \/ SendReady PROVE PlaceInv'  BY <1>0, <1>10 DEF MarkP0Ready, SendReady
<1>11. ASSUME LockAttempt \/ Launch PROVE PlaceInv'  BY <1>0, <1>11 DEF LockAttempt, Launch
<1>12. ASSUME AcknowledgeEndpoint \/ DirectStage PROVE PlaceInv'
  BY <1>0, <1>12 DEF AcknowledgeEndpoint, Sees, DirectStage
<1>13. ASSUME Drive \/ DriveError PROVE PlaceInv'
  BY <1>0, <1>13 DEF Drive, Sees, BeginD, HasD, Closing, OwnerEnds, Nothing, DriveError
<1>14. ASSUME SendIntent \/ AwaitDone PROVE PlaceInv'  BY <1>0, <1>14 DEF SendIntent, AwaitDone, Mapped
<1>15. ASSUME CloseRun \/ Stop PROVE PlaceInv'  BY <1>0, <1>15 DEF CloseRun, Stop, Alive
<1>16. ASSUME Unclean \/ AbortCheck PROVE PlaceInv'
  BY <1>0, <1>16 DEF Unclean, AbortCheck, Quiesced, D8D9, LaunchAbsent, InWsl, Alive
<1>17. ASSUME AbortRoom \/ Forget PROVE PlaceInv'
  BY <1>0, <1>17 DEF AbortRoom, StageReleased, Joined, LetGo, KeepsRoom, NoFile, Forget
<1>18. ASSUME BeginCleanupD1 \/ MeasureD5 PROVE PlaceInv'
  BY <1>0, <1>18 DEF BeginCleanupD1, BeginD, HasD, Closing, Nothing, MeasureD5, Agreed,
    AuthorityOutcome, ReportIs, Measured, ProcessGone, InterfacesAbsent, RadioDown, Alive
<1>19. ASSUME AcknowledgeD5 \/ AwaitBarrier PROVE PlaceInv'
  BY <1>0, <1>19 DEF AcknowledgeD5, AwaitBarrier
<1>20. ASSUME CheckBarrier \/ ProbeRelease PROVE PlaceInv'
  BY <1>0, <1>20 DEF CheckBarrier, BarrierHolds, Agreed, AuthorityOutcome, ProbeRelease, ReleaseFails,
    LaunchAbsent, RadioQuiet, RadioDown, Alive
<1>21. ASSUME CompleteD11 \/ ReportD11 PROVE PlaceInv'  BY <1>0, <1>21 DEF CompleteD11, ReportD11
<1>22. ASSUME FinalizeRoom \/ Release PROVE PlaceInv'
  BY <1>0, <1>22 DEF FinalizeRoom, LetGo, KeepsRoom, Release, ReleaseDone, ReleaseFailed, ReleaseFails,
    NothingToReturn, MayDetach, PriorStateSeen, AdapterIs, InWsl, RadioDown, NoFile, NoLease
<1>23. ASSUME Detach \/ Returned PROVE PlaceInv'
  BY <1>0, <1>23 DEF Detach, ReleaseFailed, ReleaseFails, Returned, ReleaseDone, PriorStateSeen,
    AdapterIs, InWsl, RadioDown, NoFile, NoLease
<1>24. ASSUME Boot \/ ResumeRoom PROVE PlaceInv'
  BY <1>0, <1>24 DEF Boot, Verified, ResumeRoom, AfterRoom
<1>25. ASSUME RecoverIntent \/ RecoverProcess PROVE PlaceInv'
  BY <1>0, <1>25 DEF RecoverIntent, Closing, AfterRoom, Verified, RecoverProcess, KnownProcess, Alive
<1>26. ASSUME RecoverRadio \/ RecoverVerify PROVE PlaceInv'
  BY <1>0, <1>26 DEF RecoverRadio, Quiesced, KnownNetdev, RecoverVerify, D8D9, LaunchAbsent, InWsl,
    Alive
<1>27. ASSUME RecoverUsb \/ RecoverCompletes PROVE PlaceInv'
  BY <1>0, <1>27 DEF RecoverUsb, LeaseFromRecovery, RecoverCompletes
<1>28. ASSUME RecoverFinish \/ Dies PROVE PlaceInv'
  BY <1>0, <1>28 DEF RecoverFinish, HarnessFinishes, ServiceFinishes, LetGo, Dies, Forgotten, NoFlags,
    NoLease, Nothing
<1>29. CASE UNCHANGED vars  BY <1>0, <1>29
<1> QED
  BY <1>0, <1>1, <1>2, <1>3, <1>4, <1>5, <1>6, <1>7, <1>8, <1>9, <1>10, <1>11, <1>12, <1>13, <1>14,
    <1>15, <1>16, <1>17, <1>18, <1>19, <1>20, <1>21, <1>22, <1>23, <1>24, <1>25, <1>26, <1>27, <1>28,
    <1>29 DEF Next, Executor, Closes, Recovers

\* The intent a run holds is the authority's, and so is the outcome it records.
LEMMA OutcomeSteps ==
  RecordShape /\ MeaningShape /\ AttemptShape /\ PlainShape /\ PlaceInv /\ OutcomeInv /\ [Next]_vars
    => OutcomeInv'
<1>0. SUFFICES ASSUME RecordShape /\ MeaningShape /\ AttemptShape /\ PlainShape /\ PlaceInv /\
                      OutcomeInv, [Next]_vars
               PROVE  OutcomeInv'
  OBVIOUS
<1> USE DEF OutcomeInv, RecordShape, MeaningShape, AttemptShape, Records, Meanings, Attempts, Outcomes,
    PlaceInv, Nothing, PlainShape, Opening, Borrowing, Working, Ending, Before, Aborting, Closings,
    Releasing, Settling, Over, Resuming, Returning, Body, BodyFails, Raise, KeepHost, KeepRelay, Means,
    hostVars, controlVars, fileVars, relayVars, runVars, vars
<1>1. ASSUME Environment PROVE OutcomeInv'
  BY <1>0, <1>1, EnvironmentKeeps, EnvironmentAttempt DEF controlVars, runVars
<1>2. ASSUME Drive PROVE OutcomeInv'
  <2>1. UNCHANGED <<kind, rec, result>>
    BY <1>0, <1>2 DEF Drive
  <2>2. CASE \E o \in {"completed", "canceled", "failed"}, c \in Codes : BeginD(o, c, "send", "drive_error")
    BY <1>0, <2>1, <2>2, IntentBegun
  <2>3. CASE HasD /\ intent' = att.of /\ pc' = "send" /\ UNCHANGED att
    BY <1>0, <2>1, <2>3 DEF HasD
  <2>4. CASE pc' = "drive_error" /\ UNCHANGED <<att, intent>>
    BY <1>0, <2>1, <2>4
  <2>5. CASE BeginD("failed", "endpoint", "send", "drive_error")
    BY <2>2, <2>5 DEF Codes
  <2>6. CASE OwnerEnds
    BY <2>2, <2>6 DEF Codes, OwnerEnds
  <2> QED
    BY <1>2, <2>3, <2>4, <2>5, <2>6 DEF Drive
<1>3. ASSUME DriveError PROVE OutcomeInv'
  <2>1. UNCHANGED <<kind, rec>> /\ (pc' = "close" => result'.outcome = "failed")
         /\ (result' = result \/ result'.outcome = "failed")
    BY <1>0, <1>3 DEF DriveError
  <2>2. PICK o \in {"canceled", "failed"} : BeginD(o, "run", "send", "close")
    BY <1>3 DEF DriveError
  <2> QED
    BY <1>0, <2>1, <2>2, IntentBegun
<1>4. ASSUME AwaitDone PROVE OutcomeInv'
  <2>1. UNCHANGED <<kind, rec, att, intent>> /\ pc' = "close" /\ pc = "await_done"
    BY <1>0, <1>4 DEF AwaitDone
  <2>2. intent = att.of /\ intent # Nothing
    BY <1>0, <2>1
  <2>3. result'.outcome = IF intent.outcome = "completed" THEN "passed" ELSE intent.outcome
    BY <1>4 DEF AwaitDone, Mapped
  <2> QED
    BY <1>0, <2>1, <2>2, <2>3
<1>5. ASSUME AbortRoom PROVE OutcomeInv'
  <2>1. UNCHANGED <<kind, att, intent, result>>
    BY <1>0, <1>5 DEF AbortRoom
  <2> QED
    BY <1>0, <1>5, <2>1, AbortRecord
<1>6. ASSUME BeginCleanupD1 PROVE OutcomeInv'
  <2>1. UNCHANGED <<kind, rec, result>> /\ pc' \in {"d5", "unclean"}
    BY <1>0, <1>6 DEF BeginCleanupD1, BeginD
  <2>2. CASE UNCHANGED <<att, intent>>
    BY <1>0, <2>1, <2>2
  <2>3. CASE BeginD("failed", "interrupted", "d5", "unclean")
    BY <1>0, <2>1, <2>3, IntentBegun
  <2> QED
    BY <1>6, <2>2, <2>3 DEF BeginCleanupD1
<1>7. ASSUME ProbeRelease PROVE OutcomeInv'
  <2>1. UNCHANGED <<kind, att, intent, result>> /\ pc' \in {"release", "done"}
    BY <1>0, <1>7 DEF ProbeRelease, ReleaseFails
  <2> QED
    BY <1>0, <1>7, <2>1, FailRecord
<1>8. ASSUME Release PROVE OutcomeInv'
  <2>0. ret \in {"abort", "d10", "recover"} /\ pc = "release"
    BY <1>0, <1>8 DEF Release
  <2>1. CASE (NothingToReturn \/ PriorStateSeen) /\ ReleaseDone
    <3>1. UNCHANGED <<usb, iface, worker, prior, replugs, kind, controlVars, d5, session, authority,
                      relayVars>>
      BY <1>8 DEF Release
    <3> QED
      BY <1>0, <2>0, <2>1, <3>1, DoneRelease DEF NothingToReturn, PriorStateSeen, AdapterIs, InWsl,
          RadioDown
  <2>2. CASE ReleaseFailed /\ UNCHANGED <<usbFile, lease>>
    BY <1>0, <1>8, <2>0, <2>2, FailedRelease DEF Release
  <2>3. CASE MayDetach /\ pc' = "detach" /\ UNCHANGED <<usbFile, lease, rec, released>>
    BY <1>0, <1>8, <2>3 DEF Release, MayDetach, AdapterIs, RadioDown
  <2> QED
    BY <1>8, <2>1, <2>2, <2>3 DEF Release
<1>9. ASSUME Detach PROVE OutcomeInv'
  <2>0. ret \in {"abort", "d10", "recover"} /\ pc = "detach"
    BY <1>0, <1>9 DEF Detach
  <2>1. CASE ReleaseFailed
    BY <1>0, <1>9, <2>0, <2>1, FailedRelease DEF Detach
  <2>2. CASE UNCHANGED <<rec, released>> /\ pc' = "returned"
    BY <1>0, <1>9, <2>2 DEF Detach
  <2> QED
    BY <1>9, <2>1, <2>2 DEF Detach
<1>10. ASSUME Returned PROVE OutcomeInv'
  <2>0. ret \in {"abort", "d10", "recover"} /\ pc = "returned"
    BY <1>0, <1>10 DEF Returned
  <2>1. CASE PriorStateSeen /\ ReleaseDone
    <3>1. UNCHANGED <<usb, iface, worker, prior, replugs, kind, controlVars, d5, session, authority,
                      relayVars>>
      BY <1>10 DEF Returned
    <3> QED
      BY <1>0, <2>0, <2>1, <3>1, DoneRelease DEF NothingToReturn, PriorStateSeen, AdapterIs, InWsl,
          RadioDown
  <2>2. CASE ReleaseFailed /\ UNCHANGED <<usbFile, lease>>
    BY <1>0, <1>10, <2>0, <2>2, FailedRelease DEF Returned
  <2> QED
    BY <1>10, <2>1, <2>2 DEF Returned
<1>11. ASSUME Boot PROVE OutcomeInv'
  <2>1. UNCHANGED <<kind, att, intent, result>> /\ pc' \notin {"send", "await_done", "close"}
    BY <1>0, <1>11 DEF Boot
  <2> QED
    BY <1>0, <1>11, <2>1, BootFields
<1>12. ASSUME RecoverIntent PROVE OutcomeInv'
  <2>1. UNCHANGED <<kind, rec, result, intent>> /\ pc' \notin {"send", "await_done", "close"}
    BY <1>0, <1>12 DEF RecoverIntent, AfterRoom
  <2>2. CASE UNCHANGED att
    BY <1>0, <2>1, <2>2
  <2>3. CASE att.phase = "active" /\ att' = Closing("failed", "interrupted")
    <3>1. att'.phase = "closing" /\ att'.of.outcome = "failed"
      BY <1>0, <2>3, InterruptedFields
    <3>2. intent' = Nothing /\ ~(kind # "direct" /\ "passed" \in {result.outcome, rec.functional})
      BY <1>0, <2>1, <2>3
    <3> QED
      BY <1>0, <2>1, <3>1, <3>2
  <2> QED
    BY <1>12, <2>2, <2>3 DEF RecoverIntent
<1>13. ASSUME RecoverCompletes PROVE OutcomeInv'
  <2>1. UNCHANGED <<kind, att, intent, result>> /\ pc' \in {"r_finish", "done"}
    BY <1>0, <1>13 DEF RecoverCompletes
  <2> QED
    BY <1>0, <1>13, <2>1, CompleteRecord
<1>14. ASSUME UserCancels PROVE OutcomeInv'  BY <1>0, <1>14 DEF UserCancels, MayCancel
<1>15. ASSUME EnterSession PROVE OutcomeInv'  BY <1>0, <1>15 DEF EnterSession
<1>16. ASSUME ConfirmPairing PROVE OutcomeInv'  BY <1>0, <1>16 DEF ConfirmPairing, PairingFails, LetGo
<1>17. ASSUME Start PROVE OutcomeInv'  BY <1>0, <1>17 DEF Start, NewRecord
<1>18. ASSUME PassiveCheck PROVE OutcomeInv'  BY <1>0, <1>18 DEF PassiveCheck
<1>19. ASSUME EnterRoom PROVE OutcomeInv'  BY <1>0, <1>19 DEF EnterRoom
<1>20. ASSUME SaveCredential PROVE OutcomeInv'  BY <1>0, <1>20 DEF SaveCredential
<1>21. ASSUME Pair PROVE OutcomeInv'  BY <1>0, <1>21 DEF Pair
<1>22. ASSUME Bind PROVE OutcomeInv'  BY <1>0, <1>22 DEF Bind
<1>23. ASSUME CreateLease PROVE OutcomeInv'  BY <1>0, <1>23 DEF CreateLease, NoLease
<1>24. ASSUME WriteIntent PROVE OutcomeInv'  BY <1>0, <1>24 DEF WriteIntent, PersistIntent, AdapterIs
<1>25. ASSUME Attach PROVE OutcomeInv'  BY <1>0, <1>25 DEF Attach, AttachCommand
<1>26. ASSUME Enumerated PROVE OutcomeInv'  BY <1>0, <1>26 DEF Enumerated, Activate, AdapterIs, InWsl
<1>27. ASSUME Spawn PROVE OutcomeInv'  BY <1>0, <1>27 DEF Spawn
<1>28. ASSUME AwaitReady PROVE OutcomeInv'  BY <1>0, <1>28 DEF AwaitReady, Sees
<1>29. ASSUME AcquireWrapper PROVE OutcomeInv'  BY <1>0, <1>29 DEF AcquireWrapper
<1>30. ASSUME MarkP0Ready PROVE OutcomeInv'  BY <1>0, <1>30 DEF MarkP0Ready
<1>31. ASSUME SendReady PROVE OutcomeInv'  BY <1>0, <1>31 DEF SendReady
<1>32. ASSUME LockAttempt PROVE OutcomeInv'  BY <1>0, <1>32 DEF LockAttempt
<1>33. ASSUME Launch PROVE OutcomeInv'  BY <1>0, <1>33 DEF Launch
<1>34. ASSUME AcknowledgeEndpoint PROVE OutcomeInv'  BY <1>0, <1>34 DEF AcknowledgeEndpoint, Sees
<1>35. ASSUME DirectStage PROVE OutcomeInv'  BY <1>0, <1>35 DEF DirectStage, Sees
<1>36. ASSUME SendIntent PROVE OutcomeInv'  BY <1>0, <1>36 DEF SendIntent
<1>37. ASSUME CloseRun PROVE OutcomeInv'  BY <1>0, <1>37 DEF CloseRun
<1>38. ASSUME Stop PROVE OutcomeInv'  BY <1>0, <1>38 DEF Stop, Alive
<1>39. ASSUME Unclean PROVE OutcomeInv'  BY <1>0, <1>39 DEF Unclean
<1>40. ASSUME AbortCheck PROVE OutcomeInv'
  BY <1>0, <1>40 DEF AbortCheck, Quiesced, D8D9, LaunchAbsent, InWsl, Alive
<1>41. ASSUME Forget PROVE OutcomeInv'  BY <1>0, <1>41 DEF Forget
<1>42. ASSUME MeasureD5 PROVE OutcomeInv'
  BY <1>0, <1>42 DEF MeasureD5, Agreed, AuthorityOutcome, ReportIs, Measured, ProcessGone,
    InterfacesAbsent, RadioDown, Alive
<1>43. ASSUME AcknowledgeD5 PROVE OutcomeInv'  BY <1>0, <1>43 DEF AcknowledgeD5
<1>44. ASSUME AwaitBarrier PROVE OutcomeInv'  BY <1>0, <1>44 DEF AwaitBarrier
<1>45. ASSUME CheckBarrier PROVE OutcomeInv'
  BY <1>0, <1>45 DEF CheckBarrier, BarrierHolds, Agreed, AuthorityOutcome
<1>46. ASSUME CompleteD11 PROVE OutcomeInv'  BY <1>0, <1>46 DEF CompleteD11
<1>47. ASSUME ReportD11 PROVE OutcomeInv'  BY <1>0, <1>47 DEF ReportD11
<1>48. ASSUME FinalizeRoom PROVE OutcomeInv'  BY <1>0, <1>48 DEF FinalizeRoom, LetGo, KeepsRoom
<1>49. ASSUME ResumeRoom PROVE OutcomeInv'  BY <1>0, <1>49 DEF ResumeRoom, AfterRoom, Verified
<1>50. ASSUME RecoverProcess PROVE OutcomeInv'  BY <1>0, <1>50 DEF RecoverProcess, KnownProcess, Alive
<1>51. ASSUME RecoverRadio PROVE OutcomeInv'  BY <1>0, <1>51 DEF RecoverRadio, Quiesced, KnownNetdev
<1>52. ASSUME RecoverVerify PROVE OutcomeInv'
  BY <1>0, <1>52 DEF RecoverVerify, D8D9, LaunchAbsent, InWsl, Alive
<1>53. ASSUME RecoverUsb PROVE OutcomeInv'  BY <1>0, <1>53 DEF RecoverUsb, LeaseFromRecovery
<1>54. ASSUME RecoverFinish PROVE OutcomeInv'
  BY <1>0, <1>54 DEF RecoverFinish, HarnessFinishes, ServiceFinishes, LetGo
<1>55. ASSUME Dies PROVE OutcomeInv'  BY <1>0, <1>55 DEF Dies, Forgotten, NoFlags, NoLease
<1>56. CASE UNCHANGED vars  BY <1>0, <1>56
<1> QED
  BY <1>0, <1>1, <1>2, <1>3, <1>4, <1>5, <1>6, <1>7, <1>8, <1>9, <1>10, <1>11, <1>12, <1>13, <1>14,
    <1>15, <1>16, <1>17, <1>18, <1>19, <1>20, <1>21, <1>22, <1>23, <1>24, <1>25, <1>26, <1>27, <1>28,
    <1>29, <1>30, <1>31, <1>32, <1>33, <1>34, <1>35, <1>36, <1>37, <1>38, <1>39, <1>40, <1>41, <1>42,
    <1>43, <1>44, <1>45, <1>46, <1>47, <1>48, <1>49, <1>50, <1>51, <1>52, <1>53, <1>54, <1>55, <1>56
    DEF Next, Executor, Closes, Recovers

\* A verdict stands until the process is over, and the operator's way back stands until then.
LEMMA VerdictSteps == RecordShape /\ PlainShape /\ PlaceInv /\ VerdictInv /\ [Next]_vars => VerdictInv'
<1>0. SUFFICES ASSUME RecordShape /\ PlainShape /\ PlaceInv /\ VerdictInv, [Next]_vars PROVE VerdictInv'
  OBVIOUS
<1> USE DEF VerdictInv, Verified, RecoverableSession, PlainShape, PlaceInv, Opening, Borrowing,
    Working, Ending, Before, Aborting, Closings, Releasing, Settling, Over, Resuming, Returning, Body,
    BodyFails, Raise, KeepHost, KeepRelay, Means, hostVars, controlVars, fileVars, relayVars, runVars,
    vars
<1>1. ASSUME Environment PROVE VerdictInv'
  BY <1>0, <1>1 DEF Environment, WorkerReady, Alive, EndpointStarts, TicketRefused, WorkerLeaves,
    Replug, EndpointFails, EndpointCloses, StageEnds, AttemptStarts, PeerEnds, Closing,
    PeerAcknowledges, BarrierEnds
<1>2. ASSUME Start PROVE VerdictInv'
  <2>1. UNCHANGED <<kind, session>> /\ pc = "start" /\ pc' = "p0a"
    BY <1>0, <1>2 DEF Start
  <2> QED
    BY <1>0, <1>2, <2>1, StartRecord
<1>3. ASSUME Bind PROVE VerdictInv'
  <2>1. UNCHANGED <<kind, session>> /\ pc = "bind" /\ pc' \in {"lease", "close"}
    BY <1>0, <1>3 DEF Bind
  <2> QED
    BY <1>0, <1>3, <2>1, BindRecord DEF Kept
<1>4. ASSUME AcquireWrapper PROVE VerdictInv'
  <2>1. UNCHANGED <<kind, session>> /\ pc = "own" /\ pc' \in Working
    BY <1>0, <1>4 DEF AcquireWrapper
  <2> QED
    BY <1>0, <1>4, <2>1, WrapperRecord
<1>5. ASSUME MarkP0Ready PROVE VerdictInv'
  <2>1. UNCHANGED <<kind, session>> /\ pc = "mark" /\ pc' \in Working \cup Ending
    BY <1>0, <1>5 DEF MarkP0Ready
  <2> QED
    BY <1>0, <1>5, <2>1, MarkRecord DEF Kept
<1>6. ASSUME LockAttempt PROVE VerdictInv'
  <2>1. UNCHANGED <<kind, session>> /\ pc = "await_attempt" /\ pc' \in Working \cup Ending
    BY <1>0, <1>6 DEF LockAttempt
  <2> QED
    BY <1>0, <1>6, <2>1, MarkRecord DEF Kept
<1>7. ASSUME AcknowledgeEndpoint PROVE VerdictInv'
  <2>1. UNCHANGED <<kind, session>> /\ pc = "await_started" /\ pc' \in Working \cup Ending
    BY <1>0, <1>7 DEF AcknowledgeEndpoint
  <2> QED
    BY <1>0, <1>7, <2>1, MarkRecord DEF Kept
<1>8. ASSUME CloseRun PROVE VerdictInv'
  <2>1. UNCHANGED <<kind, session>> /\ pc = "close" /\ pc' = "stop"
    BY <1>0, <1>8 DEF CloseRun
  <2> QED
    BY <1>0, <1>8, <2>1, CloseRecord
<1>9. ASSUME AbortCheck PROVE VerdictInv'
  <2>1. UNCHANGED <<kind, session>> /\ pc = "abort" /\ pc' \in {"release", "abort_room", "unclean"}
    BY <1>0, <1>9 DEF AbortCheck
  <2> QED
    BY <1>0, <1>9, <2>1, CheckRecord DEF Kept
<1>10. ASSUME AbortRoom PROVE VerdictInv'
  <2>1. UNCHANGED <<kind, session>> /\ pc = "abort_room"
    BY <1>0, <1>10 DEF AbortRoom
  <2> QED
    BY <1>0, <1>10, <2>1, AbortRecord
<1>11. ASSUME CheckBarrier PROVE VerdictInv'
  <2>1. UNCHANGED <<kind, session>> /\ pc = "d7" /\ pc' \in {"d8", "unclean"}
    BY <1>0, <1>11 DEF CheckBarrier
  <2> QED
    BY <1>0, <1>11, <2>1, CheckRecord DEF Kept
<1>12. ASSUME ProbeRelease PROVE VerdictInv'
  <2>1. UNCHANGED <<kind, session>> /\ pc = "d8" /\ pc' \in {"release", "done"}
    BY <1>0, <1>12 DEF ProbeRelease, ReleaseFails
  <2> QED
    BY <1>0, <1>12, <2>1, FailRecord
<1>13. ASSUME CompleteD11 PROVE VerdictInv'
  <2>1. UNCHANGED <<kind, session>> /\ pc = "d11" /\ pc' = "report"
    BY <1>0, <1>13 DEF CompleteD11
  <2> QED
    BY <1>0, <1>13, <2>1, CompleteRecord
<1>14. ASSUME Release PROVE VerdictInv'
  <2>0. ret \in {"abort", "d10", "recover"} /\ pc = "release"
    BY <1>0, <1>14 DEF Release
  <2>1. CASE (NothingToReturn \/ PriorStateSeen) /\ ReleaseDone
    <3>1. UNCHANGED <<usb, iface, worker, prior, replugs, kind, controlVars, d5, session, authority,
                      relayVars>>
      BY <1>14 DEF Release
    <3> QED
      BY <1>0, <2>0, <2>1, <3>1, DoneRelease DEF NothingToReturn, PriorStateSeen, AdapterIs, InWsl,
          RadioDown
  <2>2. CASE ReleaseFailed /\ UNCHANGED <<usbFile, lease>>
    BY <1>0, <1>14, <2>0, <2>2, FailedRelease DEF Release
  <2>3. CASE MayDetach /\ pc' = "detach" /\ UNCHANGED <<usbFile, lease, rec, released>>
    BY <1>0, <1>14, <2>3 DEF Release, MayDetach, AdapterIs, RadioDown
  <2> QED
    BY <1>14, <2>1, <2>2, <2>3 DEF Release
<1>15. ASSUME Detach PROVE VerdictInv'
  <2>0. ret \in {"abort", "d10", "recover"} /\ pc = "detach"
    BY <1>0, <1>15 DEF Detach
  <2>1. CASE ReleaseFailed
    BY <1>0, <1>15, <2>0, <2>1, FailedRelease DEF Detach
  <2>2. CASE UNCHANGED <<rec, released>> /\ pc' = "returned"
    BY <1>0, <1>15, <2>2 DEF Detach
  <2> QED
    BY <1>15, <2>1, <2>2 DEF Detach
<1>16. ASSUME Returned PROVE VerdictInv'
  <2>0. ret \in {"abort", "d10", "recover"} /\ pc = "returned"
    BY <1>0, <1>16 DEF Returned
  <2>1. CASE PriorStateSeen /\ ReleaseDone
    <3>1. UNCHANGED <<usb, iface, worker, prior, replugs, kind, controlVars, d5, session, authority,
                      relayVars>>
      BY <1>16 DEF Returned
    <3> QED
      BY <1>0, <2>0, <2>1, <3>1, DoneRelease DEF NothingToReturn, PriorStateSeen, AdapterIs, InWsl,
          RadioDown
  <2>2. CASE ReleaseFailed /\ UNCHANGED <<usbFile, lease>>
    BY <1>0, <1>16, <2>0, <2>2, FailedRelease DEF Returned
  <2> QED
    BY <1>16, <2>1, <2>2 DEF Returned
<1>17. ASSUME Boot PROVE VerdictInv'
  <2>1. /\ UNCHANGED <<kind, session>>
        /\ pc = "down"
        /\ pc' = IF kind = "harness" THEN "r_room" ELSE IF Verified THEN "r_finish" ELSE "r_identify"
    BY <1>0, <1>17 DEF Boot
  <2> QED
    BY <1>0, <1>17, <2>1, BootFields
<1>18. ASSUME RecoverCompletes PROVE VerdictInv'
  <2>1. /\ UNCHANGED <<kind, session>>
        /\ pc \in {"r_done", "r_failed"} /\ pc' = IF pc = "r_done" THEN "r_finish" ELSE "done"
    BY <1>0, <1>18 DEF RecoverCompletes
  <2> QED
    BY <1>0, <1>18, <2>1, CompleteRecord
<1>19. ASSUME UserCancels PROVE VerdictInv'  BY <1>0, <1>19 DEF UserCancels, MayCancel
<1>20. ASSUME EnterSession PROVE VerdictInv'  BY <1>0, <1>20 DEF EnterSession
<1>21. ASSUME ConfirmPairing PROVE VerdictInv'  BY <1>0, <1>21 DEF ConfirmPairing, PairingFails, LetGo
<1>22. ASSUME PassiveCheck PROVE VerdictInv'  BY <1>0, <1>22 DEF PassiveCheck
<1>23. ASSUME EnterRoom PROVE VerdictInv'  BY <1>0, <1>23 DEF EnterRoom
<1>24. ASSUME SaveCredential PROVE VerdictInv'  BY <1>0, <1>24 DEF SaveCredential
<1>25. ASSUME Pair PROVE VerdictInv'  BY <1>0, <1>25 DEF Pair
<1>26. ASSUME CreateLease PROVE VerdictInv'  BY <1>0, <1>26 DEF CreateLease, NoLease
<1>27. ASSUME WriteIntent PROVE VerdictInv'  BY <1>0, <1>27 DEF WriteIntent, PersistIntent, AdapterIs
<1>28. ASSUME Attach PROVE VerdictInv'  BY <1>0, <1>28 DEF Attach, AttachCommand
<1>29. ASSUME Enumerated PROVE VerdictInv'  BY <1>0, <1>29 DEF Enumerated, Activate, AdapterIs, InWsl
<1>30. ASSUME Spawn PROVE VerdictInv'  BY <1>0, <1>30 DEF Spawn
<1>31. ASSUME AwaitReady PROVE VerdictInv'  BY <1>0, <1>31 DEF AwaitReady, Sees
<1>32. ASSUME SendReady PROVE VerdictInv'  BY <1>0, <1>32 DEF SendReady
<1>33. ASSUME Launch PROVE VerdictInv'  BY <1>0, <1>33 DEF Launch
<1>34. ASSUME DirectStage PROVE VerdictInv'  BY <1>0, <1>34 DEF DirectStage, Sees
<1>35. ASSUME Drive PROVE VerdictInv'
  BY <1>0, <1>35 DEF Drive, Sees, BeginD, HasD, Closing, OwnerEnds, Nothing
<1>36. ASSUME DriveError PROVE VerdictInv'
  BY <1>0, <1>36 DEF DriveError, BeginD, HasD, Closing, Nothing
<1>37. ASSUME SendIntent PROVE VerdictInv'  BY <1>0, <1>37 DEF SendIntent
<1>38. ASSUME AwaitDone PROVE VerdictInv'  BY <1>0, <1>38 DEF AwaitDone, Mapped
<1>39. ASSUME Stop PROVE VerdictInv'  BY <1>0, <1>39 DEF Stop, Alive
<1>40. ASSUME Unclean PROVE VerdictInv'  BY <1>0, <1>40 DEF Unclean
<1>41. ASSUME Forget PROVE VerdictInv'  BY <1>0, <1>41 DEF Forget
<1>42. ASSUME BeginCleanupD1 PROVE VerdictInv'
  BY <1>0, <1>42 DEF BeginCleanupD1, BeginD, HasD, Closing, Nothing
<1>43. ASSUME MeasureD5 PROVE VerdictInv'
  BY <1>0, <1>43 DEF MeasureD5, Agreed, AuthorityOutcome, ReportIs, Measured, ProcessGone,
    InterfacesAbsent, RadioDown, Alive
<1>44. ASSUME AcknowledgeD5 PROVE VerdictInv'  BY <1>0, <1>44 DEF AcknowledgeD5
<1>45. ASSUME AwaitBarrier PROVE VerdictInv'  BY <1>0, <1>45 DEF AwaitBarrier
<1>46. ASSUME ReportD11 PROVE VerdictInv'  BY <1>0, <1>46 DEF ReportD11
<1>47. ASSUME FinalizeRoom PROVE VerdictInv'  BY <1>0, <1>47 DEF FinalizeRoom, LetGo, KeepsRoom
<1>48. ASSUME ResumeRoom PROVE VerdictInv'  BY <1>0, <1>48 DEF ResumeRoom, AfterRoom
<1>49. ASSUME RecoverIntent PROVE VerdictInv'  BY <1>0, <1>49 DEF RecoverIntent, Closing, AfterRoom
<1>50. ASSUME RecoverProcess PROVE VerdictInv'  BY <1>0, <1>50 DEF RecoverProcess, KnownProcess, Alive
<1>51. ASSUME RecoverRadio PROVE VerdictInv'  BY <1>0, <1>51 DEF RecoverRadio, Quiesced, KnownNetdev
<1>52. ASSUME RecoverVerify PROVE VerdictInv'
  BY <1>0, <1>52 DEF RecoverVerify, D8D9, LaunchAbsent, InWsl, Alive
<1>53. ASSUME RecoverUsb PROVE VerdictInv'  BY <1>0, <1>53 DEF RecoverUsb, LeaseFromRecovery
<1>54. ASSUME RecoverFinish PROVE VerdictInv'
  BY <1>0, <1>54 DEF RecoverFinish, HarnessFinishes, ServiceFinishes, LetGo
<1>55. ASSUME Dies PROVE VerdictInv'  BY <1>0, <1>55 DEF Dies, Forgotten, NoFlags, NoLease, Nothing
<1>56. CASE UNCHANGED vars  BY <1>0, <1>56
<1> QED
  BY <1>0, <1>1, <1>2, <1>3, <1>4, <1>5, <1>6, <1>7, <1>8, <1>9, <1>10, <1>11, <1>12, <1>13, <1>14,
    <1>15, <1>16, <1>17, <1>18, <1>19, <1>20, <1>21, <1>22, <1>23, <1>24, <1>25, <1>26, <1>27, <1>28,
    <1>29, <1>30, <1>31, <1>32, <1>33, <1>34, <1>35, <1>36, <1>37, <1>38, <1>39, <1>40, <1>41, <1>42,
    <1>43, <1>44, <1>45, <1>46, <1>47, <1>48, <1>49, <1>50, <1>51, <1>52, <1>53, <1>54, <1>55, <1>56
    DEF Next, Executor, Closes, Recovers

\* The saved authority outlives the run's copy while the relay counts this member.
LEMMA CredentialSteps ==
  RecordShape /\ PlainShape /\ PlaceInv /\ VerdictInv /\ CredentialInv /\ [Next]_vars
    => CredentialInv'
<1>0. SUFFICES ASSUME RecordShape /\ PlainShape /\ PlaceInv /\ VerdictInv /\ CredentialInv, [Next]_vars
               PROVE  CredentialInv'
  OBVIOUS
<1> USE DEF CredentialInv, VerdictInv, Verified, PlaceInv, PlainShape, RecordShape, Records, Opening,
    Borrowing, Working, Ending, Before, Aborting, Closings, Releasing, Settling, Over, Resuming,
    Returning, Body, BodyFails, Raise, KeepHost, KeepRelay, Means, hostVars, controlVars, fileVars,
    relayVars, runVars, vars
<1>1. ASSUME Environment PROVE CredentialInv'
  BY <1>0, <1>1 DEF Environment, WorkerReady, Alive, EndpointStarts, TicketRefused, WorkerLeaves,
    Replug, EndpointFails, EndpointCloses, StageEnds, AttemptStarts, PeerEnds, Closing,
    PeerAcknowledges, BarrierEnds
<1>2. ASSUME AbortRoom PROVE CredentialInv'
  <2>1. /\ UNCHANGED <<kind, session>> /\ pc = "abort_room"
        /\ authority' = authority \/ (room' = "out" /\ authority' = FALSE)
    BY <1>2 DEF AbortRoom, LetGo
  <2>2. rec'.phase = "terminal" /\ pc' = IF rec'.cleanup = "verified" THEN "forget" ELSE "done"
    BY <1>0, <1>2, AbortRecord
  <2>3. ~Verified
    BY <1>0, <2>1
  <2>4. kind = "harness" /\ pc' = "forget" => room' = "out"
    BY <1>2 DEF AbortRoom, Joined, LetGo, KeepsRoom
  <2>5. authority' # authority => pc' = "forget"
    BY <1>2 DEF AbortRoom
  <2> QED
    BY <1>0, <2>1, <2>2, <2>3, <2>4, <2>5
<1>3. ASSUME CompleteD11 PROVE CredentialInv'
  <2>1. rec'.phase = "terminal" /\ rec'.cleanup = "verified"
    BY <1>0, <1>3, VerdictFields DEF CompleteD11
  <2> QED
    BY <1>0, <1>3, <2>1 DEF CompleteD11
<1>4. ASSUME RecoverFinish PROVE CredentialInv'
  <2>1. UNCHANGED <<kind, rec>> /\ pc = "r_finish" /\ pc' = "done"
    BY <1>4 DEF RecoverFinish
  <2>2. kind # "harness" => UNCHANGED session
    BY <1>0, <1>4 DEF RecoverFinish, HarnessFinishes, ServiceFinishes
  <2>3. kind # "production" => UNCHANGED authority
    BY <1>0, <1>4 DEF RecoverFinish, HarnessFinishes, ServiceFinishes
  <2> QED
    BY <1>0, <2>1, <2>2, <2>3
<1>5. ASSUME UserCancels PROVE CredentialInv'  BY <1>0, <1>5 DEF UserCancels, MayCancel
<1>6. ASSUME EnterSession PROVE CredentialInv'  BY <1>0, <1>6 DEF EnterSession
<1>7. ASSUME ConfirmPairing PROVE CredentialInv'  BY <1>0, <1>7 DEF ConfirmPairing, PairingFails, LetGo
<1>8. ASSUME Start PROVE CredentialInv'  BY <1>0, <1>8 DEF Start, NewRecord
<1>9. ASSUME PassiveCheck PROVE CredentialInv'  BY <1>0, <1>9 DEF PassiveCheck
<1>10. ASSUME EnterRoom PROVE CredentialInv'  BY <1>0, <1>10 DEF EnterRoom
<1>11. ASSUME SaveCredential PROVE CredentialInv'  BY <1>0, <1>11 DEF SaveCredential
<1>12. ASSUME Pair PROVE CredentialInv'  BY <1>0, <1>12 DEF Pair
<1>13. ASSUME Bind PROVE CredentialInv'  BY <1>0, <1>13 DEF Bind
<1>14. ASSUME CreateLease PROVE CredentialInv'  BY <1>0, <1>14 DEF CreateLease, NoLease
<1>15. ASSUME WriteIntent PROVE CredentialInv'  BY <1>0, <1>15 DEF WriteIntent, PersistIntent, AdapterIs
<1>16. ASSUME Attach PROVE CredentialInv'  BY <1>0, <1>16 DEF Attach, AttachCommand
<1>17. ASSUME Enumerated PROVE CredentialInv'  BY <1>0, <1>17 DEF Enumerated, Activate, AdapterIs, InWsl
<1>18. ASSUME Spawn PROVE CredentialInv'  BY <1>0, <1>18 DEF Spawn
<1>19. ASSUME AwaitReady PROVE CredentialInv'  BY <1>0, <1>19 DEF AwaitReady, Sees
<1>20. ASSUME AcquireWrapper PROVE CredentialInv'  BY <1>0, <1>20 DEF AcquireWrapper
<1>21. ASSUME MarkP0Ready PROVE CredentialInv'  BY <1>0, <1>21 DEF MarkP0Ready
<1>22. ASSUME SendReady PROVE CredentialInv'  BY <1>0, <1>22 DEF SendReady
<1>23. ASSUME LockAttempt PROVE CredentialInv'  BY <1>0, <1>23 DEF LockAttempt
<1>24. ASSUME Launch PROVE CredentialInv'  BY <1>0, <1>24 DEF Launch
<1>25. ASSUME AcknowledgeEndpoint PROVE CredentialInv'  BY <1>0, <1>25 DEF AcknowledgeEndpoint, Sees
<1>26. ASSUME DirectStage PROVE CredentialInv'  BY <1>0, <1>26 DEF DirectStage, Sees
<1>27. ASSUME Drive PROVE CredentialInv'
  BY <1>0, <1>27 DEF Drive, Sees, BeginD, HasD, Closing, OwnerEnds, Nothing
<1>28. ASSUME DriveError PROVE CredentialInv'
  BY <1>0, <1>28 DEF DriveError, BeginD, HasD, Closing, Nothing
<1>29. ASSUME SendIntent PROVE CredentialInv'  BY <1>0, <1>29 DEF SendIntent
<1>30. ASSUME AwaitDone PROVE CredentialInv'  BY <1>0, <1>30 DEF AwaitDone, Mapped
<1>31. ASSUME CloseRun PROVE CredentialInv'  BY <1>0, <1>31 DEF CloseRun
<1>32. ASSUME Stop PROVE CredentialInv'  BY <1>0, <1>32 DEF Stop, Alive
<1>33. ASSUME Unclean PROVE CredentialInv'  BY <1>0, <1>33 DEF Unclean
<1>34. ASSUME AbortCheck PROVE CredentialInv'
  BY <1>0, <1>34 DEF AbortCheck, Quiesced, D8D9, LaunchAbsent, InWsl, Alive
<1>35. ASSUME Forget PROVE CredentialInv'  BY <1>0, <1>35 DEF Forget
<1>36. ASSUME BeginCleanupD1 PROVE CredentialInv'
  BY <1>0, <1>36 DEF BeginCleanupD1, BeginD, HasD, Closing, Nothing
<1>37. ASSUME MeasureD5 PROVE CredentialInv'
  BY <1>0, <1>37 DEF MeasureD5, Agreed, AuthorityOutcome, ReportIs, Measured, ProcessGone,
    InterfacesAbsent, RadioDown, Alive
<1>38. ASSUME AcknowledgeD5 PROVE CredentialInv'  BY <1>0, <1>38 DEF AcknowledgeD5
<1>39. ASSUME AwaitBarrier PROVE CredentialInv'  BY <1>0, <1>39 DEF AwaitBarrier
<1>40. ASSUME CheckBarrier PROVE CredentialInv'
  BY <1>0, <1>40 DEF CheckBarrier, BarrierHolds, Agreed, AuthorityOutcome
<1>41. ASSUME ProbeRelease PROVE CredentialInv'
  BY <1>0, <1>41 DEF ProbeRelease, ReleaseFails, LaunchAbsent, RadioQuiet, RadioDown, Alive
<1>42. ASSUME ReportD11 PROVE CredentialInv'  BY <1>0, <1>42 DEF ReportD11
<1>43. ASSUME FinalizeRoom PROVE CredentialInv'  BY <1>0, <1>43 DEF FinalizeRoom, LetGo, KeepsRoom
<1>44. ASSUME Release PROVE CredentialInv'
  BY <1>0, <1>44 DEF Release, ReleaseDone, ReleaseFailed, ReleaseFails, NothingToReturn, MayDetach,
    PriorStateSeen, AdapterIs, InWsl, RadioDown, NoFile, NoLease
<1>45. ASSUME Detach PROVE CredentialInv'  BY <1>0, <1>45 DEF Detach, ReleaseFailed, ReleaseFails
<1>46. ASSUME Returned PROVE CredentialInv'
  BY <1>0, <1>46 DEF Returned, ReleaseDone, ReleaseFailed, ReleaseFails, PriorStateSeen, AdapterIs,
    InWsl, RadioDown, NoFile, NoLease
<1>47. ASSUME Boot PROVE CredentialInv'  BY <1>0, <1>47 DEF Boot
<1>48. ASSUME ResumeRoom PROVE CredentialInv'  BY <1>0, <1>48 DEF ResumeRoom, AfterRoom
<1>49. ASSUME RecoverIntent PROVE CredentialInv'  BY <1>0, <1>49 DEF RecoverIntent, Closing, AfterRoom
<1>50. ASSUME RecoverProcess PROVE CredentialInv'
  BY <1>0, <1>50 DEF RecoverProcess, KnownProcess, Alive
<1>51. ASSUME RecoverRadio PROVE CredentialInv'  BY <1>0, <1>51 DEF RecoverRadio, Quiesced, KnownNetdev
<1>52. ASSUME RecoverVerify PROVE CredentialInv'
  BY <1>0, <1>52 DEF RecoverVerify, D8D9, LaunchAbsent, InWsl, Alive
<1>53. ASSUME RecoverUsb PROVE CredentialInv'  BY <1>0, <1>53 DEF RecoverUsb, LeaseFromRecovery
<1>54. ASSUME RecoverCompletes PROVE CredentialInv'  BY <1>0, <1>54 DEF RecoverCompletes
<1>55. ASSUME Dies PROVE CredentialInv'  BY <1>0, <1>55 DEF Dies, Forgotten, NoFlags, NoLease, Nothing
<1>56. CASE UNCHANGED vars  BY <1>0, <1>56
<1> QED
  BY <1>0, <1>1, <1>2, <1>3, <1>4, <1>5, <1>6, <1>7, <1>8, <1>9, <1>10, <1>11, <1>12, <1>13, <1>14,
    <1>15, <1>16, <1>17, <1>18, <1>19, <1>20, <1>21, <1>22, <1>23, <1>24, <1>25, <1>26, <1>27, <1>28,
    <1>29, <1>30, <1>31, <1>32, <1>33, <1>34, <1>35, <1>36, <1>37, <1>38, <1>39, <1>40, <1>41, <1>42,
    <1>43, <1>44, <1>45, <1>46, <1>47, <1>48, <1>49, <1>50, <1>51, <1>52, <1>53, <1>54, <1>55, <1>56
    DEF Next, Executor, Closes, Recovers

-----------------------------------------------------------------------------
(* The adapter, the worker and the radio.                                   *)

\* The adapter is the run's only with a file that says so, at every place of a lease.
LEMMA BorrowSteps ==
  HostTypeOK /\ RecordShape /\ FlagShape /\ PlainShape /\ PlaceInv /\ BorrowInv /\ [Next]_vars
    => BorrowInv'
<1>0. SUFFICES ASSUME HostTypeOK /\ RecordShape /\ FlagShape /\ PlainShape /\ PlaceInv /\ BorrowInv,
                      [Next]_vars
               PROVE  BorrowInv'
  OBVIOUS
<1> USE DEF BorrowInv, HostTypeOK, PlainShape, PlaceInv, Held, FlagShape, FlagSet, NoLease, NoFile,
    Opening, Borrowing, Working, Ending, Before, Aborting, Closings, Releasing, Settling, Over,
    Resuming, Returning, Body, BodyFails, Raise, KeepHost, KeepRelay, Means, hostVars, controlVars,
    fileVars, relayVars, runVars, vars
<1>1. ASSUME Environment PROVE BorrowInv'
  BY <1>0, <1>1 DEF Environment, WorkerReady, Alive, EndpointStarts, TicketRefused, WorkerLeaves,
    Replug, EndpointFails, EndpointCloses, StageEnds, AttemptStarts, PeerEnds, Closing,
    PeerAcknowledges, BarrierEnds
<1>2. ASSUME Release PROVE BorrowInv'
  <2>0. ret \in {"abort", "d10", "recover"} /\ pc = "release"
    BY <1>0, <1>2 DEF Release
  <2>1. CASE (NothingToReturn \/ PriorStateSeen) /\ ReleaseDone
    <3>1. UNCHANGED <<usb, iface, worker, prior, replugs, kind, controlVars, d5, session, authority,
                      relayVars>>
      BY <1>2 DEF Release
    <3> QED
      BY <1>0, <2>0, <2>1, <3>1, DoneRelease DEF NothingToReturn, PriorStateSeen, AdapterIs, InWsl,
          RadioDown
  <2>2. CASE ReleaseFailed /\ UNCHANGED <<usbFile, lease>>
    BY <1>0, <1>2, <2>0, <2>2, FailedRelease DEF Release
  <2>3. CASE MayDetach /\ pc' = "detach" /\ UNCHANGED <<usbFile, lease, rec, released>>
    BY <1>0, <1>2, <2>3 DEF Release, MayDetach, AdapterIs, RadioDown
  <2> QED
    BY <1>2, <2>1, <2>2, <2>3 DEF Release
<1>3. ASSUME Detach PROVE BorrowInv'
  <2>0. ret \in {"abort", "d10", "recover"} /\ pc = "detach"
    BY <1>0, <1>3 DEF Detach
  <2>1. CASE ReleaseFailed
    BY <1>0, <1>3, <2>0, <2>1, FailedRelease DEF Detach
  <2>2. CASE UNCHANGED <<rec, released>> /\ pc' = "returned"
    BY <1>0, <1>3, <2>2 DEF Detach
  <2> QED
    BY <1>3, <2>1, <2>2 DEF Detach
<1>4. ASSUME Returned PROVE BorrowInv'
  <2>0. ret \in {"abort", "d10", "recover"} /\ pc = "returned"
    BY <1>0, <1>4 DEF Returned
  <2>1. CASE PriorStateSeen /\ ReleaseDone
    <3>1. UNCHANGED <<usb, iface, worker, prior, replugs, kind, controlVars, d5, session, authority,
                      relayVars>>
      BY <1>4 DEF Returned
    <3> QED
      BY <1>0, <2>0, <2>1, <3>1, DoneRelease DEF NothingToReturn, PriorStateSeen, AdapterIs, InWsl,
          RadioDown
  <2>2. CASE ReleaseFailed /\ UNCHANGED <<usbFile, lease>>
    BY <1>0, <1>4, <2>0, <2>2, FailedRelease DEF Returned
  <2> QED
    BY <1>4, <2>1, <2>2 DEF Returned
<1>5. ASSUME UserCancels PROVE BorrowInv'  BY <1>0, <1>5 DEF UserCancels, MayCancel
<1>6. ASSUME EnterSession PROVE BorrowInv'  BY <1>0, <1>6 DEF EnterSession
<1>7. ASSUME ConfirmPairing PROVE BorrowInv'  BY <1>0, <1>7 DEF ConfirmPairing, PairingFails, LetGo
<1>8. ASSUME Start PROVE BorrowInv'  BY <1>0, <1>8 DEF Start, NewRecord
<1>9. ASSUME PassiveCheck PROVE BorrowInv'  BY <1>0, <1>9 DEF PassiveCheck
<1>10. ASSUME EnterRoom PROVE BorrowInv'  BY <1>0, <1>10 DEF EnterRoom
<1>11. ASSUME SaveCredential PROVE BorrowInv'  BY <1>0, <1>11 DEF SaveCredential
<1>12. ASSUME Pair PROVE BorrowInv'  BY <1>0, <1>12 DEF Pair
<1>13. ASSUME Bind PROVE BorrowInv'  BY <1>0, <1>13 DEF Bind
<1>14. ASSUME CreateLease PROVE BorrowInv'  BY <1>0, <1>14 DEF CreateLease
<1>15. ASSUME WriteIntent PROVE BorrowInv'  BY <1>0, <1>15 DEF WriteIntent, PersistIntent, AdapterIs
<1>16. ASSUME Attach PROVE BorrowInv'  BY <1>0, <1>16 DEF Attach, AttachCommand
<1>17. ASSUME Enumerated PROVE BorrowInv'  BY <1>0, <1>17 DEF Enumerated, Activate, AdapterIs, InWsl
<1>18. ASSUME Spawn PROVE BorrowInv'  BY <1>0, <1>18 DEF Spawn
<1>19. ASSUME AwaitReady PROVE BorrowInv'  BY <1>0, <1>19 DEF AwaitReady, Sees
<1>20. ASSUME AcquireWrapper PROVE BorrowInv'  BY <1>0, <1>20 DEF AcquireWrapper
<1>21. ASSUME MarkP0Ready PROVE BorrowInv'  BY <1>0, <1>21 DEF MarkP0Ready
<1>22. ASSUME SendReady PROVE BorrowInv'  BY <1>0, <1>22 DEF SendReady
<1>23. ASSUME LockAttempt PROVE BorrowInv'  BY <1>0, <1>23 DEF LockAttempt
<1>24. ASSUME Launch PROVE BorrowInv'  BY <1>0, <1>24 DEF Launch
<1>25. ASSUME AcknowledgeEndpoint PROVE BorrowInv'  BY <1>0, <1>25 DEF AcknowledgeEndpoint, Sees
<1>26. ASSUME DirectStage PROVE BorrowInv'  BY <1>0, <1>26 DEF DirectStage, Sees
<1>27. ASSUME Drive PROVE BorrowInv'
  BY <1>0, <1>27 DEF Drive, Sees, BeginD, HasD, Closing, OwnerEnds, Nothing
<1>28. ASSUME DriveError PROVE BorrowInv'  BY <1>0, <1>28 DEF DriveError, BeginD, HasD, Closing, Nothing
<1>29. ASSUME SendIntent PROVE BorrowInv'  BY <1>0, <1>29 DEF SendIntent
<1>30. ASSUME AwaitDone PROVE BorrowInv'  BY <1>0, <1>30 DEF AwaitDone, Mapped
<1>31. ASSUME CloseRun PROVE BorrowInv'  BY <1>0, <1>31 DEF CloseRun
<1>32. ASSUME Stop PROVE BorrowInv'  BY <1>0, <1>32 DEF Stop, Alive
<1>33. ASSUME Unclean PROVE BorrowInv'  BY <1>0, <1>33 DEF Unclean
<1>34. ASSUME AbortCheck PROVE BorrowInv'
  BY <1>0, <1>34 DEF AbortCheck, Quiesced, D8D9, LaunchAbsent, InWsl, Alive
<1>35. ASSUME AbortRoom PROVE BorrowInv'
  BY <1>0, <1>35 DEF AbortRoom, StageReleased, Joined, LetGo, KeepsRoom
<1>36. ASSUME Forget PROVE BorrowInv'  BY <1>0, <1>36 DEF Forget
<1>37. ASSUME BeginCleanupD1 PROVE BorrowInv'
  BY <1>0, <1>37 DEF BeginCleanupD1, BeginD, HasD, Closing, Nothing
<1>38. ASSUME MeasureD5 PROVE BorrowInv'
  BY <1>0, <1>38 DEF MeasureD5, Agreed, AuthorityOutcome, ReportIs, Measured, ProcessGone,
    InterfacesAbsent, RadioDown, Alive
<1>39. ASSUME AcknowledgeD5 PROVE BorrowInv'  BY <1>0, <1>39 DEF AcknowledgeD5
<1>40. ASSUME AwaitBarrier PROVE BorrowInv'  BY <1>0, <1>40 DEF AwaitBarrier
<1>41. ASSUME CheckBarrier PROVE BorrowInv'
  BY <1>0, <1>41 DEF CheckBarrier, BarrierHolds, Agreed, AuthorityOutcome
<1>42. ASSUME ProbeRelease PROVE BorrowInv'
  BY <1>0, <1>42 DEF ProbeRelease, ReleaseFails, LaunchAbsent, RadioQuiet, RadioDown, Alive
<1>43. ASSUME CompleteD11 PROVE BorrowInv'  BY <1>0, <1>43 DEF CompleteD11
<1>44. ASSUME ReportD11 PROVE BorrowInv'  BY <1>0, <1>44 DEF ReportD11
<1>45. ASSUME FinalizeRoom PROVE BorrowInv'  BY <1>0, <1>45 DEF FinalizeRoom, LetGo, KeepsRoom
<1>46. ASSUME Boot PROVE BorrowInv'  BY <1>0, <1>46 DEF Boot, Verified
<1>47. ASSUME ResumeRoom PROVE BorrowInv'  BY <1>0, <1>47 DEF ResumeRoom, AfterRoom, Verified
<1>48. ASSUME RecoverIntent PROVE BorrowInv'
  BY <1>0, <1>48 DEF RecoverIntent, Closing, AfterRoom, Verified
<1>49. ASSUME RecoverProcess PROVE BorrowInv'  BY <1>0, <1>49 DEF RecoverProcess, KnownProcess, Alive
<1>50. ASSUME RecoverRadio PROVE BorrowInv'  BY <1>0, <1>50 DEF RecoverRadio, Quiesced, KnownNetdev
<1>51. ASSUME RecoverVerify PROVE BorrowInv'
  BY <1>0, <1>51 DEF RecoverVerify, D8D9, LaunchAbsent, InWsl, Alive
<1>52. ASSUME RecoverUsb PROVE BorrowInv'  BY <1>0, <1>52 DEF RecoverUsb, LeaseFromRecovery
<1>53. ASSUME RecoverCompletes PROVE BorrowInv'  BY <1>0, <1>53 DEF RecoverCompletes
<1>54. ASSUME RecoverFinish PROVE BorrowInv'
  BY <1>0, <1>54 DEF RecoverFinish, HarnessFinishes, ServiceFinishes, LetGo
<1>55. ASSUME Dies PROVE BorrowInv'  BY <1>0, <1>55 DEF Dies, Forgotten, NoFlags, Nothing
<1>56. CASE UNCHANGED vars  BY <1>0, <1>56
<1> QED
  BY <1>0, <1>1, <1>2, <1>3, <1>4, <1>5, <1>6, <1>7, <1>8, <1>9, <1>10, <1>11, <1>12, <1>13, <1>14,
    <1>15, <1>16, <1>17, <1>18, <1>19, <1>20, <1>21, <1>22, <1>23, <1>24, <1>25, <1>26, <1>27, <1>28,
    <1>29, <1>30, <1>31, <1>32, <1>33, <1>34, <1>35, <1>36, <1>37, <1>38, <1>39, <1>40, <1>41, <1>42,
    <1>43, <1>44, <1>45, <1>46, <1>47, <1>48, <1>49, <1>50, <1>51, <1>52, <1>53, <1>54, <1>55, <1>56
    DEF Next, Executor, Closes, Recovers

\* Nobody else's process can be alive, and none is where a release begins.
LEMMA WorkerSteps ==
  HostTypeOK /\ RecordShape /\ FlagShape /\ PlainShape /\ PlaceInv /\ BorrowInv /\ WorkerInv /\
     [Next]_vars
    => WorkerInv'
<1>0. SUFFICES ASSUME HostTypeOK /\ RecordShape /\ FlagShape /\ PlainShape /\ PlaceInv /\ BorrowInv /\
                      WorkerInv, [Next]_vars
               PROVE  WorkerInv'
  OBVIOUS
<1> USE DEF WorkerInv, Launched, Ours, Alive, HostTypeOK, BorrowInv, Held, NoLease, PlaceInv,
    PlainShape, FlagShape, FlagSet, Opening, Borrowing, Working, Ending, Before, Aborting, Closings,
    Releasing, Settling, Over, Resuming, Returning, Body, BodyFails, Raise, KeepHost, KeepRelay, Means,
    hostVars, controlVars, fileVars, relayVars, runVars, vars
<1>1. ASSUME Environment PROVE WorkerInv'
  BY <1>0, <1>1 DEF Environment, WorkerReady, EndpointStarts, TicketRefused, WorkerLeaves, Replug,
    EndpointFails, EndpointCloses, StageEnds, AttemptStarts, PeerEnds, Closing, PeerAcknowledges,
    BarrierEnds
<1>2. ASSUME LockAttempt PROVE WorkerInv'
  <2>1. /\ UNCHANGED <<worker, iface, usb, lease, ret>>
        /\ pc = "await_attempt" /\ pc' \in {"launch", "close"}
    BY <1>0, <1>2 DEF LockAttempt
  <2> QED
    BY <1>0, <1>2, <2>1, MarkRecord DEF Kept, Working, Ending, Opening, Borrowing
<1>3. ASSUME AcknowledgeEndpoint PROVE WorkerInv'
  <2>1. /\ UNCHANGED <<worker, iface, usb, lease, ret>>
        /\ pc = "await_started" /\ pc' \in {"direct", "drive", "close"}
    BY <1>0, <1>3 DEF AcknowledgeEndpoint
  <2> QED
    BY <1>0, <1>3, <2>1, MarkRecord DEF Kept, Working, Ending, Opening, Borrowing
<1>4. ASSUME Release PROVE WorkerInv'
  <2>0. ret \in {"abort", "d10", "recover"} /\ pc = "release"
    BY <1>0, <1>4 DEF Release
  <2>1. CASE (NothingToReturn \/ PriorStateSeen) /\ ReleaseDone
    <3>1. UNCHANGED <<usb, iface, worker, prior, replugs, kind, controlVars, d5, session, authority,
                      relayVars>>
      BY <1>4 DEF Release
    <3> QED
      BY <1>0, <2>0, <2>1, <3>1, DoneRelease DEF NothingToReturn, PriorStateSeen, AdapterIs, InWsl,
          RadioDown
  <2>2. CASE ReleaseFailed /\ UNCHANGED <<usbFile, lease>>
    BY <1>0, <1>4, <2>0, <2>2, FailedRelease DEF Release
  <2>3. CASE MayDetach /\ pc' = "detach" /\ UNCHANGED <<usbFile, lease, rec, released>>
    BY <1>0, <1>4, <2>3 DEF Release, MayDetach, AdapterIs, RadioDown
  <2> QED
    BY <1>4, <2>1, <2>2, <2>3 DEF Release
<1>5. ASSUME Detach PROVE WorkerInv'
  <2>0. ret \in {"abort", "d10", "recover"} /\ pc = "detach"
    BY <1>0, <1>5 DEF Detach
  <2>1. CASE ReleaseFailed
    BY <1>0, <1>5, <2>0, <2>1, FailedRelease DEF Detach
  <2>2. CASE UNCHANGED <<rec, released>> /\ pc' = "returned"
    BY <1>0, <1>5, <2>2 DEF Detach
  <2> QED
    BY <1>5, <2>1, <2>2 DEF Detach
<1>6. ASSUME Returned PROVE WorkerInv'
  <2>0. ret \in {"abort", "d10", "recover"} /\ pc = "returned"
    BY <1>0, <1>6 DEF Returned
  <2>1. CASE PriorStateSeen /\ ReleaseDone
    <3>1. UNCHANGED <<usb, iface, worker, prior, replugs, kind, controlVars, d5, session, authority,
                      relayVars>>
      BY <1>6 DEF Returned
    <3> QED
      BY <1>0, <2>0, <2>1, <3>1, DoneRelease DEF NothingToReturn, PriorStateSeen, AdapterIs, InWsl,
          RadioDown
  <2>2. CASE ReleaseFailed /\ UNCHANGED <<usbFile, lease>>
    BY <1>0, <1>6, <2>0, <2>2, FailedRelease DEF Returned
  <2> QED
    BY <1>6, <2>1, <2>2 DEF Returned
<1>7. ASSUME Boot PROVE WorkerInv'
  <2>1. /\ UNCHANGED <<worker, iface, usb, lease, ret>>
        /\ pc = "down" /\ pc' \in Resuming \cup {"r_identify"}
    BY <1>0, <1>7 DEF Boot
  <2> QED
    BY <1>0, <1>7, <2>1, BootFields
<1>8. ASSUME RecoverCompletes PROVE WorkerInv'
  <2>1. /\ UNCHANGED <<worker, iface, usb, lease, ret>>
        /\ pc \in {"r_done", "r_failed"} /\ pc' \in {"r_finish", "done"}
    BY <1>0, <1>8 DEF RecoverCompletes
  <2> QED
    BY <1>0, <1>8, <2>1, CompleteRecord
<1>9. ASSUME UserCancels PROVE WorkerInv'  BY <1>0, <1>9 DEF UserCancels, MayCancel
<1>10. ASSUME EnterSession PROVE WorkerInv'  BY <1>0, <1>10 DEF EnterSession
<1>11. ASSUME ConfirmPairing PROVE WorkerInv'  BY <1>0, <1>11 DEF ConfirmPairing, PairingFails, LetGo
<1>12. ASSUME Start PROVE WorkerInv'  BY <1>0, <1>12 DEF Start, NewRecord
<1>13. ASSUME PassiveCheck PROVE WorkerInv'  BY <1>0, <1>13 DEF PassiveCheck
<1>14. ASSUME EnterRoom PROVE WorkerInv'  BY <1>0, <1>14 DEF EnterRoom
<1>15. ASSUME SaveCredential PROVE WorkerInv'  BY <1>0, <1>15 DEF SaveCredential
<1>16. ASSUME Pair PROVE WorkerInv'  BY <1>0, <1>16 DEF Pair
<1>17. ASSUME Bind PROVE WorkerInv'  BY <1>0, <1>17 DEF Bind
<1>18. ASSUME CreateLease PROVE WorkerInv'  BY <1>0, <1>18 DEF CreateLease
<1>19. ASSUME WriteIntent PROVE WorkerInv'  BY <1>0, <1>19 DEF WriteIntent, PersistIntent, AdapterIs
<1>20. ASSUME Attach PROVE WorkerInv'  BY <1>0, <1>20 DEF Attach, AttachCommand
<1>21. ASSUME Enumerated PROVE WorkerInv'  BY <1>0, <1>21 DEF Enumerated, Activate, AdapterIs, InWsl
<1>22. ASSUME Spawn PROVE WorkerInv'  BY <1>0, <1>22 DEF Spawn
<1>23. ASSUME AwaitReady PROVE WorkerInv'  BY <1>0, <1>23 DEF AwaitReady, Sees
<1>24. ASSUME AcquireWrapper PROVE WorkerInv'  BY <1>0, <1>24 DEF AcquireWrapper
<1>25. ASSUME MarkP0Ready PROVE WorkerInv'  BY <1>0, <1>25 DEF MarkP0Ready
<1>26. ASSUME SendReady PROVE WorkerInv'  BY <1>0, <1>26 DEF SendReady
<1>27. ASSUME Launch PROVE WorkerInv'  BY <1>0, <1>27 DEF Launch
<1>28. ASSUME DirectStage PROVE WorkerInv'  BY <1>0, <1>28 DEF DirectStage, Sees
<1>29. ASSUME Drive PROVE WorkerInv'
  BY <1>0, <1>29 DEF Drive, Sees, BeginD, HasD, Closing, OwnerEnds, Nothing
<1>30. ASSUME DriveError PROVE WorkerInv'  BY <1>0, <1>30 DEF DriveError, BeginD, HasD, Closing, Nothing
<1>31. ASSUME SendIntent PROVE WorkerInv'  BY <1>0, <1>31 DEF SendIntent
<1>32. ASSUME AwaitDone PROVE WorkerInv'  BY <1>0, <1>32 DEF AwaitDone, Mapped
<1>33. ASSUME CloseRun PROVE WorkerInv'  BY <1>0, <1>33 DEF CloseRun
<1>34. ASSUME Stop PROVE WorkerInv'  BY <1>0, <1>34 DEF Stop
<1>35. ASSUME Unclean PROVE WorkerInv'  BY <1>0, <1>35 DEF Unclean
<1>36. ASSUME AbortCheck PROVE WorkerInv'
  BY <1>0, <1>36 DEF AbortCheck, Quiesced, D8D9, LaunchAbsent, InWsl
<1>37. ASSUME AbortRoom PROVE WorkerInv'
  BY <1>0, <1>37 DEF AbortRoom, StageReleased, Joined, LetGo, KeepsRoom, NoFile
<1>38. ASSUME Forget PROVE WorkerInv'  BY <1>0, <1>38 DEF Forget
<1>39. ASSUME BeginCleanupD1 PROVE WorkerInv'
  BY <1>0, <1>39 DEF BeginCleanupD1, BeginD, HasD, Closing, Nothing
<1>40. ASSUME MeasureD5 PROVE WorkerInv'
  BY <1>0, <1>40 DEF MeasureD5, Agreed, AuthorityOutcome, ReportIs, Measured, ProcessGone,
    InterfacesAbsent, RadioDown
<1>41. ASSUME AcknowledgeD5 PROVE WorkerInv'  BY <1>0, <1>41 DEF AcknowledgeD5
<1>42. ASSUME AwaitBarrier PROVE WorkerInv'  BY <1>0, <1>42 DEF AwaitBarrier
<1>43. ASSUME CheckBarrier PROVE WorkerInv'
  BY <1>0, <1>43 DEF CheckBarrier, BarrierHolds, Agreed, AuthorityOutcome
<1>44. ASSUME ProbeRelease PROVE WorkerInv'
  BY <1>0, <1>44 DEF ProbeRelease, ReleaseFails, LaunchAbsent, RadioQuiet, RadioDown
<1>45. ASSUME CompleteD11 PROVE WorkerInv'  BY <1>0, <1>45 DEF CompleteD11
<1>46. ASSUME ReportD11 PROVE WorkerInv'  BY <1>0, <1>46 DEF ReportD11
<1>47. ASSUME FinalizeRoom PROVE WorkerInv'  BY <1>0, <1>47 DEF FinalizeRoom, LetGo, KeepsRoom
<1>48. ASSUME ResumeRoom PROVE WorkerInv'  BY <1>0, <1>48 DEF ResumeRoom, AfterRoom, Verified
<1>49. ASSUME RecoverIntent PROVE WorkerInv'
  BY <1>0, <1>49 DEF RecoverIntent, Closing, AfterRoom, Verified
<1>50. ASSUME RecoverProcess PROVE WorkerInv'  BY <1>0, <1>50 DEF RecoverProcess, KnownProcess
<1>51. ASSUME RecoverRadio PROVE WorkerInv'  BY <1>0, <1>51 DEF RecoverRadio, Quiesced, KnownNetdev
<1>52. ASSUME RecoverVerify PROVE WorkerInv'
  BY <1>0, <1>52 DEF RecoverVerify, D8D9, LaunchAbsent, InWsl
<1>53. ASSUME RecoverUsb PROVE WorkerInv'  BY <1>0, <1>53 DEF RecoverUsb, LeaseFromRecovery
<1>54. ASSUME RecoverFinish PROVE WorkerInv'
  BY <1>0, <1>54 DEF RecoverFinish, HarnessFinishes, ServiceFinishes, LetGo
<1>55. ASSUME Dies PROVE WorkerInv'  BY <1>0, <1>55 DEF Dies, Forgotten, NoFlags, Nothing
<1>56. CASE UNCHANGED vars  BY <1>0, <1>56
<1> QED
  BY <1>0, <1>1, <1>2, <1>3, <1>4, <1>5, <1>6, <1>7, <1>8, <1>9, <1>10, <1>11, <1>12, <1>13, <1>14,
    <1>15, <1>16, <1>17, <1>18, <1>19, <1>20, <1>21, <1>22, <1>23, <1>24, <1>25, <1>26, <1>27, <1>28,
    <1>29, <1>30, <1>31, <1>32, <1>33, <1>34, <1>35, <1>36, <1>37, <1>38, <1>39, <1>40, <1>41, <1>42,
    <1>43, <1>44, <1>45, <1>46, <1>47, <1>48, <1>49, <1>50, <1>51, <1>52, <1>53, <1>54, <1>55, <1>56
    DEF Next, Executor, Closes, Recovers

\* What was seen quiet stays quiet.
LEMMA QuietSteps ==
  HostTypeOK /\ RecordShape /\ AttemptShape /\ PlainShape /\ PlaceInv /\ BorrowInv /\ WorkerInv /\
     QuietInv /\ [Next]_vars
    => QuietInv'
<1>0. SUFFICES ASSUME HostTypeOK /\ RecordShape /\ AttemptShape /\ PlainShape /\ PlaceInv /\ BorrowInv
                      /\ WorkerInv /\ QuietInv, [Next]_vars
               PROVE  QuietInv'
  OBVIOUS
<1> USE DEF QuietInv, WorkerInv, BorrowInv, Held, NoLease, NoFile, Quiet, Ours, Alive, HostTypeOK,
    PlaceInv, PlainShape, Opening, Borrowing, Working, Ending, Before, Aborting, Closings, Releasing,
    Settling, Over, Resuming, Returning, Body, BodyFails, Raise, KeepHost, KeepRelay, Means, hostVars,
    controlVars, fileVars, relayVars, runVars, vars
<1>1. ASSUME Environment PROVE QuietInv'
  <2>1. UNCHANGED <<pc, ret, rec, d5, lease, usbFile>> /\ att'.mine = att.mine
    BY <1>0, <1>1, EnvironmentKeeps, EnvironmentAttempt DEF controlVars, runVars
  <2>2. Alive \/ (worker' = worker /\ iface' \in {iface, "down"} /\ usb' \in {usb, "detached"})
    BY <1>1, EnvironmentHost
  <2> QED
    BY <1>0, <2>1, <2>2
<1>2. ASSUME Bind PROVE QuietInv'
  <2>1. /\ UNCHANGED <<usb, iface, worker, lease, usbFile, att, d5>>
        /\ UNCHANGED ret /\ pc = "bind" /\ pc' \in {"lease", "close"}
    BY <1>0, <1>2 DEF Bind
  <2> QED
    BY <1>0, <1>2, <2>1, BindRecord DEF Kept
<1>3. ASSUME LockAttempt PROVE QuietInv'
  <2>1. /\ UNCHANGED <<usb, iface, worker, lease, usbFile, att, d5>>
        /\ UNCHANGED ret /\ pc = "await_attempt" /\ pc' \in {"launch", "close"}
    BY <1>0, <1>3 DEF LockAttempt
  <2> QED
    BY <1>0, <1>3, <2>1, MarkRecord DEF Kept, Working, Ending, Opening, Borrowing
<1>4. ASSUME AcknowledgeEndpoint PROVE QuietInv'
  <2>1. /\ UNCHANGED <<usb, iface, worker, lease, usbFile, att, d5>>
        /\ UNCHANGED ret /\ pc = "await_started" /\ pc' \in {"direct", "drive", "close"}
    BY <1>0, <1>4 DEF AcknowledgeEndpoint
  <2> QED
    BY <1>0, <1>4, <2>1, MarkRecord DEF Kept, Working, Ending, Opening, Borrowing
<1>5. ASSUME Drive PROVE QuietInv'
  <2>1. /\ UNCHANGED <<usb, iface, worker, lease, usbFile, rec, d5, ret>>
        /\ pc = "drive" /\ pc' \in {"send", "drive_error"}
    BY <1>0, <1>5 DEF Drive, BeginD, OwnerEnds
  <2> QED
    BY <1>0, <1>5, <2>1, MineKept
<1>6. ASSUME DriveError PROVE QuietInv'
  <2>1. /\ UNCHANGED <<usb, iface, worker, lease, usbFile, rec, d5, ret>>
        /\ pc = "drive_error" /\ pc' \in {"send", "close"}
    BY <1>0, <1>6 DEF DriveError, BeginD
  <2> QED
    BY <1>0, <1>6, <2>1, MineKept
<1>7. ASSUME AbortRoom PROVE QuietInv'
  <2>1. UNCHANGED <<usb, iface, worker, lease, usbFile, att, d5>> /\ UNCHANGED ret /\ pc = "abort_room"
    BY <1>0, <1>7 DEF AbortRoom
  <2> QED
    BY <1>0, <1>7, <2>1, AbortRecord
<1>8. ASSUME BeginCleanupD1 PROVE QuietInv'
  <2>1. /\ UNCHANGED <<usb, iface, worker, lease, usbFile, rec, d5, ret>>
        /\ pc = "d1" /\ pc' \in {"d5", "unclean"}
    BY <1>0, <1>8 DEF BeginCleanupD1, BeginD
  <2> QED
    BY <1>0, <1>8, <2>1, MineKept
<1>9. ASSUME AcknowledgeD5 PROVE QuietInv'
  <2>1. /\ UNCHANGED <<usb, iface, worker, lease, usbFile, rec, d5, ret>>
        /\ pc = "ack" /\ pc' \in {"d6", "unclean"}
    BY <1>0, <1>9 DEF AcknowledgeD5
  <2> QED
    BY <1>0, <1>9, <2>1, MineAcknowledged
<1>10. ASSUME CheckBarrier PROVE QuietInv'
  <2>1. /\ UNCHANGED <<usb, iface, worker, lease, usbFile, att, d5>>
        /\ UNCHANGED ret /\ pc = "d7" /\ pc' \in {"d8", "unclean"}
    BY <1>0, <1>10 DEF CheckBarrier
  <2> QED
    BY <1>0, <1>10, <2>1, CheckRecord DEF Kept
<1>11. ASSUME ProbeRelease PROVE QuietInv'
  <2>1. UNCHANGED <<usb, iface, worker, lease, usbFile, att, d5>> /\ pc = "d8"
    BY <1>0, <1>11 DEF ProbeRelease
  <2>2. pc' = "done" \/ (pc' = "release" /\ iface = "down")
    BY <1>11 DEF ProbeRelease, ReleaseFails, RadioQuiet, RadioDown
  <2> QED
    BY <1>0, <1>11, <2>1, <2>2, FailRecord
<1>12. ASSUME Release PROVE QuietInv'
  <2>0. ret \in {"abort", "d10", "recover"} /\ pc = "release"
    BY <1>0, <1>12 DEF Release
  <2>1. CASE (NothingToReturn \/ PriorStateSeen) /\ ReleaseDone
    <3>1. UNCHANGED <<usb, iface, worker, prior, replugs, kind, controlVars, d5, session, authority,
                      relayVars>>
      BY <1>12 DEF Release
    <3> QED
      BY <1>0, <2>0, <2>1, <3>1, DoneRelease DEF NothingToReturn, PriorStateSeen, AdapterIs, InWsl,
          RadioDown
  <2>2. CASE ReleaseFailed /\ UNCHANGED <<usbFile, lease>>
    BY <1>0, <1>12, <2>0, <2>2, FailedRelease DEF Release
  <2>3. CASE MayDetach /\ pc' = "detach" /\ UNCHANGED <<usbFile, lease, rec, released>>
    BY <1>0, <1>12, <2>3 DEF Release, MayDetach, AdapterIs, RadioDown
  <2> QED
    BY <1>12, <2>1, <2>2, <2>3 DEF Release
<1>13. ASSUME Detach PROVE QuietInv'
  <2>0. ret \in {"abort", "d10", "recover"} /\ pc = "detach"
    BY <1>0, <1>13 DEF Detach
  <2>1. CASE ReleaseFailed
    BY <1>0, <1>13, <2>0, <2>1, FailedRelease DEF Detach
  <2>2. CASE UNCHANGED <<rec, released>> /\ pc' = "returned"
    BY <1>0, <1>13, <2>2 DEF Detach
  <2> QED
    BY <1>13, <2>1, <2>2 DEF Detach
<1>14. ASSUME Returned PROVE QuietInv'
  <2>0. ret \in {"abort", "d10", "recover"} /\ pc = "returned"
    BY <1>0, <1>14 DEF Returned
  <2>1. CASE PriorStateSeen /\ ReleaseDone
    <3>1. UNCHANGED <<usb, iface, worker, prior, replugs, kind, controlVars, d5, session, authority,
                      relayVars>>
      BY <1>14 DEF Returned
    <3> QED
      BY <1>0, <2>0, <2>1, <3>1, DoneRelease DEF NothingToReturn, PriorStateSeen, AdapterIs, InWsl,
          RadioDown
  <2>2. CASE ReleaseFailed /\ UNCHANGED <<usbFile, lease>>
    BY <1>0, <1>14, <2>0, <2>2, FailedRelease DEF Returned
  <2> QED
    BY <1>14, <2>1, <2>2 DEF Returned
<1>15. ASSUME Boot PROVE QuietInv'
  <2>1. /\ UNCHANGED <<usb, iface, worker, lease, usbFile, att, d5>>
        /\ UNCHANGED ret /\ pc = "down" /\ pc' \in Resuming \cup {"r_identify"}
    BY <1>0, <1>15 DEF Boot
  <2> QED
    BY <1>0, <1>15, <2>1, BootFields
<1>16. ASSUME RecoverIntent PROVE QuietInv'
  <2>1. /\ UNCHANGED <<usb, iface, worker, lease, usbFile, rec, d5, ret>>
        /\ pc = "r_intent" /\ pc' \in {"r_finish", "r_identify", "done"}
    BY <1>0, <1>16 DEF RecoverIntent, AfterRoom
  <2> QED
    BY <1>0, <1>16, <2>1, MineKept
<1>17. ASSUME RecoverCompletes PROVE QuietInv'
  <2>1. /\ UNCHANGED <<usb, iface, worker, lease, usbFile, att, d5>>
        /\ UNCHANGED ret /\ pc \in {"r_done", "r_failed"} /\ pc' \in {"r_finish", "done"}
    BY <1>0, <1>17 DEF RecoverCompletes
  <2> QED
    BY <1>0, <1>17, <2>1, CompleteRecord
<1>18. ASSUME UserCancels PROVE QuietInv'  BY <1>0, <1>18 DEF UserCancels, MayCancel
<1>19. ASSUME EnterSession PROVE QuietInv'  BY <1>0, <1>19 DEF EnterSession
<1>20. ASSUME ConfirmPairing PROVE QuietInv'  BY <1>0, <1>20 DEF ConfirmPairing, PairingFails, LetGo
<1>21. ASSUME Start PROVE QuietInv'  BY <1>0, <1>21 DEF Start, NewRecord
<1>22. ASSUME PassiveCheck PROVE QuietInv'  BY <1>0, <1>22 DEF PassiveCheck
<1>23. ASSUME EnterRoom PROVE QuietInv'  BY <1>0, <1>23 DEF EnterRoom
<1>24. ASSUME SaveCredential PROVE QuietInv'  BY <1>0, <1>24 DEF SaveCredential
<1>25. ASSUME Pair PROVE QuietInv'  BY <1>0, <1>25 DEF Pair
<1>26. ASSUME CreateLease PROVE QuietInv'  BY <1>0, <1>26 DEF CreateLease
<1>27. ASSUME WriteIntent PROVE QuietInv'  BY <1>0, <1>27 DEF WriteIntent, PersistIntent, AdapterIs
<1>28. ASSUME Attach PROVE QuietInv'  BY <1>0, <1>28 DEF Attach, AttachCommand
<1>29. ASSUME Enumerated PROVE QuietInv'  BY <1>0, <1>29 DEF Enumerated, Activate, AdapterIs, InWsl
<1>30. ASSUME Spawn PROVE QuietInv'  BY <1>0, <1>30 DEF Spawn
<1>31. ASSUME AwaitReady PROVE QuietInv'  BY <1>0, <1>31 DEF AwaitReady, Sees
<1>32. ASSUME AcquireWrapper PROVE QuietInv'  BY <1>0, <1>32 DEF AcquireWrapper
<1>33. ASSUME MarkP0Ready PROVE QuietInv'  BY <1>0, <1>33 DEF MarkP0Ready
<1>34. ASSUME SendReady PROVE QuietInv'  BY <1>0, <1>34 DEF SendReady
<1>35. ASSUME Launch PROVE QuietInv'  BY <1>0, <1>35 DEF Launch
<1>36. ASSUME DirectStage PROVE QuietInv'  BY <1>0, <1>36 DEF DirectStage, Sees
<1>37. ASSUME SendIntent PROVE QuietInv'  BY <1>0, <1>37 DEF SendIntent
<1>38. ASSUME AwaitDone PROVE QuietInv'  BY <1>0, <1>38 DEF AwaitDone, Mapped
<1>39. ASSUME CloseRun PROVE QuietInv'  BY <1>0, <1>39 DEF CloseRun
<1>40. ASSUME Stop PROVE QuietInv'  BY <1>0, <1>40 DEF Stop
<1>41. ASSUME Unclean PROVE QuietInv'  BY <1>0, <1>41 DEF Unclean
<1>42. ASSUME AbortCheck PROVE QuietInv'
  BY <1>0, <1>42 DEF AbortCheck, Quiesced, D8D9, LaunchAbsent, InWsl
<1>43. ASSUME Forget PROVE QuietInv'  BY <1>0, <1>43 DEF Forget
<1>44. ASSUME MeasureD5 PROVE QuietInv'
  BY <1>0, <1>44 DEF MeasureD5, Agreed, AuthorityOutcome, ReportIs, Measured, ProcessGone,
    InterfacesAbsent, RadioDown
<1>45. ASSUME AwaitBarrier PROVE QuietInv'  BY <1>0, <1>45 DEF AwaitBarrier
<1>46. ASSUME CompleteD11 PROVE QuietInv'  BY <1>0, <1>46 DEF CompleteD11
<1>47. ASSUME ReportD11 PROVE QuietInv'  BY <1>0, <1>47 DEF ReportD11
<1>48. ASSUME FinalizeRoom PROVE QuietInv'  BY <1>0, <1>48 DEF FinalizeRoom, LetGo, KeepsRoom
<1>49. ASSUME ResumeRoom PROVE QuietInv'  BY <1>0, <1>49 DEF ResumeRoom, AfterRoom, Verified
<1>50. ASSUME RecoverProcess PROVE QuietInv'  BY <1>0, <1>50 DEF RecoverProcess, KnownProcess
<1>51. ASSUME RecoverRadio PROVE QuietInv'  BY <1>0, <1>51 DEF RecoverRadio, Quiesced, KnownNetdev
<1>52. ASSUME RecoverVerify PROVE QuietInv'  BY <1>0, <1>52 DEF RecoverVerify, D8D9, LaunchAbsent, InWsl
<1>53. ASSUME RecoverUsb PROVE QuietInv'  BY <1>0, <1>53 DEF RecoverUsb, LeaseFromRecovery
<1>54. ASSUME RecoverFinish PROVE QuietInv'
  BY <1>0, <1>54 DEF RecoverFinish, HarnessFinishes, ServiceFinishes, LetGo
<1>55. ASSUME Dies PROVE QuietInv'  BY <1>0, <1>55 DEF Dies, Forgotten, NoFlags, Nothing
<1>56. CASE UNCHANGED vars  BY <1>0, <1>56
<1> QED
  BY <1>0, <1>1, <1>2, <1>3, <1>4, <1>5, <1>6, <1>7, <1>8, <1>9, <1>10, <1>11, <1>12, <1>13, <1>14,
    <1>15, <1>16, <1>17, <1>18, <1>19, <1>20, <1>21, <1>22, <1>23, <1>24, <1>25, <1>26, <1>27, <1>28,
    <1>29, <1>30, <1>31, <1>32, <1>33, <1>34, <1>35, <1>36, <1>37, <1>38, <1>39, <1>40, <1>41, <1>42,
    <1>43, <1>44, <1>45, <1>46, <1>47, <1>48, <1>49, <1>50, <1>51, <1>52, <1>53, <1>54, <1>55, <1>56
    DEF Next, Executor, Closes, Recovers

-----------------------------------------------------------------------------
(* The whole invariant.                                                     *)

LEMMA Beginning == Init => IInv
<1>0. SUFFICES ASSUME Init PROVE IInv
  OBVIOUS
<1>1. RecordShape
  BY <1>0 DEF Init, NewRecord, RecordShape, Records, Codes
<1>2. FlagShape /\ MeaningShape /\ AttemptShape
  BY <1>0, NothingTyped DEF Init, NoFlags, FlagShape, FlagSet, MeaningShape, AttemptShape, Attempts
<1>3. PlainShape
  <2>1. boots \in 0..MaxBoots
    BY <1>0, ConnectionAssumption DEF Init
  <2>2. kind \in {"direct", "harness", "production"}
    BY <1>0, ConnectionAssumption DEF Init
  <2> QED
    BY <1>0, <2>1, <2>2 DEF Init, PlainShape
<1>4. HostTypeOK
  <2>1. NoFile \in [exists : BOOLEAN, prior : BOOLEAN, intent : BOOLEAN]
    BY DEF NoFile
  <2>2. NoLease \in [held : BOOLEAN, acquired : BOOLEAN, active : BOOLEAN]
    BY DEF NoLease
  <2> QED
    <3>1. replugs \in 0..MaxReplugs
      BY <1>0, ConnectionAssumption DEF Init, HostInit
    <3> QED
      BY <1>0, <2>1, <2>2, <3>1 DEF Init, HostInit, HostTypeOK
<1> USE <1>0, <1>3 DEF Init, HostInit, NewRecord, Nothing, NoFlags, NoFile, NoLease, Opening, Borrowing,
        Working, Ending, Before, Aborting, Closings, Releasing, Settling, Over, Resuming, Returning
<1>5. PlaceInv
  BY DEF PlaceInv, PlainShape
<1>6. OutcomeInv
  BY DEF OutcomeInv
<1>7. VerdictInv /\ CredentialInv
  BY DEF VerdictInv, CredentialInv, Verified, RecoverableSession, PlainShape
<1>8. BorrowInv
  BY DEF BorrowInv, Held
<1>9. WorkerInv /\ QuietInv
  BY DEF WorkerInv, QuietInv, Launched, Alive, Ours, Held
<1> QED
  BY <1>1, <1>2, <1>3, <1>4, <1>5, <1>6, <1>7, <1>8, <1>9 DEF IInv, TypeInv

LEMMA Induction == IInv /\ [Next]_vars => IInv'
BY RecordSteps, FlagSteps, MeaningSteps, AttemptSteps, PlainSteps, HostSteps, PlaceSteps, OutcomeSteps,
   VerdictSteps, CredentialSteps, BorrowSteps, WorkerSteps, QuietSteps DEF IInv, TypeInv

(* The invariant of a run, its peer and its recoveries: the adapter is out of the
   machine's hands only while the recovery file says so, the process the record names is
   the only one that can be alive, and a verdict is never given before both are settled. *)
THEOREM RunInvariance == Spec => []IInv
<1>1. Init => IInv
  BY Beginning
<1>2. IInv /\ [Next]_vars => IInv'
  BY Induction
<1> QED
  BY <1>1, <1>2, PTL DEF Spec

(* A run that records "passed" ended an attempt the authority completed, and the harness
   keeps the session file its recover command needs: RecordIsConsistent (close_run, _begin_d,
   _strict_session). *)
THEOREM RunRecordConsistent == Spec => []RecordIsConsistent
<1>1. IInv => RecordIsConsistent
  <2>0. SUFFICES ASSUME IInv PROVE RecordIsConsistent
    OBVIOUS
  <2>1. ConnTypeOK
    BY <2>0 DEF IInv, TypeInv, RecordShape, Records, AttemptShape, Attempts, PlainShape, ConnTypeOK
  <2>2. PassedMeansCompleted
    BY <2>0 DEF IInv, OutcomeInv, PassedMeansCompleted
  <2>3. RecoverableSession
    BY <2>0 DEF IInv, VerdictInv
  <2> QED
    BY <2>1, <2>2, <2>3 DEF RecordIsConsistent
<1> QED
  BY <1>1, RunInvariance, PTL

(* The evidence behind a clean acknowledgement stays true after it was measured, sent and
   acknowledged, whatever dies or is unplugged: CleanAckMeansQuiet (MeasuredD5Control). *)
THEOREM CleanAckStaysQuiet == Spec => []CleanAckMeansQuiet
<1>1. IInv => CleanAckMeansQuiet
  BY DEF IInv, QuietInv, CleanAckMeansQuiet
<1> QED
  BY <1>1, RunInvariance, PTL

-----------------------------------------------------------------------------
(* What a step never does.                                                  *)

(* Only three commands verify a cleanup: abort, D11 and recover.             *)
LEMMA VerdictGiven ==
  ASSUME RecordShape, PlainShape, PlaceInv, [Next]_vars, ~Verified, Verified'
  PROVE  AbortRoom \/ CompleteD11 \/ (RecoverCompletes /\ pc = "r_done")
<1> USE DEF Verified
<1>1. ASSUME UNCHANGED rec PROVE FALSE
  BY <1>1
<1>2. ASSUME Start PROVE FALSE
  BY <1>2, StartRecord
<1>3. ASSUME Bind PROVE FALSE
  BY <1>3, BindRecord DEF Kept
<1>4. ASSUME AcquireWrapper PROVE FALSE
  BY <1>4, WrapperRecord
<1>5. ASSUME MarkP0Ready \/ LockAttempt \/ AcknowledgeEndpoint PROVE FALSE
  BY <1>5, MarkRecord DEF Kept
<1>6. ASSUME CloseRun PROVE FALSE
  BY <1>6, CloseRecord
<1>7. ASSUME AbortCheck \/ CheckBarrier PROVE FALSE
  BY <1>7, CheckRecord DEF Kept
<1>8. ASSUME Unclean \/ ProbeRelease PROVE FALSE
  BY <1>8, FailRecord
<1>9. ASSUME Release \/ Detach \/ Returned PROVE FALSE
  <2>1. ret \in {"abort", "d10", "recover"}
    BY <1>9 DEF Release, Detach, Returned, PlaceInv, Releasing, PlainShape
  <2>2. rec' = rec \/ ReleaseFailed
    BY <1>9 DEF Release, Detach, Returned, ReleaseDone
  <2> QED
    BY <2>1, <2>2, FailedRelease
<1>10. ASSUME Boot PROVE FALSE
  BY <1>10, BootFields
<1>11. ASSUME RecoverCompletes, pc # "r_done" PROVE FALSE
  BY <1>11, CompleteRecord DEF RecoverCompletes, Body
<1>12. ASSUME Environment \/ UserCancels \/ Dies PROVE UNCHANGED rec
  BY <1>12, EnvironmentKeeps DEF UserCancels, Dies, runVars
<1> USE DEF Body, BodyFails, KeepHost, KeepRelay
<1>13. ASSUME \/ EnterSession \/ ConfirmPairing \/ PassiveCheck \/ EnterRoom \/ SaveCredential \/ Pair
              \/ CreateLease \/ WriteIntent \/ Attach \/ Enumerated \/ Spawn \/ AwaitReady
              \/ SendReady \/ Launch \/ DirectStage
       PROVE UNCHANGED rec
  BY <1>13 DEF EnterSession, ConfirmPairing, PassiveCheck, EnterRoom, SaveCredential, Pair, CreateLease,
     WriteIntent, Attach, Enumerated, Spawn, AwaitReady, SendReady, Launch, DirectStage
<1>14. ASSUME Drive \/ DriveError \/ SendIntent \/ AwaitDone \/ Stop \/ Forget PROVE UNCHANGED rec
  BY <1>14 DEF Drive, DriveError, SendIntent, AwaitDone, Stop, Forget
<1>15. ASSUME BeginCleanupD1 \/ MeasureD5 \/ AcknowledgeD5 \/ AwaitBarrier \/ ReportD11 \/ FinalizeRoom
       PROVE UNCHANGED rec
  BY <1>15 DEF BeginCleanupD1, MeasureD5, AcknowledgeD5, AwaitBarrier, ReportD11, FinalizeRoom
<1>16. ASSUME \/ ResumeRoom \/ RecoverIntent \/ RecoverProcess \/ RecoverRadio \/ RecoverVerify \/ RecoverUsb
              \/ RecoverFinish
       PROVE UNCHANGED rec
  BY <1>16 DEF ResumeRoom, RecoverIntent, RecoverProcess, RecoverRadio, RecoverVerify, RecoverUsb,
     RecoverFinish
<1>17. ASSUME UNCHANGED vars PROVE UNCHANGED rec
  BY <1>17 DEF vars, runVars
<1> QED
  BY <1>1, <1>2, <1>3, <1>4, <1>5, <1>6, <1>7, <1>8, <1>9, <1>10, <1>11, <1>12, <1>13, <1>14, <1>15,
      <1>16,
     <1>17 DEF Next, Executor, Closes, Recovers

(* When a cleanup is verified the adapter is back, no endpoint lives and the recovery file
   is gone; and the detach command is only ever given for an adapter the run attached:
   AdapterIsReturned (UsbLease.release, from_recovery, complete_cleanup, recover). *)
THEOREM AdapterReturned == Spec => AdapterIsReturned
<1> DEFINE Settled == /\ worker \notin {"launched", "endpoint", "failing"}
                      /\ ~usbFile.exists
                      /\ replugs = 0 => (usb = "attached" <=> prior)
                      /\ rec.wrapper \/ ret # "recover" => iface = "down" \/ usb = "detached"
           Owned == ~prior /\ (rec.wrapper \/ ret # "recover" => iface = "down")
<1>1. IInv /\ [Next]_vars => (~Verified /\ Verified' => Settled)
  <2>0. SUFFICES ASSUME IInv, [Next]_vars, ~Verified, Verified' PROVE Settled
    OBVIOUS
  <2>1. replugs = 0 /\ ~usbFile.exists => (usb = "attached" <=> prior)
    BY <2>0 DEF IInv, TypeInv, HostTypeOK, BorrowInv
  <2>2. CASE AbortRoom
    <3>1. pc = "abort_room" /\ ret = "abort" /\ ~lease.held
      BY <2>0, <2>2, AbortRecord DEF AbortRoom, Body, IInv, TypeInv, PlaceInv, Verified
    <3>2. ~usbFile.exists
      BY <2>0, <3>1 DEF IInv, BorrowInv, Aborting
    <3>3. ~Alive /\ Quiet
      BY <2>0, <3>1 DEF IInv, WorkerInv, QuietInv, Aborting, Ours
    <3> QED
      BY <2>1, <3>2, <3>3 DEF Alive, Quiet
  <2>3. CASE CompleteD11
    <3>1. pc = "d11" /\ ret = "d10"
      BY <2>0, <2>3 DEF CompleteD11, Body, IInv, PlaceInv
    <3>2. ~usbFile.exists
      BY <2>0, <3>1 DEF IInv, BorrowInv
    <3>3. ~Alive /\ Quiet
      BY <2>0, <3>1 DEF IInv, WorkerInv, QuietInv, Ours
    <3> QED
      BY <2>1, <3>2, <3>3 DEF Alive, Quiet
  <2>4. CASE RecoverCompletes /\ pc = "r_done"
    <3>1. ~usbFile.exists
      BY <2>0, <2>4 DEF IInv, BorrowInv
    <3>2. Ours => ~Alive /\ Quiet
      BY <2>0, <2>4 DEF IInv, WorkerInv, QuietInv, Returning
    <3>3. Launched => rec.wrapper
      BY <2>0 DEF IInv, WorkerInv
    <3> QED
      BY <2>1, <3>1, <3>2, <3>3 DEF Alive, Quiet, Ours, Launched
  <2> QED
    BY <2>0, <2>2, <2>3, <2>4, VerdictGiven DEF IInv, TypeInv
<1>2. IInv /\ pc = "detach" => Owned
  <2>1. IInv /\ pc = "detach" => lease.acquired /\ ~prior
    BY DEF IInv, BorrowInv
  <2>2. IInv /\ pc = "detach" => (Ours => iface = "down")
    BY DEF IInv, QuietInv
  <2> QED
    BY <2>1, <2>2 DEF Ours
<1>3. IInv /\ [Next]_vars => [~Verified /\ Verified' => Settled]_vars
  BY <1>1
<1>4. IInv => [pc = "detach" /\ usb = "attached" /\ usb' = "detached" /\ pc' # pc => Owned]_vars
  BY <1>2
<1> QED
  BY <1>3, <1>4, RunInvariance, PTL DEF Spec, AdapterIsReturned, VerifiedMeansReturned, DetachIsOwned

(* The last copy of the credential is deleted only by a step after which the relay no longer
   counts this member: CredentialKeptWhileMember (abort, finalize_abort, release_authority). *)
THEOREM CredentialKept == Spec => CredentialKeptWhileMember
<1> DEFINE Told == (session \/ authority) /\ ~(session' \/ authority') => room' = "out"
<1>1. IInv /\ [Next]_vars => Told
  <2>0. SUFFICES ASSUME IInv, [Next]_vars PROVE Told
    OBVIOUS
  <2>1. PlainShape /\ CredentialInv /\ PlaceInv
    BY <2>0 DEF IInv, TypeInv
  <2>2. ASSUME UNCHANGED <<session, authority>> PROVE Told
    BY <2>2
  <2>3. ASSUME SaveCredential PROVE Told
    BY <2>3 DEF SaveCredential
  <2>4. ASSUME EnterSession PROVE Told
    BY <2>1, <2>4 DEF EnterSession, Body, CredentialInv, PlaceInv
  <2>5. ASSUME ConfirmPairing PROVE Told
    BY <2>5 DEF ConfirmPairing, PairingFails, LetGo
  <2>6. ASSUME AbortRoom PROVE Told
    BY <2>6 DEF AbortRoom, LetGo
  <2>7. ASSUME Forget PROVE Told
    BY <2>1, <2>7 DEF Forget, Body, CredentialInv, relayVars
  <2>8. ASSUME FinalizeRoom PROVE Told
    BY <2>8 DEF FinalizeRoom, LetGo
  <2>9. ASSUME RecoverFinish PROVE Told
    BY <2>9 DEF RecoverFinish, HarnessFinishes, ServiceFinishes, LetGo
  <2> USE DEF Body, BodyFails, KeepHost, KeepRelay
  <2>10. ASSUME Environment \/ UserCancels \/ Dies PROVE UNCHANGED <<session, authority>>
    BY <2>10, EnvironmentKeeps DEF UserCancels, Dies, fileVars
  <2>11. ASSUME \/ Start \/ PassiveCheck \/ EnterRoom \/ Pair \/ Bind \/ CreateLease \/ WriteIntent
                \/ Attach \/ Enumerated \/ Spawn \/ AwaitReady \/ AcquireWrapper
         PROVE UNCHANGED <<session, authority>>
    BY <2>11 DEF Start, PassiveCheck, EnterRoom, Pair, Bind, CreateLease, WriteIntent, Attach,
        Enumerated,
       Spawn, AwaitReady, AcquireWrapper
  <2>12. ASSUME \/ MarkP0Ready \/ SendReady \/ LockAttempt \/ Launch \/ AcknowledgeEndpoint \/ DirectStage
                \/ Drive \/ DriveError \/ SendIntent \/ AwaitDone \/ CloseRun \/ Stop \/ Unclean \/ AbortCheck
         PROVE UNCHANGED <<session, authority>>
    BY <2>12 DEF MarkP0Ready, SendReady, LockAttempt, Launch, AcknowledgeEndpoint, DirectStage, Drive,
       DriveError, SendIntent, AwaitDone, CloseRun, Stop, Unclean, AbortCheck, fileVars
  <2>13. ASSUME \/ BeginCleanupD1 \/ MeasureD5 \/ AcknowledgeD5 \/ AwaitBarrier \/ CheckBarrier
                \/ ProbeRelease \/ CompleteD11 \/ ReportD11 \/ Release \/ Detach \/ Returned
         PROVE UNCHANGED <<session, authority>>
    BY <2>13 DEF BeginCleanupD1, MeasureD5, AcknowledgeD5, AwaitBarrier, CheckBarrier, ProbeRelease,
       CompleteD11, ReportD11, Release, Detach, Returned
  <2>14. ASSUME \/ Boot \/ ResumeRoom \/ RecoverIntent \/ RecoverProcess \/ RecoverRadio \/ RecoverVerify
                \/ RecoverUsb \/ RecoverCompletes
         PROVE UNCHANGED <<session, authority>>
    BY <2>14 DEF Boot, ResumeRoom, RecoverIntent, RecoverProcess, RecoverRadio, RecoverVerify,
        RecoverUsb,
       RecoverCompletes, fileVars
  <2>15. ASSUME UNCHANGED vars PROVE UNCHANGED <<session, authority>>
    BY <2>15 DEF vars, fileVars
  <2> QED
    BY <2>0, <2>2, <2>3, <2>4, <2>5, <2>6, <2>7, <2>8, <2>9, <2>10, <2>11, <2>12, <2>13, <2>14, <2>15
       DEF Next, Executor, Closes, Recovers
<1>2. IInv /\ [Next]_vars => [(session \/ authority) /\ ~(session' \/ authority') => room' = "out"]_vars
  BY <1>1
<1> QED
  BY <1>2, RunInvariance, PTL DEF Spec, CredentialKeptWhileMember
=============================================================================
