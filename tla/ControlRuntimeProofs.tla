-------------------------- MODULE ControlRuntimeProofs --------------------------
(***************************************************************************)
(* The control service, proved for every set of threads, requests and faults. *)
(*                                                                         *)
(* First its adapter by itself: one the program attached is on record, and one *)
(* it did not attach is left alone.  Neither is inductive.  The step that gives  *)
(* the adapter away and the step that takes it are several steps after the one     *)
(* that looked, so a thread inside the routines must be alone there, and what it     *)
(* found recorded must still be recorded.                                              *)
(*                                                                         *)
(* Then the requests over it: a stop is final, and the credentials of a room that is     *)
(* over go after its endpoint.  A stop finds only the endpoint that is known to it, so     *)
(* that there is no other has to be known; and what a launch that it overtook has            *)
(* started or attached is ended by that launch.                                               *)
(***************************************************************************)
EXTENDS TLAPS, ControlRuntime

\* A thread inside a routine holds hardware_lock.
LockIsHeld == \A t \in Threads : step[t] \in Locked => hardwareLock = t

\* From the record to usbipd's answer, and from the release's first look to its end, the
\* adapter is on record.
RecordedWhileUsed ==
    \A t \in Threads : step[t] \in {"issue", "quiesce", "detach", "absent"} => owned

\* What is attached and on record, this program attached.
RecordMeansOurs == attached /\ owned => ours

OursIsAttached == ours => attached

\* A release does not attach.
OnlyAttachAttaches ==
    \A t \in Threads : step[t] \in {"inspect", "issue", "enumerate"} => routine[t] # "release"

HardwareInv ==
    /\ HardwareTypeOK
    /\ LockIsHeld
    /\ RecordedWhileUsed
    /\ AdapterIsRecorded
    /\ RecordMeansOurs
    /\ OursIsAttached
    /\ OnlyAttachAttaches

\* It holds when the service starts with nothing recorded.
LEMMA HardwareStarts == HardwareInit => HardwareInv
BY DEF HardwareInit, HardwareInv, HardwareTypeOK, LockIsHeld, RecordedWhileUsed, AdapterIsRecorded,
       RecordMeansOurs, OursIsAttached, OnlyAttachAttaches, Locked, Resting, Routines

\* One thread inside the routines is the only one.
LEMMA OneInside ==
    ASSUME HardwareInv, NEW t \in Threads, NEW u \in Threads,
           step[t] \in Locked, step[u] \in Locked
    PROVE  u = t
BY DEF HardwareInv, LockIsHeld

\* While the lock is free nobody is inside.
LEMMA NobodyInside ==
    ASSUME HardwareInv, hardwareLock = NoThread, NEW u \in Threads
    PROVE  step[u] \notin Locked
BY ThreadsAssumption DEF HardwareInv, LockIsHeld

\* Every step of a routine, a lost cable and a crash keep it.
LEMMA HardwareSteps == HardwareInv /\ [HardwareNext]_hardwareVars => HardwareInv'
<1> SUFFICES ASSUME HardwareInv, [HardwareNext]_hardwareVars PROVE HardwareInv'
  OBVIOUS
<1> USE DEF HardwareInv, HardwareTypeOK, LockIsHeld, RecordedWhileUsed, AdapterIsRecorded,
            RecordMeansOurs, OursIsAttached, OnlyAttachAttaches, Locked, Resting, Routines
<1>1. ASSUME NEW t \in Threads, EnterAttach(t) PROVE HardwareInv'
  BY <1>1, NobodyInside, ThreadsAssumption DEF EnterAttach
<1>2. ASSUME NEW t \in Threads, Record(t) PROVE HardwareInv'
  BY <1>2, OneInside DEF Record, Moves
<1>3. ASSUME NEW t \in Threads, Inspect(t) PROVE HardwareInv'
  BY <1>3, OneInside, ThreadsAssumption DEF Inspect, Moves, Leaves
<1>4. ASSUME NEW t \in Threads, Issue(t) PROVE HardwareInv'
  <2>1. owned /\ owned' /\ \A u \in Threads : step[u] \in Locked => u = t
    BY <1>4, OneInside DEF Issue
  <2>2. attached' \in BOOLEAN /\ ours' \in BOOLEAN /\ (ours' <=> attached')
    <3>1. CASE attached' = TRUE /\ ours' = TRUE
      BY <3>1
    <3>2. CASE UNCHANGED <<attached, ours>>
      BY <3>2, <2>1
    <3> QED
      BY <1>4, <3>1, <3>2 DEF Issue
  <2>3. CASE Moves(t, "enumerate") \/ Moves(t, "quiesce")
    BY <1>4, <2>1, <2>2, <2>3 DEF Issue, Moves
  <2>4. CASE Leaves(t, "failed")
    BY <1>4, <2>1, <2>2, <2>4, ThreadsAssumption DEF Issue, Leaves
  <2> QED
    BY <1>4, <2>3, <2>4 DEF Issue, GivesUp
<1>5. ASSUME NEW t \in Threads, Enumerate(t) PROVE HardwareInv'
  BY <1>5, OneInside, ThreadsAssumption DEF Enumerate, LinuxShows, GivesUp, Moves, Leaves
<1>6. ASSUME NEW t \in Threads, EnterRelease(t) PROVE HardwareInv'
  BY <1>6, NobodyInside, ThreadsAssumption DEF EnterRelease
<1>7. ASSUME NEW t \in Threads, Quiesce(t) PROVE HardwareInv'
  BY <1>7, OneInside, ThreadsAssumption DEF Quiesce, Moves, Leaves
<1>8. ASSUME NEW t \in Threads, Detach(t) PROVE HardwareInv'
  BY <1>8, OneInside, ThreadsAssumption DEF Detach, Moves, Leaves
<1>9. ASSUME NEW t \in Threads, Absent(t) PROVE HardwareInv'
  BY <1>9, OneInside, ThreadsAssumption DEF Absent, LinuxShows, Returns, Moves, Leaves
<1>10. ASSUME NEW t \in Threads, Forgets(t) PROVE HardwareInv'
  BY <1>10 DEF Forgets, Moves
<1>11. ASSUME NEW t \in Threads, NEW r \in Routines, Calls(t, r) PROVE HardwareInv'
  BY <1>11 DEF Calls
<1>12. CASE Unplug
  BY <1>12 DEF Unplug
<1>13. CASE HardwareCrash
  BY <1>13, ThreadsAssumption DEF HardwareCrash
<1>14. CASE UNCHANGED hardwareVars
  BY <1>14 DEF hardwareVars
<1> QED
  BY <1>1, <1>2, <1>3, <1>4, <1>5, <1>6, <1>7, <1>8, <1>9, <1>10, <1>11, <1>12, <1>13, <1>14
     DEF HardwareNext, HardwareStep

\* The types, the lock discipline and the agreement of adapter and record hold in every
\* state, through every interleaving of attaches and releases, every failure in them, an
\* unplugged adapter and every crash (hardware_lock, write_hardware_attachment).
THEOREM HardwareInvariant == HardwareSpec => []HardwareInv
BY HardwareStarts, HardwareSteps, PTL DEF HardwareSpec

\* The variables of the adapter keep their types.
THEOREM HardwareTypes == HardwareSpec => []HardwareTypeOK
BY HardwareInvariant, PTL DEF HardwareInv

\* An adapter the program attached is named by the record at every moment
\* (_attach_selected_hardware, release_owned_hardware).
THEOREM AdapterRecorded == HardwareSpec => []AdapterIsRecorded
BY HardwareInvariant, PTL DEF HardwareInv

\* Only a detach of this program or the cable takes an attached adapter from WSL, and the
\* detach finds it on record, so it was ours.
LEMMA OnlyOursIsDetached ==
    ASSUME HardwareInv, [HardwareNext]_hardwareVars
    PROVE  attached /\ ~ours /\ ~attached' => UNCHANGED step
<1> SUFFICES ASSUME attached, ~ours, ~attached' PROVE UNCHANGED step
  OBVIOUS
<1>1. ~owned
  BY DEF HardwareInv, RecordMeansOurs
<1>2. ASSUME NEW t \in Threads, HardwareStep(t) PROVE FALSE
  <2>1. CASE Detach(t)
    BY <2>1, <1>1 DEF Detach, HardwareInv, RecordedWhileUsed
  <2>2. CASE Issue(t)
    BY <2>2, <1>1 DEF Issue, HardwareInv, RecordedWhileUsed
  <2> QED
    BY <1>2, <2>1, <2>2 DEF HardwareStep, EnterAttach, Record, Inspect, Enumerate, EnterRelease,
                            Quiesce, Absent
<1>3. ASSUME NEW t \in Threads, Forgets(t) \/ \E r \in Routines : Calls(t, r) PROVE FALSE
  BY <1>3 DEF Forgets, Calls
<1> QED
  BY <1>2, <1>3 DEF HardwareNext, Unplug, HardwareCrash, hardwareVars

\* An adapter that was attached when the service came to use it stays with WSL.
THEOREM ForeignAdapterLeft == HardwareSpec => ForeignAdapterStays
BY HardwareInvariant, OnlyOursIsDetached, PTL DEF HardwareSpec, ForeignAdapterStays

\* Whose the adapter is, is known at every moment.
THEOREM AdapterOwned == HardwareSpec => AdapterHasItsOwner
BY AdapterRecorded, ForeignAdapterLeft, PTL DEF AdapterHasItsOwner
-----------------------------------------------------------------------------
(* Where a request is.                                                       *)

Requests == {"none", "startup", "connect", "join", "leave", "stop", "poll", "retry", "repair", "publish"}
StopPlaces == {"author stop", "gone stop", "teardown"}
AuthorPlaces == {"author stop", "author none", "author attach", "launch", "launch undo"}
ReleasePlaces == {"ending", "author none", "launch undo", "returning", "starting"}
AttachPlaces == {"attaching", "author attach", "borrowing"}
Places == StopPlaces \cup AuthorPlaces \cup ReleasePlaces \cup AttachPlaces
          \cup {"idle", "ready", "author", "rollback", "gone", "joining", "farewell", "checking", "publishing"}

AtTypeOK == at \in [Threads -> [request : Requests, place : Places, key : Keys \cup {0},
                                phase : Terminal \cup {"none", "active"}, held : BOOLEAN]]

\* Only a connect or a retry launches, and it has read its generation by then.
Shape(t) ==
    /\ at[t].place \in {"attaching", "ready", "rollback"} => at[t].request = "connect"
    /\ at[t].place = "author" => at[t].request \in {"connect", "retry", "poll"}
    /\ at[t].place \in {"launch", "launch undo", "author attach"} => at[t].request \in {"connect", "retry"}
    /\ at[t].place = "publishing" => at[t].phase \in Terminal
    /\ at[t].place = "idle" => at[t].request = "none"
    /\ \/ at[t].request = "none"
       \/ at[t].request = "retry" /\ at[t].place \in {"author", "author stop", "author none"}
       => call[t].generation = "none"

\* The launch or stop a request is in the middle of.
Calling(t) ==
    /\ call[t].phase \in Launching => at[t].place = "launch"
    /\ call[t].phase \in Stopping => at[t].place \in StopPlaces
    /\ at[t].place = "launch" => call[t].phase \in Launching \cup {"started", "refused"}
    /\ at[t].place \in StopPlaces => call[t].phase \in Stopping \cup {"stopped", "unstopped"}
    /\ call[t].phase \in {"wait", "decide", "fail"} =>
           call[t].launch \in Launches /\ process[call[t].launch] # "none"

\* The routine of the adapter a request waits for.
Busy(t) ==
    step[t] \notin Resting =>
        IF routine[t] = "release"
        THEN at[t].place \in ReleasePlaces \/ (at[t].place = "launch" /\ call[t].phase = "releasing")
        ELSE at[t].place \in AttachPlaces

\* The locks a request keeps while it waits.
Holds(t) ==
    /\ at[t].place \in AuthorPlaces => locks["attempt"] = t
    /\ at[t].place \in {"gone stop", "teardown"} => locks["state"] = t

Local(t) == Shape(t) /\ Calling(t) /\ Busy(t) /\ Holds(t)

RequestInv == RuntimeTypeOK /\ AtTypeOK /\ \A t \in Threads : Local(t)

-----------------------------------------------------------------------------
(* The endpoint.                                                             *)

\* Launches are numbered in the order they are made.
InOrder == \E k \in 0..MaxLaunches : \A n \in Launches : process[n] # "none" <=> n <= k

OneAlive == \A m, n \in Launches : Alive(m) /\ Alive(n) => m = n

\* An endpoint that is up is the one the file names, and one on its way there is the process
\* the service has started last.
EndpointIsKnown ==
    \A n \in Launches : /\ Up(n) => file.registered /\ file.launch = n
                        /\ Alive(n) /\ ~Up(n) => popen = n
                        /\ Alive(n) /\ popen = n => session

\* While a launch waits for its endpoint no other runs, and after it has ended it none does.
LaunchIsAlone ==
    \A t \in Threads : \A n \in Launches :
        /\ call[t].phase \in {"wait", "decide", "fail"} /\ Alive(n) => n = call[t].launch
        /\ call[t].phase = "record" => ~Alive(n)

\* A stop that has ended the endpoint keeps another from starting until it is through.
StopIsThrough ==
    \A t \in Threads :
        at[t].place \in StopPlaces /\ call[t].phase \in {"forget", "stopped"} => \A n \in Launches : ~Alive(n)

EndpointInv ==
    /\ InOrder /\ OneAlive
    /\ ~orphan => EndpointIsKnown /\ LaunchIsAlone /\ StopIsThrough

-----------------------------------------------------------------------------
(* After a stop.                                                             *)

\* The launch that has been overtaken ends what it started.
Ended == \A n \in Launches : Alive(n) =>
            \E t \in Threads : call[t].phase \in {"wait", "fail"} /\ call[t].launch = n

\* A request that will yet release the adapter, or tell that it could not.
Releases(t) ==
    \/ step[t] \notin Resting
    \/ step[t] = "ok" /\ at[t].place \in AttachPlaces
    \/ at[t].place = "launch" /\ call[t].phase \in {"enter", "refused"}
    \/ at[t].place = "checking" /\ at[t].held

StoppedInv ==
    stopped => /\ \A t \in Threads : Overtaken(t)
               /\ ~orphan => /\ Ended
                             /\ owned /\ ~leftover => \E t \in Threads : Releases(t)

\* A registered endpoint is one of those that were launched.
FileIsNamed == file.registered => file.launch \in Launches

RuntimeInv == HardwareInv /\ RequestInv /\ EndpointInv /\ FileIsNamed /\ StoppedInv

-----------------------------------------------------------------------------
(* The requests' part of the invariant.                                      *)

FlagsTypeOK == /\ authority \in BOOLEAN /\ seat \in BOOLEAN /\ stopped \in BOOLEAN
               /\ leftover \in BOOLEAN /\ orphan \in BOOLEAN /\ serving \in BOOLEAN
RoomTypeOK == attempt \in Keys \cup {0} /\ outcome \in Terminal \cup {"none", "active"}
CountsTypeOK == served \in 0..MaxRequests /\ faults \in 0..MaxFaults
MemoryTypeOK == FlagsTypeOK /\ RoomTypeOK /\ CountsTypeOK

LocksTypeOK == locks \in [{"state", "launch", "attempt"} -> Threads \cup {NoThread}]

CallTypeOK == call \in [Threads -> [phase : Answers \cup Launching \cup Stopping, launch : 0..MaxLaunches,
                                    generation : {"none", "current", "old"}]]

States == {"none", "launching", "running", "passed", "failed", "completed"}

FileTypeOK == file \in [state : States, launch : 0..MaxLaunches, key : Keys \cup {NoKey}, registered : BOOLEAN]

StoreTypeOK ==
    /\ FileTypeOK
    /\ ack \in 0..MaxLaunches /\ popen \in 0..MaxLaunches /\ session \in BOOLEAN
    /\ process \in [Launches -> {"none", "gate", "gated", "up", "closing", "ended"}]
    /\ keyOf \in [Launches -> Keys \cup {NoKey}]

\* The types of a launch: the locks, the calls, and what is stored.
LEMMA LaunchTypesSplit == LaunchTypeOK <=> LocksTypeOK /\ CallTypeOK /\ StoreTypeOK
BY DEF LaunchTypeOK, LocksTypeOK, CallTypeOK, StoreTypeOK, FileTypeOK, States

\* The types of the service: the adapter, the launch, what is remembered, the requests.
LEMMA TypesSplit ==
    (HardwareTypeOK /\ LaunchTypeOK /\ MemoryTypeOK /\ AtTypeOK) <=> (RuntimeTypeOK /\ AtTypeOK)
BY DEF RuntimeTypeOK, MemoryTypeOK, FlagsTypeOK, RoomTypeOK, CountsTypeOK, AtTypeOK

\* What the assumptions say of the bounds.
LEMMA SmallNumbers ==
    /\ MaxLaunches \in Nat /\ MaxLaunches > 0 /\ MaxRequests \in Nat /\ MaxFaults \in Nat
    /\ Keys \subseteq Nat /\ 0 \notin Keys /\ 1 \in Keys
BY LaunchAssumption, RuntimeAssumption

\* What a thread does leaves the requests of the others where they are; a cancel may only
\* outdate a generation.
Apart(t) ==
    \A u \in Threads \ {t} :
        /\ at'[u] = at[u] /\ step'[u] = step[u] /\ routine'[u] = routine[u]
        /\ call'[u].phase = call[u].phase /\ call'[u].launch = call[u].launch
        /\ call[u].generation # "current" => call'[u].generation = call[u].generation

LocksKept(t) ==
    \A u \in Threads \ {t}, l \in {"state", "launch", "attempt"} : locks[l] = u => locks'[l] = u

StartedKept == \A n \in Launches : process[n] # "none" => process'[n] # "none"

\* What a thread does leaves the other requests in order.
LEMMA OthersKept ==
    ASSUME RequestInv, NEW t \in Threads, Apart(t), LocksKept(t), StartedKept, NEW u \in Threads, u # t
    PROVE  Local(u)'
<1>1. /\ at'[u] = at[u] /\ step'[u] = step[u] /\ routine'[u] = routine[u]
      /\ call'[u].phase = call[u].phase /\ call'[u].launch = call[u].launch
      /\ call[u].generation # "current" => call'[u].generation = call[u].generation
      /\ locks["attempt"] = u => locks'["attempt"] = u
      /\ locks["state"] = u => locks'["state"] = u
      /\ \A n \in Launches : process[n] # "none" => process'[n] # "none"
  BY DEF Apart, LocksKept, StartedKept
<1>2. Local(u) BY DEF RequestInv
<1>3. Shape(u)' BY <1>1, <1>2 DEF Local, Shape
<1>4. Calling(u)' BY <1>1, <1>2 DEF Local, Calling, Launches
<1>5. Busy(u)' BY <1>1, <1>2 DEF Local, Busy
<1>6. Holds(u)' BY <1>1, <1>2 DEF Local, Holds
<1> QED BY <1>3, <1>4, <1>5, <1>6 DEF Local

\* At the start no request is under way, whether or not a session is.
LEMMA RequestsStart == Init => RequestInv
<1> SUFFICES ASSUME Init PROVE RequestInv
  OBVIOUS
<1>0. NoSession \/ InSession BY DEF Init
<1>1. HardwareTypeOK
  <2>1. CASE NoSession BY <2>1 DEF NoSession, HardwareInit, HardwareTypeOK, Resting, Routines
  <2>2. CASE InSession BY <2>2 DEF InSession, HardwareTypeOK, Resting, Routines
  <2> QED BY <1>0, <2>1, <2>2
<1>2. LaunchTypeOK
  <2>1. CASE NoSession
    <3>1. LaunchInit BY <2>1 DEF NoSession
    <3>2. locks \in [{"state", "launch", "attempt"} -> Threads \cup {NoThread}]
      BY <3>1 DEF LaunchInit
    <3>3. call \in [Threads -> [phase : Answers \cup Launching \cup Stopping, launch : 0..MaxLaunches,
                                generation : {"none", "current", "old"}]]
      BY <3>1, SmallNumbers DEF LaunchInit, NoCall, Answers
    <3>4. file \in [state : {"none", "launching", "running", "passed", "failed", "completed"},
                    launch : 0..MaxLaunches, key : Keys \cup {NoKey}, registered : BOOLEAN]
      BY <3>1, SmallNumbers DEF LaunchInit, NoFile, NoKey
    <3>5. ack \in 0..MaxLaunches /\ popen \in 0..MaxLaunches
      BY <3>1, SmallNumbers DEF LaunchInit
    <3>8. session \in BOOLEAN
      BY <3>1 DEF LaunchInit
    <3>6. process \in [Launches -> {"none", "gate", "gated", "up", "closing", "ended"}]
      BY <3>1 DEF LaunchInit
    <3>7. keyOf \in [Launches -> Keys \cup {NoKey}]
      BY <3>1 DEF LaunchInit
    <3> QED BY <3>2, <3>3, <3>4, <3>5, <3>6, <3>7, <3>8 DEF LaunchTypeOK
  <2>2. CASE InSession
    BY <2>2, SmallNumbers DEF InSession, LaunchTypeOK, NoCall, NoKey, Launches, Answers
  <2> QED BY <1>0, <2>1, <2>2
<1>3. MemoryTypeOK
  <2>1. authority = TRUE /\ seat = TRUE /\ stopped = FALSE /\ leftover = FALSE /\ orphan = FALSE
        /\ serving = TRUE /\ served = 0 /\ faults = 0
    BY DEF Init
  <2>2. attempt \in {0, 1} /\ outcome \in {"none", "active"}
    BY <1>0 DEF NoSession, InSession
  <2>3. served \in 0..MaxRequests /\ faults \in 0..MaxFaults /\ attempt \in Keys \cup {0}
        /\ outcome \in Terminal \cup {"none", "active"}
    <3>1. served = 0 /\ faults = 0 BY DEF Init
    <3> QED BY <3>1, <2>2, SmallNumbers
  <2> QED BY <2>1, <2>3 DEF MemoryTypeOK, FlagsTypeOK, RoomTypeOK, CountsTypeOK
<1>4. AtTypeOK
  BY DEF Init, AtTypeOK, NoRequest, Requests, Places
<1>5. ASSUME NEW t \in Threads PROVE Local(t)
  <2>1. at[t].place = "idle" /\ at[t].request = "none" BY DEF Init, NoRequest
  <2>2. step[t] = "idle" /\ call[t].phase = "idle" /\ call[t].generation = "none"
    BY <1>0 DEF NoSession, InSession, HardwareInit, LaunchInit, NoCall
  <2>3. Shape(t) /\ Busy(t) /\ Holds(t)
    BY <2>1, <2>2 DEF Shape, Busy, Holds, Resting, AuthorPlaces
  <2>4. Calling(t)
    BY <2>1, <2>2 DEF Calling, Launching, Stopping, StopPlaces
  <2> QED BY <2>3, <2>4 DEF Local
<1> QED
  BY <1>1, <1>2, <1>3, <1>4, <1>5, TypesSplit DEF RequestInv

-----------------------------------------------------------------------------
(* The adapter's part: what a request does with it, its routines do.            *)

\* A request that calls a routine takes a step of the adapter.
LEMMA CallIsHardware ==
    ASSUME NEW t \in Threads, NEW r, r \in {"attach", "release"}, Calls(t, r) PROVE [HardwareNext]_hardwareVars
BY DEF HardwareNext, Routines

\* So does one that has used the answer of a routine,
LEMMA ForgetIsHardware ==
    ASSUME NEW t \in Threads, Forgets(t) PROVE [HardwareNext]_hardwareVars
BY DEF HardwareNext

\* and one that is answered while no routine of its own runs.
LEMMA AnswerIsHardware ==
    ASSUME HardwareTypeOK, NEW t \in Threads, step[t] \in Resting, Ends(t) \/ Proceeds(t)
    PROVE  [HardwareNext]_hardwareVars
<1>1. step' = [step EXCEPT ![t] = "idle"] /\ UNCHANGED <<attached, ours, owned, hardwareLock, routine>>
  BY DEF Ends, Proceeds
<1>2. CASE step[t] = "idle"
  BY <1>1, <1>2 DEF HardwareTypeOK, hardwareVars
<1>3. CASE step[t] \in {"ok", "failed"}
  BY <1>1, <1>3, ForgetIsHardware DEF Forgets, Moves
<1> QED BY <1>2, <1>3 DEF Resting

\* A request that does not wait for a routine finds its own at rest.
LEMMA RestsElsewhere ==
    ASSUME RequestInv, NEW t \in Threads,
           at[t].place \notin ReleasePlaces \cup AttachPlaces \cup {"launch"}
    PROVE  step[t] \in Resting
BY DEF RequestInv, Local, Busy

\* Inside a launch the adapter is used only to be released.
LEMMA RestsInLaunch ==
    ASSUME RequestInv, NEW t \in Threads, at[t].place = "launch", call[t].phase # "releasing"
    PROVE  step[t] \in Resting
BY DEF RequestInv, Local, Busy, ReleasePlaces, AttachPlaces

\* Every step of the service is a step of its adapter or leaves it alone.
LEMMA RequestsUseHardware == RequestInv /\ [Next \/ Settled]_vars => [HardwareNext]_hardwareVars
<1> SUFFICES ASSUME RequestInv, [Next \/ Settled]_vars PROVE [HardwareNext]_hardwareVars
  OBVIOUS
<1>0. HardwareTypeOK BY DEF RequestInv, RuntimeTypeOK
<1> USE DEF ReleasePlaces, AttachPlaces
<1>1. ASSUME NEW t \in Threads, Request(t) PROVE [HardwareNext]_hardwareVars
  BY <1>1, CallIsHardware DEF Request, Connect, Retry, Poll, Join, Repair, ReadPhase, EndSession, hardwareVars
<1>2. ASSUME NEW t \in Threads, Progress(t) PROVE [HardwareNext]_hardwareVars
  <2>1. CASE ConnectAttached(t)
    BY <2>1, <1>0, AnswerIsHardware, CallIsHardware, ForgetIsHardware
       DEF ConnectAttached, ReleaseAndEnd, Resting
  <2>2. CASE Ready(t) \/ Rollback(t)
    BY <2>2, CallIsHardware DEF Ready, Rollback, ReleaseAndEnd
  <2>3. CASE AuthorTerminal(t) \/ AuthorNothing(t) \/ AuthorRunning(t) \/ AuthorLaunch(t)
    <3>1. step[t] \in Resting
      BY <2>3, RestsElsewhere DEF AuthorTerminal, AuthorNothing, AuthorRunning, AuthorLaunch, Place
    <3>2. Ends(t) \/ Calls(t, "attach") \/ UNCHANGED hardwareVars
      BY <2>3 DEF AuthorTerminal, AuthorNothing, AuthorRunning, AuthorLaunch, ReturnsNone
    <3> QED BY <3>1, <3>2, <1>0, AnswerIsHardware, CallIsHardware
  <2>4. CASE AuthorStopped(t)
    <3>1. step[t] \in Resting
      BY <2>4, RestsElsewhere DEF AuthorStopped, Place
    <3>2. Ends(t) \/ Calls(t, "release") \/ UNCHANGED hardwareVars
      BY <2>4 DEF AuthorStopped, Fails
    <3> QED BY <3>1, <3>2, <1>0, AnswerIsHardware, CallIsHardware
  <2>5. CASE AuthorNone(t) \/ LaunchUndone(t)
    <3>1. step[t] \in Resting
      BY <2>5 DEF AuthorNone, LaunchUndone, Resting
    <3>2. Ends(t) \/ Calls(t, "attach") \/ UNCHANGED hardwareVars
      BY <2>5 DEF AuthorNone, LaunchUndone, ReturnsNone, Fails
    <3> QED BY <3>1, <3>2, <1>0, AnswerIsHardware, CallIsHardware
  <2>6. CASE AuthorAttached(t)
    BY <2>6, <1>0, AnswerIsHardware, ForgetIsHardware DEF AuthorAttached, Resting
  <2>7. CASE Launch(t)
    <3>1. Calls(t, "release") \/ Forgets(t) \/ UNCHANGED hardwareVars
      BY <2>7 DEF Launch, LaunchStep, EnterLaunch, FindRunning, FindLaunched, Start, CannotStart, Wait, Decide,
                  Deadline, Fail, RecordFailure, Released
    <3> QED BY <3>1, CallIsHardware, ForgetIsHardware
  <2>8. CASE Launched(t)
    <3>1. step[t] \in Resting
      BY <2>8, RestsInLaunch DEF Launched, Place, In
    <3>2. Ends(t) \/ Calls(t, "release") \/ UNCHANGED hardwareVars
      BY <2>8 DEF Launched, Fails
    <3> QED BY <3>1, <3>2, <1>0, AnswerIsHardware, CallIsHardware
  <2>9. CASE Gone(t) \/ GoneStopped(t)
    <3>1. step[t] \in Resting
      BY <2>9, RestsElsewhere DEF Gone, GoneStopped, Place
    <3>2. Ends(t) \/ Proceeds(t) \/ Calls(t, "release") \/ UNCHANGED hardwareVars
      BY <2>9 DEF Gone, GoneStopped, ReleaseAndEnd
    <3> QED BY <3>1, <3>2, <1>0, AnswerIsHardware, CallIsHardware
  <2>10. CASE Joined(t) \/ Farewell(t) \/ PublishPhase(t) \/ Checked(t) \/ Teardown(t)
    <3>1. step[t] \in Resting
      BY <2>10, RestsElsewhere DEF Joined, Farewell, PublishPhase, Checked, Teardown, Place
    <3>2. Ends(t) \/ Calls(t, "release") \/ UNCHANGED hardwareVars
      BY <2>10 DEF Joined, Farewell, PublishPhase, Checked, Teardown, ReleaseAndEnd
    <3> QED BY <3>1, <3>2, <1>0, AnswerIsHardware, CallIsHardware
  <2>11. CASE Returned(t) \/ Borrowed(t)
    BY <2>11, <1>0, AnswerIsHardware, ForgetIsHardware DEF Returned, Borrowed, Resting
  <2>12. CASE StartedUp(t) \/ Ending(t)
    BY <2>12, <1>0, AnswerIsHardware DEF StartedUp, Ending, Resting
  <2> QED
    BY <1>2, <2>1, <2>2, <2>3, <2>4, <2>5, <2>6, <2>7, <2>8, <2>9, <2>10, <2>11, <2>12 DEF Progress
<1>3. ASSUME NEW t \in Threads, Hardware(t) \/ Stop(t) PROVE [HardwareNext]_hardwareVars
  BY <1>3 DEF Hardware, Stop, StopStep, Cancel, Terminate, Forget, HardwareNext
<1>4. CASE Endpoint
  BY <1>4 DEF Endpoint, EndpointStep, Gate, Register, Refresh, Finish, Exit
<1>5. CASE RelayEnds \/ SeatLost \/ Settled \/ UNCHANGED vars
  BY <1>5 DEF RelayEnds, SeatLost, Settled, vars
<1>6. CASE Unplugged
  BY <1>6 DEF Unplugged, HardwareNext
<1>7. CASE Crash
  BY <1>7 DEF Crash, LaunchCrash, HardwareNext
<1>8. CASE StartUp
  BY <1>8, CallIsHardware DEF StartUp
<1> QED
  BY <1>1, <1>2, <1>3, <1>4, <1>5, <1>6, <1>7, <1>8 DEF Next

-----------------------------------------------------------------------------
(* What the parts of a request's step do to its place in it.                    *)

\* The types, one by one.
LEMMA TypesKnown ==
    ASSUME RequestInv
    PROVE  HardwareTypeOK /\ LocksTypeOK /\ CallTypeOK /\ StoreTypeOK /\ MemoryTypeOK /\ AtTypeOK
BY TypesSplit, LaunchTypesSplit DEF RequestInv

\* The request of the thread is in a place it may be in, and no other has moved.
Moved(t) == AtTypeOK' /\ CallTypeOK' /\ Local(t)' /\ Apart(t)

\* Variables changed for one thread are unchanged for the others.
LEMMA AloneApart ==
    ASSUME HardwareTypeOK, AtTypeOK, CallTypeOK, NEW t \in Threads,
           NEW a, at' = [at EXCEPT ![t] = a] \/ at' = at,
           NEW c, call' = [call EXCEPT ![t] = c] \/ call' = call,
           NEW s, step' = [step EXCEPT ![t] = s] \/ step' = step,
           NEW r, routine' = [routine EXCEPT ![t] = r] \/ routine' = routine
    PROVE  Apart(t)
<1> SUFFICES ASSUME NEW u \in Threads \ {t}
             PROVE  at'[u] = at[u] /\ step'[u] = step[u] /\ routine'[u] = routine[u] /\ call'[u] = call[u]
  BY DEF Apart
<1>1. at'[u] = at[u] BY DEF AtTypeOK
<1>2. call'[u] = call[u] BY DEF CallTypeOK
<1>3. step'[u] = step[u] BY DEF HardwareTypeOK
<1>4. routine'[u] = routine[u] BY DEF HardwareTypeOK
<1> QED BY <1>1, <1>2, <1>3, <1>4

\* Nothing is expected of a request that has been answered.
LEMMA Answered ==
    ASSUME RequestInv, NEW t \in Threads, Ends(t) \/ Proceeds(t)
    PROVE  Moved(t)
<1>1. HardwareTypeOK /\ CallTypeOK /\ AtTypeOK BY TypesKnown
<1>2. /\ call' = [call EXCEPT ![t] = NoCall] /\ step' = [step EXCEPT ![t] = "idle"]
      /\ routine' = routine
  BY DEF Ends, Proceeds
<1>3. CallTypeOK' /\ call'[t] = NoCall
  BY <1>1, <1>2, SmallNumbers DEF CallTypeOK, NoCall, Answers
<1>4. step'[t] = "idle" BY <1>1, <1>2 DEF HardwareTypeOK
<1>5. CASE at' = [at EXCEPT ![t] = NoRequest]
  <2>1. AtTypeOK' /\ at'[t] = NoRequest BY <1>1, <1>5 DEF AtTypeOK, NoRequest, Requests, Places
  <2>2. Local(t)'
    BY <2>1, <1>3, <1>4 DEF Local, Shape, Calling, Busy, Holds, NoRequest, NoCall, Launching, Stopping,
                            StopPlaces, AuthorPlaces, Resting
  <2> QED BY <2>1, <2>2, <1>1, <1>2, <1>3, <1>5, AloneApart DEF Moved
<1>6. CASE Serves(t, "join") /\ at' = [at EXCEPT ![t] = [at[t] EXCEPT !.place = "joining"]]
  <2>1. AtTypeOK' /\ at'[t].place = "joining" /\ at'[t].request = "join"
    BY <1>1, <1>6 DEF AtTypeOK, Serves, Places
  <2>2. Local(t)'
    BY <2>1, <1>3, <1>4 DEF Local, Shape, Calling, Busy, Holds, NoCall, Launching, Stopping,
                            StopPlaces, AuthorPlaces, Resting
  <2> QED BY <2>1, <2>2, <1>1, <1>2, <1>3, <1>6, AloneApart DEF Moved
<1>7. CASE Ends(t)
  BY <1>7, <1>5 DEF Ends
<1>8. CASE Proceeds(t)
  <2>1. CASE Serves(t, "join") BY <1>8, <2>1, <1>6 DEF Proceeds
  <2>2. CASE ~Serves(t, "join") BY <1>8, <2>2, <1>5 DEF Proceeds
  <2> QED BY <2>1, <2>2
<1> QED BY <1>7, <1>8


-----------------------------------------------------------------------------
(* What a step does to the types of the rest.                                 *)

\* What is known of the room keeps its type.
LEMMA RoomSteps == RequestInv /\ [Next \/ Settled]_vars => RoomTypeOK'
<1> SUFFICES ASSUME RequestInv, [Next \/ Settled]_vars PROVE RoomTypeOK'
  OBVIOUS
<1>0. RoomTypeOK /\ AtTypeOK BY TypesKnown DEF MemoryTypeOK
<1>1. ASSUME NEW t \in Threads, Ready(t) PROVE RoomTypeOK'
  BY <1>0, <1>1 DEF RoomTypeOK, Ready, Room
<1>2. ASSUME NEW t \in Threads, Rollback(t) \/ Farewell(t) PROVE RoomTypeOK'
  BY <1>0, <1>2 DEF RoomTypeOK, Rollback, Farewell, Room, Terminal
<1>3. ASSUME NEW t \in Threads, Joined(t) PROVE RoomTypeOK'
  BY <1>0, <1>3 DEF RoomTypeOK, Joined, Room, SaveAuthority
<1>4. ASSUME NEW t \in Threads, PublishPhase(t) PROVE RoomTypeOK'
  BY <1>0, <1>4 DEF RoomTypeOK, PublishPhase, Room, AtTypeOK
<1>5. CASE RelayEnds
  BY <1>0, <1>5 DEF RoomTypeOK, RelayEnds
<1>6. CASE UNCHANGED <<attempt, outcome>>
  BY <1>0, <1>6 DEF RoomTypeOK
<1>7. ASSUME NEW t \in Threads, Request(t) PROVE UNCHANGED <<attempt, outcome>>
  BY <1>7 DEF Request, Connect, Retry, Poll, Join, Repair, ReadPhase, EndSession, Room
<1>8. ASSUME NEW t \in Threads, Progress(t),
             ~Ready(t), ~Rollback(t), ~Farewell(t), ~Joined(t), ~PublishPhase(t)
      PROVE  UNCHANGED <<attempt, outcome>>
  BY <1>8 DEF Progress, ConnectAttached, AuthorTerminal, AuthorStopped, AuthorNone, AuthorNothing, AuthorRunning,
       AuthorLaunch, AuthorAttached, Launch, Launched, LaunchUndone, Gone, GoneStopped, Teardown, Returned,
       Borrowed, Checked, StartedUp, Ending, Room
<1>9. ASSUME NEW t \in Threads, Hardware(t) \/ Stop(t) PROVE UNCHANGED <<attempt, outcome>>
  BY <1>9 DEF Hardware, Stop, Room
<1>10. Endpoint \/ SeatLost \/ Unplugged \/ Crash \/ StartUp \/ Settled \/ UNCHANGED vars
       => UNCHANGED <<attempt, outcome>>
  BY DEF Endpoint, SeatLost, Unplugged, Crash, StartUp, Settled, vars, Room
<1> QED
  BY <1>1, <1>2, <1>3, <1>4, <1>5, <1>6, <1>7, <1>8, <1>9, <1>10 DEF Next

\* The counters stay within their bounds.
LEMMA CountsSteps == RequestInv /\ [Next \/ Settled]_vars => CountsTypeOK'
<1> SUFFICES ASSUME RequestInv, [Next \/ Settled]_vars PROVE CountsTypeOK'
  OBVIOUS
<1>0. CountsTypeOK BY TypesKnown DEF MemoryTypeOK
<1>1. CASE UNCHANGED <<served, faults>>
  BY <1>0, <1>1 DEF CountsTypeOK
<1>2. CASE served < MaxRequests /\ served' = served + 1 /\ UNCHANGED faults
  BY <1>0, <1>2, SmallNumbers DEF CountsTypeOK
<1>3. CASE faults < MaxFaults /\ faults' = faults + 1 /\ UNCHANGED served
  BY <1>0, <1>3, SmallNumbers DEF CountsTypeOK
<1>4. ASSUME NEW t \in Threads, Request(t)
      PROVE  served < MaxRequests /\ served' = served + 1 /\ UNCHANGED faults
  BY <1>4 DEF Request, Connect, Retry, Poll, Join, Repair, ReadPhase, EndSession, Receives
<1>5. ASSUME NEW t \in Threads, Progress(t) PROVE UNCHANGED <<served, faults>>
  BY <1>5 DEF Progress, ConnectAttached, Ready, Rollback, AuthorTerminal, AuthorStopped, AuthorNone, AuthorNothing,
       AuthorRunning, AuthorLaunch, AuthorAttached, Launch, Launched, LaunchUndone, Gone, GoneStopped, Joined,
       Teardown, Returned, Farewell, Borrowed, Checked, PublishPhase, StartedUp, Ending, Life
<1>6. ASSUME NEW t \in Threads, Hardware(t) \/ Stop(t) PROVE UNCHANGED <<served, faults>>
  BY <1>6 DEF Hardware, Stop, Life
<1>7. Endpoint \/ StartUp \/ Settled \/ UNCHANGED vars => UNCHANGED <<served, faults>>
  BY DEF Endpoint, StartUp, Settled, vars, Life
<1>8. RelayEnds \/ SeatLost \/ Unplugged \/ Crash
      => faults < MaxFaults /\ faults' = faults + 1 /\ UNCHANGED served
  BY DEF RelayEnds, SeatLost, Unplugged, Crash, Fault
<1> QED
  BY <1>1, <1>2, <1>3, <1>4, <1>5, <1>6, <1>7, <1>8 DEF Next

\* The flags stay flags.
LEMMA FlagsSteps == RequestInv /\ [Next \/ Settled]_vars => FlagsTypeOK'
<1> SUFFICES ASSUME RequestInv, [Next \/ Settled]_vars PROVE FlagsTypeOK'
  OBVIOUS
<1>0. FlagsTypeOK BY TypesKnown DEF MemoryTypeOK
<1>1. ASSUME NEW t \in Threads, Request(t) PROVE FlagsTypeOK'
  BY <1>0, <1>1 DEF Request, Connect, Retry, Poll, Join, Repair, ReadPhase, EndSession, Receives, Room, Told,
       FlagsTypeOK
<1>2. ASSUME NEW t \in Threads, Progress(t) PROVE authority' \in BOOLEAN /\ seat' \in BOOLEAN
  BY <1>0, <1>2 DEF Progress, ConnectAttached, Ready, Rollback, AuthorTerminal, AuthorStopped, AuthorNone,
       AuthorNothing, AuthorRunning, AuthorLaunch, AuthorAttached, Launch, Launched, LaunchUndone, Gone,
       GoneStopped, Joined, SaveAuthority, Teardown, Returned, Farewell, Borrowed, Checked, PublishPhase,
       StartedUp, Ending, Room, FlagsTypeOK
<1>3. ASSUME NEW t \in Threads, Progress(t)
      PROVE  stopped' \in BOOLEAN /\ leftover' \in BOOLEAN /\ orphan' \in BOOLEAN /\ serving' \in BOOLEAN
  BY <1>0, <1>3 DEF Progress, ConnectAttached, Ready, Rollback, AuthorTerminal, AuthorStopped, AuthorNone,
       AuthorNothing, AuthorRunning, AuthorLaunch, AuthorAttached, Launch, Launched, LaunchUndone, Gone,
       GoneStopped, Joined, Teardown, Returned, Farewell, Borrowed, Checked, PublishPhase,
       StartedUp, Ending, Told, Life, FlagsTypeOK
<1>4. ASSUME NEW t \in Threads, Hardware(t) PROVE FlagsTypeOK'
  <2>1. leftover' \in BOOLEAN BY <1>4 DEF Hardware
  <2> QED BY <1>0, <1>4, <2>1 DEF Hardware, Life, Room, FlagsTypeOK
<1>5. ASSUME NEW t \in Threads, Stop(t) PROVE FlagsTypeOK'
  BY <1>0, <1>5 DEF Stop, Life, Room, Told, FlagsTypeOK
<1>6. CASE Crash
  <2>1. orphan' \in BOOLEAN BY <1>6 DEF Crash
  <2> QED BY <1>0, <1>6, <2>1 DEF Crash, Room, FlagsTypeOK
<1>7. Endpoint \/ RelayEnds \/ SeatLost \/ Unplugged \/ StartUp \/ Settled \/ UNCHANGED vars => FlagsTypeOK'
  BY <1>0 DEF Endpoint, RelayEnds, SeatLost, Unplugged, StartUp, Settled, vars, Life, Room, Told, Fault, FlagsTypeOK
<1> QED
  BY <1>1, <1>2, <1>3, <1>4, <1>5, <1>6, <1>7 DEF Next, FlagsTypeOK

\* A launch finds a number that is free.
LEMMA NextIsFree ==
    ASSUME InOrder, StoreTypeOK, \E n \in Launches : process[n] = "none"
    PROVE  NextLaunch \in Launches /\ process[NextLaunch] = "none"
           /\ \A m \in Launches : m < NextLaunch <=> process[m] # "none"
<1>1. PICK k \in 0..MaxLaunches : \A n \in Launches : process[n] # "none" <=> n <= k
  BY DEF InOrder
<1>2. PICK e \in Launches : process[e] = "none"
  OBVIOUS
<1>3. k + 1 \in Launches /\ \A m \in Launches : m < k + 1 <=> process[m] # "none"
  BY <1>1, <1>2, SmallNumbers DEF Launches
<1>4. NextLaunch \in Launches /\ \A m \in Launches : m < NextLaunch <=> process[m] # "none"
  BY <1>3 DEF NextLaunch
<1> QED BY <1>4, SmallNumbers DEF Launches

\* A state file the service writes has the type of the file,
LEMMA SaysTyped ==
    ASSUME NEW n \in 0..MaxLaunches, NEW key \in Keys \cup {NoKey}, NEW s \in States, NEW r \in BOOLEAN,
           Says(n, key, s, r)
    PROVE  FileTypeOK'
BY DEF Says, FileTypeOK

\* and so has one the endpoint writes.
LEMMA ReportsTyped ==
    ASSUME StoreTypeOK, NEW n \in Launches, NEW s \in States, Reports(n, s) PROVE FileTypeOK'
<1>1. n \in 0..MaxLaunches BY SmallNumbers DEF Launches
<1>2. keyOf[n] \in Keys \cup {NoKey} BY DEF StoreTypeOK
<1> QED BY <1>1, <1>2, SaysTyped DEF Reports

\* The steps of the endpoint and of those who end it.
LEMMA EndpointTypes ==
    ASSUME StoreTypeOK, NEW n \in Launches,
           NEW credential,
           Gate(n) \/ Register(n, credential) \/ Refresh(n) \/ Finish(n, {"failed", "completed"}) \/ Exit(n)
    PROVE  StoreTypeOK' /\ StartedKept
<1>1. UNCHANGED file \/ \E s \in {"running", "failed", "completed"} : Reports(n, s)
  BY DEF Gate, Register, Refresh, Finish, Exit, Cleanup
<1>2. /\ UNCHANGED <<popen, session, keyOf>> /\ (UNCHANGED ack \/ ack' = n)
      /\ UNCHANGED process
         \/ \E p \in {"gated", "up", "closing", "ended"} : process' = [process EXCEPT ![n] = p]
  BY DEF Gate, Register, Refresh, Finish, Exit, Becomes, Memory, Processes
<1>3. FileTypeOK'
  BY <1>1, ReportsTyped DEF StoreTypeOK, States, FileTypeOK
<1>4. ack' \in 0..MaxLaunches BY <1>2, SmallNumbers DEF StoreTypeOK, Launches
<1>5. process' \in [Launches -> {"none", "gate", "gated", "up", "closing", "ended"}] /\ StartedKept
  BY <1>2 DEF StoreTypeOK, StartedKept
<1> QED BY <1>2, <1>3, <1>4, <1>5 DEF StoreTypeOK

\* Ending processes keeps the types of what is stored,
LEMMA TerminatedTypes ==
    ASSUME StoreTypeOK, NEW ns \in SUBSET Launches, Terminated(ns), UNCHANGED <<ack, Memory>>
    PROVE  StoreTypeOK'
<1>1. FileTypeOK'
  BY ReportsTyped DEF StoreTypeOK, Terminated, States, FileTypeOK
<1>2. process' \in [Launches -> {"none", "gate", "gated", "up", "closing", "ended"}]
  BY DEF StoreTypeOK, Terminated
<1> QED BY <1>1, <1>2 DEF StoreTypeOK, Terminated, Memory

\* and makes no process unlaunched.
LEMMA TerminatedStarted ==
    ASSUME StoreTypeOK, NEW ns \in SUBSET Launches, Terminated(ns)
    PROVE  StartedKept
BY DEF StoreTypeOK, Terminated, StartedKept

StoreIsKept == StoreTypeOK' /\ StartedKept

\* What is not written stays typed.
LEMMA SameStore ==
    ASSUME StoreTypeOK, UNCHANGED <<Files, Memory, Processes>> PROVE StoreIsKept
BY DEF StoreTypeOK, FileTypeOK, StoreIsKept, StartedKept, Files, Memory, Processes

\* A change of the file alone leaves the processes.
LEMMA SameProcesses ==
    ASSUME StoreTypeOK, UNCHANGED <<ack, popen, Processes>>, session' \in BOOLEAN,
           UNCHANGED file \/ file' = [file EXCEPT !.state = "failed"] \/ file' = NoFile
    PROVE  StoreIsKept
<1>1. FileTypeOK'
  <2>1. CASE UNCHANGED file BY <2>1 DEF StoreTypeOK, FileTypeOK
  <2>2. CASE file' = [file EXCEPT !.state = "failed"] BY <2>2 DEF StoreTypeOK, FileTypeOK, States
  <2>3. CASE file' = NoFile
    <3>1. Says(0, NoKey, "none", FALSE) BY <2>3 DEF Says, NoFile
    <3>2. 0 \in 0..MaxLaunches /\ "none" \in States BY SmallNumbers DEF States
    <3> QED BY <3>1, <3>2, SaysTyped
  <2> QED BY <2>1, <2>2, <2>3
<1> QED BY <1>1 DEF StoreTypeOK, StoreIsKept, StartedKept, Processes

\* A step of a launch keeps what is stored typed, and no process is unlaunched.
LEMMA LaunchStore ==
    ASSUME RequestInv, InOrder, NEW t \in Threads, NEW key \in Keys \cup {NoKey}, NEW retry,
           LaunchStep(t, key, retry, FALSE)
    PROVE  StoreIsKept
<1>0. StoreTypeOK /\ CallTypeOK BY TypesKnown
<1>1. CASE EnterLaunch(t) \/ Wait(t) \/ Deadline(t) \/ Released(t)
  BY <1>0, <1>1, SameStore DEF EnterLaunch, Wait, Deadline, Released
<1>2. CASE Decide(t)
  <2>1. UNCHANGED <<file, Memory, Processes>> /\ ack' \in 0..MaxLaunches
    BY <1>0, <1>2, SmallNumbers DEF Decide, StoreTypeOK
  <2> QED BY <1>0, <2>1 DEF StoreTypeOK, FileTypeOK, StoreIsKept, StartedKept, Memory, Processes
<1>3. CASE FindRunning(t, key)
  <2>1. session' \in BOOLEAN BY <1>3 DEF FindRunning, Adopts
  <2> QED BY <1>0, <1>3, <2>1, SameProcesses DEF FindRunning, Files
<1>4. CASE FindLaunched(t, key, retry)
  <2>1. session' \in BOOLEAN BY <1>0, <1>4 DEF FindLaunched, StoreTypeOK, Memory
  <2> QED BY <1>0, <1>4, <2>1, SameProcesses DEF FindLaunched, Memory
<1>5. CASE Start(t, key, retry)
  <2> DEFINE n == NextLaunch
  <2>1. n \in Launches /\ process[n] = "none"
    BY <1>0, <1>5, NextIsFree DEF Start
  <2>2. n \in 0..MaxLaunches /\ 0 \in 0..MaxLaunches /\ "launching" \in States /\ FALSE \in BOOLEAN
    BY <2>1, SmallNumbers DEF Launches, States
  <2>3. FileTypeOK'
    BY <1>5, <2>2, SaysTyped DEF Start
  <2>4. ack' \in 0..MaxLaunches /\ popen' \in 0..MaxLaunches BY <1>5, <2>2 DEF Start
  <2>5. session' \in BOOLEAN BY <1>5 DEF Start
  <2>6. keyOf' \in [Launches -> Keys \cup {NoKey}] BY <1>0, <1>5, <2>1 DEF Start, StoreTypeOK
  <2>7. process' \in [Launches -> {"none", "gate", "gated", "up", "closing", "ended"}] /\ StartedKept
    BY <1>0, <1>5, <2>1 DEF Start, StoreTypeOK, StartedKept
  <2> QED BY <2>3, <2>4, <2>5, <2>6, <2>7 DEF StoreTypeOK, StoreIsKept
<1>6. CASE CannotStart(t, key, retry, FALSE)
  <2>1. 0 \in 0..MaxLaunches /\ "failed" \in States BY SmallNumbers DEF States
  <2>2. FileTypeOK' BY <1>6, <2>1, SaysTyped DEF CannotStart
  <2> QED
    BY <1>0, <1>6, <2>1, <2>2 DEF CannotStart, StoreTypeOK, StoreIsKept, StartedKept, Memory, Processes
<1>7. CASE Fail(t)
  <2>1. call[t].launch \in Launches BY <1>7 DEF Fail, In, RequestInv, Local, Calling
  <2> QED BY <1>0, <1>7, <2>1, TerminatedTypes, TerminatedStarted DEF Fail, StoreIsKept
<1>8. CASE RecordFailure(t, key, FALSE)
  <2>1. 0 \in 0..MaxLaunches /\ "failed" \in States BY SmallNumbers DEF States
  <2>2. call[t].launch \in 0..MaxLaunches BY <1>0 DEF CallTypeOK
  <2>3. FileTypeOK' BY <1>0, <1>8, <2>1, <2>2, SaysTyped DEF RecordFailure, StoreTypeOK, FileTypeOK
  <2>4. ack' \in 0..MaxLaunches /\ popen' \in 0..MaxLaunches
    BY <1>0, <1>8, <2>1 DEF RecordFailure, StoreTypeOK
  <2> QED
    BY <1>0, <1>8, <2>3, <2>4 DEF RecordFailure, StoreTypeOK, StoreIsKept, StartedKept, Processes
<1> QED
  BY <1>1, <1>2, <1>3, <1>4, <1>5, <1>6, <1>7, <1>8 DEF LaunchStep

\* Every step of the service keeps what is stored typed.
LEMMA StoreSteps == RequestInv /\ InOrder /\ [Next \/ Settled]_vars => StoreIsKept
<1> SUFFICES ASSUME RequestInv, InOrder, [Next \/ Settled]_vars PROVE StoreIsKept
  OBVIOUS
<1>0. StoreTypeOK /\ CallTypeOK /\ AtTypeOK BY TypesKnown
<1>1. ASSUME NEW t \in Threads, Request(t), ~Repair(t) PROVE StoreIsKept
  BY <1>0, <1>1, SameStore DEF Request, Connect, Retry, Poll, Join, ReadPhase, EndSession, Quiet
<1>2. ASSUME NEW t \in Threads, Repair(t) \/ AuthorRunning(t) \/ Gone(t) PROVE StoreIsKept
  <2>1. session' \in BOOLEAN BY <1>2 DEF Repair, AuthorRunning, Gone, Adopts
  <2> QED BY <1>0, <1>2, <2>1, SameProcesses DEF Repair, AuthorRunning, Gone, Files
<1>3. ASSUME NEW t \in Threads, AuthorTerminal(t) PROVE StoreIsKept
  <2>1. session' \in BOOLEAN BY <1>3 DEF AuthorTerminal, Adopts
  <2> QED BY <1>0, <1>3, <2>1, SameProcesses DEF AuthorTerminal, RecordAuthoritativeFailure
<1>4. ASSUME NEW t \in Threads, Teardown(t) PROVE StoreIsKept
  <2>1. session' \in BOOLEAN BY <1>0, <1>4 DEF Teardown, StoreTypeOK
  <2>2. ack' \in 0..MaxLaunches
    <3>1. ack' = 0 \/ ack' = ack BY <1>4 DEF Teardown, Files
    <3> QED BY <1>0, <3>1, SmallNumbers DEF StoreTypeOK
  <2>3. FileTypeOK'
    <3>1. CASE UNCHANGED file BY <1>0, <3>1 DEF StoreTypeOK, FileTypeOK
    <3>2. CASE file' = NoFile
      <4>1. Says(0, NoKey, "none", FALSE) BY <3>2 DEF Says, NoFile
      <4>2. 0 \in 0..MaxLaunches /\ "none" \in States BY SmallNumbers DEF States
      <4> QED BY <4>1, <4>2, SaysTyped
    <3> QED BY <1>4, <3>1, <3>2 DEF Teardown, Files
  <2> QED BY <1>0, <1>4, <2>1, <2>2, <2>3 DEF Teardown, StoreTypeOK, StoreIsKept, StartedKept, Processes
<1>5. ASSUME NEW t \in Threads, Launch(t) PROVE StoreIsKept
  <2>1. at[t].key \in Keys \cup {NoKey} BY <1>0 DEF AtTypeOK, NoKey
  <2> QED BY <1>5, <2>1, LaunchStore DEF Launch
<1>6. ASSUME NEW t \in Threads, Progress(t), ~Launch(t), ~Teardown(t), ~AuthorTerminal(t),
             ~AuthorRunning(t), ~Gone(t)
      PROVE  StoreIsKept
  BY <1>0, <1>6, SameStore DEF Progress, ConnectAttached, Ready, Rollback, AuthorStopped, AuthorNone, AuthorNothing,
       AuthorLaunch, AuthorAttached, Launched, LaunchUndone, GoneStopped, Joined, Returned, Farewell, Borrowed,
       Checked, PublishPhase, StartedUp, Ending, Quiet
<1>7. ASSUME NEW t \in Threads, Hardware(t) PROVE StoreIsKept
  BY <1>0, <1>7, SameStore DEF Hardware, launchVars
<1>8. ASSUME NEW t \in Threads, Stop(t) PROVE StoreIsKept
  <2>1. CASE Cancel(t)
    BY <1>0, <2>1, SameStore DEF Cancel
  <2>2. CASE Terminate(t)
    <3>1. CASE UNCHANGED <<file, Processes>>
      BY <1>0, <2>2, <3>1, SameStore DEF Terminate, Files
    <3>2. ASSUME NEW ns \in SUBSET Launches, Terminated(ns) PROVE StoreIsKept
      BY <1>0, <2>2, <3>2, TerminatedTypes, TerminatedStarted DEF Terminate, StoreIsKept
    <3> QED BY <2>2, <3>1, <3>2 DEF Terminate
  <2>3. CASE Forget(t)
    <3>1. popen' \in 0..MaxLaunches BY <2>3, SmallNumbers DEF Forget
    <3>2. session' \in BOOLEAN BY <2>3 DEF Forget
    <3> QED BY <1>0, <2>3, <3>1, <3>2 DEF Forget, StoreTypeOK, FileTypeOK, StoreIsKept, StartedKept, Files, Processes
  <2> QED BY <1>8, <2>1, <2>2, <2>3 DEF Stop, StopStep
<1>9. CASE Endpoint
  BY <1>0, <1>9, EndpointTypes DEF Endpoint, EndpointStep, StoreIsKept
<1>10. CASE Crash
  <2>1. popen' \in 0..MaxLaunches BY <1>10, SmallNumbers DEF Crash, LaunchCrash
  <2>2. session' \in BOOLEAN
    <3>1. file.registered \in BOOLEAN BY <1>0 DEF StoreTypeOK, FileTypeOK
    <3> QED BY <1>10, <3>1 DEF Crash, LaunchCrash, Verified, Up
  <2> QED
    BY <1>0, <1>10, <2>1, <2>2 DEF Crash, LaunchCrash, StoreTypeOK, FileTypeOK, StoreIsKept, StartedKept, Files, Processes
<1>11. CASE RelayEnds \/ SeatLost \/ Unplugged \/ StartUp \/ Settled \/ UNCHANGED vars
  BY <1>0, <1>11, SameStore DEF RelayEnds, SeatLost, Unplugged, StartUp, Settled, vars, launchVars
<1> QED
  BY <1>1, <1>2, <1>3, <1>4, <1>5, <1>6, <1>7, <1>8, <1>9, <1>10, <1>11 DEF Next, Request, Progress

\* A thread gives away only locks it holds, and takes only free ones.
LocksAreKept(t) == LocksTypeOK' /\ LocksKept(t)

\* A lock that was free is taken from nobody.
LEMMA LockTaken ==
    ASSUME LocksTypeOK, NEW t \in Threads, NEW l \in {"state", "launch", "attempt"}, Takes(t, l)
    PROVE  LocksAreKept(t)
BY ThreadsAssumption DEF LocksTypeOK, LocksAreKept, LocksKept, Takes, Free

\* A thread gives back only locks of its own.
LEMMA LockGiven ==
    ASSUME LocksTypeOK, NEW t \in Threads, NEW ls, Gives(t, ls)
    PROVE  LocksAreKept(t)
<1>1. DOMAIN locks = {"state", "launch", "attempt"} BY DEF LocksTypeOK
<1>2. LocksTypeOK' BY <1>1 DEF Gives, LocksTypeOK
<1>3. LocksKept(t) BY <1>1 DEF Gives, LocksKept
<1> QED BY <1>2, <1>3 DEF LocksAreKept

\* Locks not touched are kept.
LEMMA SameLocks ==
    ASSUME LocksTypeOK, NEW t \in Threads, UNCHANGED locks PROVE LocksAreKept(t)
BY DEF LocksTypeOK, LocksAreKept, LocksKept

\* No thread loses a lock to another.
LEMMA LockSteps ==
    ASSUME RequestInv, NEW t \in Threads, Request(t) \/ Progress(t) \/ Hardware(t) \/ Stop(t)
    PROVE  LocksAreKept(t)
<1>0. LocksTypeOK BY TypesKnown
<1>1. \/ UNCHANGED locks
      \/ \E l \in {"state", "launch", "attempt"} : Takes(t, l)
      \/ \E ls \in SUBSET {"state", "launch", "attempt"} : Gives(t, ls)
  <2>1. CASE Request(t)
    BY <2>1 DEF Request, Connect, Retry, Poll, Join, Repair, ReadPhase, EndSession, Quiet
  <2>2. CASE Launch(t)
    BY <2>2 DEF Launch, LaunchStep, EnterLaunch, FindRunning, FindLaunched, Start, CannotStart, Wait, Decide,
                Deadline, Fail, RecordFailure, Released
  <2>3. CASE Progress(t) /\ ~Launch(t)
    BY <2>3 DEF Progress, ConnectAttached, Ready, Rollback, AuthorTerminal, AuthorStopped, AuthorNone, AuthorNothing,
       AuthorRunning, AuthorLaunch, AuthorAttached, Launched, LaunchUndone, Gone, GoneStopped, Joined, Teardown,
       Returned, Farewell, Borrowed, Checked, PublishPhase, StartedUp, Ending, Quiet
  <2>4. CASE Hardware(t) \/ Stop(t)
    BY <2>4 DEF Hardware, launchVars, Stop, StopStep, Cancel, Terminate, Forget
  <2> QED BY <2>1, <2>2, <2>3, <2>4
<1> QED BY <1>0, <1>1, LockTaken, LockGiven, SameLocks

-----------------------------------------------------------------------------
(* What a request's steps are made of.                                        *)

AtRecord == [request : Requests, place : Places, key : Keys \cup {0},
             phase : Terminal \cup {"none", "active"}, held : BOOLEAN]

\* A request that goes to another place,
LEMMA GoesTyped ==
    ASSUME AtTypeOK, NEW t \in Threads, NEW p \in Places, Goes(t, p) PROVE AtTypeOK'
BY DEF AtTypeOK, Goes

\* that remembers the attempt it has read,
LEMMA SetTyped ==
    ASSUME AtTypeOK, NEW t \in Threads, NEW p \in Places, NEW k \in Keys \cup {0},
           NEW o \in Terminal \cup {"none", "active"},
           at' = [at EXCEPT ![t].place = p, ![t].key = k, ![t].phase = o]
    PROVE  AtTypeOK'
<1> DEFINE a == [at[t] EXCEPT !.place = p, !.key = k, !.phase = o]
<1>1. at[t] \in AtRecord BY DEF AtTypeOK, AtRecord
<1>2. a \in AtRecord BY <1>1 DEF AtRecord
<1>3. at' = [at EXCEPT ![t] = a] OBVIOUS
<1> QED BY <1>2, <1>3 DEF AtTypeOK, AtRecord

\* or that remembers whether the adapter was recorded, has the type of a request.
LEMMA HeldTyped ==
    ASSUME AtTypeOK, NEW t \in Threads, NEW p \in Places, NEW h \in BOOLEAN,
           at' = [at EXCEPT ![t].place = p, ![t].held = h]
    PROVE  AtTypeOK'
<1> DEFINE a == [at[t] EXCEPT !.place = p, !.held = h]
<1>1. at[t] \in AtRecord BY DEF AtTypeOK, AtRecord
<1>2. a \in AtRecord BY <1>1, Zenon DEF AtRecord
<1>3. at' = [at EXCEPT ![t] = a] OBVIOUS
<1> QED BY <1>2, <1>3 DEF AtTypeOK, AtRecord

\* A call that is begun keeps the launch and the generation of its thread.
LEMMA DoesTyped ==
    ASSUME CallTypeOK, NEW t \in Threads, NEW p \in Answers \cup Launching \cup Stopping, Does(t, p)
    PROVE  /\ CallTypeOK' /\ call'[t].phase = p /\ call'[t].launch = call[t].launch
           /\ call'[t].generation = call[t].generation
BY DEF CallTypeOK, Does

\* A thread that reads its generation is where it was.
LEMMA ReadingTyped ==
    ASSUME CallTypeOK, NEW t \in Threads, call' = Reading(t)
    PROVE  /\ CallTypeOK' /\ call'[t].phase = call[t].phase /\ call'[t].launch = call[t].launch
           /\ call'[t].generation = "current"
BY DEF CallTypeOK, Reading

\* A retry that finds nothing to launch becomes a connect.
LEMMA NothingToLaunch ==
    ASSUME RequestInv, NEW t \in Threads, at[t].place \in {"author", "author none"}, ReturnsNone(t)
    PROVE  Moved(t)
<1>0. HardwareTypeOK /\ CallTypeOK /\ AtTypeOK /\ Local(t) BY TypesKnown DEF RequestInv
<1>1. CASE Ends(t) BY <1>1, Answered
<1>2. CASE Starts(t, "connect", "attaching") /\ call' = Reading(t) /\ Calls(t, "attach")
  <2>1. AtTypeOK' /\ at'[t].place = "attaching" /\ at'[t].request = "connect"
    BY <1>0, <1>2 DEF AtTypeOK, Starts, NoRequest, Requests, Places, AttachPlaces
  <2>2. CallTypeOK' /\ call'[t].phase = call[t].phase /\ call'[t].launch = call[t].launch
    BY <1>0, <1>2 DEF CallTypeOK, Reading
  <2>3. step'[t] = "enter" /\ routine'[t] = "attach"
    BY <1>0, <1>2 DEF HardwareTypeOK, Calls
  <2>4. call[t].phase \notin Launching \cup Stopping
    BY <1>0 DEF Local, Calling, StopPlaces
  <2>5. Local(t)'
    BY <2>1, <2>2, <2>3, <2>4 DEF Local, Shape, Calling, Busy, Holds, Launching, Stopping,
                                  StopPlaces, AuthorPlaces, AttachPlaces
  <2>6. Apart(t) BY <1>0, <1>2, AloneApart DEF Starts, Reading, Calls
  <2> QED BY <2>1, <2>2, <2>5, <2>6 DEF Moved
<1> QED BY <1>1, <1>2 DEF ReturnsNone

\* A connect whose launch failed takes its seat's readiness back.
LEMMA FailedLaunch ==
    ASSUME RequestInv, NEW t \in Threads, Fails(t),
           call[t].phase \notin Launching \cup Stopping, step[t] \in Resting
    PROVE  Moved(t)
<1>0. HardwareTypeOK /\ CallTypeOK /\ AtTypeOK /\ Local(t) BY TypesKnown DEF RequestInv
<1>1. CASE Ends(t) BY <1>1, Answered
<1>2. CASE Serves(t, "connect") /\ Goes(t, "rollback") /\ UNCHANGED <<call, hardwareVars>>
  <2>1. AtTypeOK' /\ at'[t].place = "rollback" /\ at'[t].request = "connect"
    <3>1. "rollback" \in Places BY DEF Places
    <3> QED BY <1>0, <1>2, <3>1, GoesTyped DEF AtTypeOK, Goes, Serves
  <2>2. Local(t)'
    BY <1>2, <2>1 DEF Local, Shape, Calling, Busy, Holds, Launching, Stopping, StopPlaces, AuthorPlaces, hardwareVars
  <2>3. CallTypeOK' BY <1>0, <1>2 DEF CallTypeOK
  <2>4. Apart(t) BY <1>2, <1>0, AloneApart DEF Goes, hardwareVars
  <2> QED BY <2>1, <2>2, <2>3, <2>4 DEF Moved
<1> QED BY <1>1, <1>2 DEF Fails

\* A connect brings the adapter to its launch, a retry attaches it first.
LEMMA LaunchBegins ==
    ASSUME RequestInv, NEW t \in Threads, AuthorLaunch(t)
    PROVE  Moved(t)
<1>0. HardwareTypeOK /\ LocksTypeOK /\ CallTypeOK /\ AtTypeOK /\ Local(t) BY TypesKnown DEF RequestInv
<1>1. at[t].place = "author" /\ at[t].request \in {"connect", "retry"}
  BY <1>0 DEF AuthorLaunch, Place, Serves, Local, Shape
<1>2. locks'["attempt"] = t
  BY <1>0 DEF AuthorLaunch, Takes, LocksTypeOK
<1>3. step[t] \in Resting BY <1>1, RestsElsewhere DEF ReleasePlaces, AttachPlaces
<1>4. call[t].phase \notin Launching \cup Stopping BY <1>0, <1>1 DEF Local, Calling, StopPlaces
<1>5. CASE Goes(t, "launch") /\ Does(t, "enter") /\ UNCHANGED hardwareVars /\ Serves(t, "connect")
  <2>1. AtTypeOK' /\ at'[t].place = "launch" /\ at'[t].request = "connect"
    <3>1. "launch" \in Places BY DEF Places, AuthorPlaces
    <3> QED BY <1>0, <1>5, <3>1, GoesTyped DEF AtTypeOK, Goes, Serves
  <2>2. CallTypeOK' /\ call'[t].phase = "enter"
    BY <1>0, <1>5, DoesTyped DEF Launching
  <2>3. step'[t] \in Resting BY <1>3, <1>5 DEF hardwareVars
  <2>4. Shape(t)' /\ Busy(t)' /\ Holds(t)'
    BY <1>2, <2>1, <2>3 DEF Shape, Busy, Holds
  <2>5. Calling(t)' BY <2>1, <2>2 DEF Calling, Launching, Stopping, StopPlaces
  <2>6. Apart(t) BY <1>0, <1>5, AloneApart DEF Goes, Does, hardwareVars
  <2> QED BY <2>1, <2>2, <2>4, <2>5, <2>6 DEF Moved, Local
<1>6. CASE Goes(t, "author attach") /\ call' = Reading(t) /\ Calls(t, "attach")
  <2>1. AtTypeOK' /\ at'[t].place = "author attach" /\ at'[t].request \in {"connect", "retry"}
    <3>1. "author attach" \in Places BY DEF Places, AuthorPlaces
    <3> QED BY <1>0, <1>1, <1>6, <3>1, GoesTyped DEF AtTypeOK, Goes
  <2>2. CallTypeOK' /\ call'[t].phase = call[t].phase
    BY <1>0, <1>6, ReadingTyped
  <2>3. step'[t] = "enter" /\ routine'[t] = "attach"
    BY <1>0, <1>6 DEF HardwareTypeOK, Calls
  <2>4. Shape(t)' /\ Busy(t)' /\ Holds(t)'
    BY <1>2, <2>1, <2>3 DEF Shape, Busy, Holds, AttachPlaces
  <2>5. Calling(t)' BY <1>4, <2>1, <2>2 DEF Calling, Launching, Stopping, StopPlaces
  <2>6. Apart(t) BY <1>0, <1>6, AloneApart DEF Goes, Reading, Calls
  <2> QED BY <2>1, <2>2, <2>4, <2>5, <2>6 DEF Moved, Local
<1>7. CASE Serves(t, "connect") BY <1>5, <1>7 DEF AuthorLaunch
<1>8. CASE ~Serves(t, "connect") BY <1>6, <1>8 DEF AuthorLaunch
<1> QED BY <1>7, <1>8

-----------------------------------------------------------------------------
(* Each step of a request leaves it in a place it may be in.                    *)

\* Each step of a request leaves it in a place it may be in.
LEMMA RequestMoves ==
    ASSUME RequestInv, MemoryTypeOK', NEW t \in Threads, Request(t) \/ Progress(t), ~Launch(t)
    PROVE  Moved(t)
<1>0. /\ HardwareTypeOK /\ LocksTypeOK /\ CallTypeOK /\ StoreTypeOK /\ RoomTypeOK /\ AtTypeOK /\ Local(t)
      /\ RoomTypeOK' /\ FlagsTypeOK'
  BY TypesKnown DEF RequestInv, MemoryTypeOK
<1>1. ASSUME Connect(t) PROVE Moved(t)
  <2>1. AtTypeOK'
    BY <1>1, <1>0, SmallNumbers DEF Connect, Receives, Starts, NoRequest, Reading, Calls, RoomTypeOK,
         FlagsTypeOK, Requests, Places, StopPlaces, AuthorPlaces, ReleasePlaces, AttachPlaces, AtTypeOK,
         Terminal
  <2>2. /\ CallTypeOK' /\ call'[t].launch = call[t].launch
        /\ call'[t].phase = call[t].phase /\ call'[t].generation = "current"
    
      BY <1>1, <1>0, ReadingTyped DEF Connect, Receives, Starts, NoRequest, Calls, Answers, Launching, Stopping,
           CallTypeOK
  <2>3. Local(t)'
    <3>1. Shape(t)'
      BY <1>1, <1>0, <2>2 DEF Connect, Receives, Starts, NoRequest, Calls, Local, Shape, Calling, Terminal,
           HardwareTypeOK, CallTypeOK, AtTypeOK
    <3>2. Calling(t)'
      BY <1>1, <1>0, <2>2 DEF Connect, Receives, Starts, NoRequest, Calls, Local, Shape, Calling, StopPlaces,
           Launching, Stopping, HardwareTypeOK, CallTypeOK, AtTypeOK
    <3>3. Busy(t)'
      BY <1>1, <1>0, <2>2 DEF Connect, Receives, Starts, NoRequest, Calls, Local, Busy, Calling, ReleasePlaces,
           AttachPlaces, Resting, HardwareTypeOK, CallTypeOK, AtTypeOK
    <3>4. Holds(t)'
      BY <1>1, <1>0, <2>2, ThreadsAssumption DEF Connect, Receives, Starts, NoRequest, Calls, Local, Holds,
           LocksTypeOK, AuthorPlaces, StopPlaces, HardwareTypeOK, CallTypeOK, AtTypeOK
    <3> QED BY <3>1, <3>2, <3>3, <3>4 DEF Local
  <2>4. Apart(t) BY <1>1, <1>0, AloneApart DEF Connect, Receives, Starts, NoRequest, Reading, Calls
  <2> QED BY <2>1, <2>2, <2>3, <2>4 DEF Moved
<1>2. ASSUME Retry(t) PROVE Moved(t)
  <2>1. AtTypeOK'
    BY <1>2, <1>0, SmallNumbers DEF Retry, Receives, NoRequest, Quiet, hardwareVars, RoomTypeOK, FlagsTypeOK,
         Requests, Places, StopPlaces, AuthorPlaces, ReleasePlaces, AttachPlaces, AtTypeOK, Terminal
  <2>2. CallTypeOK' BY <1>2, <1>0 DEF Retry, Receives, NoRequest, Quiet, hardwareVars, Answers, CallTypeOK
  <2>3. Local(t)'
    BY <1>2, <1>0, ThreadsAssumption DEF Retry, Receives, NoRequest, Quiet, hardwareVars, Local, Shape, Calling,
         Busy, Holds, HardwareTypeOK, LocksTypeOK, CallTypeOK, AtTypeOK, Terminal, StopPlaces, AuthorPlaces,
         ReleasePlaces, AttachPlaces, Resting, Launching, Stopping
  <2>4. Apart(t) BY <1>2, <1>0, AloneApart DEF Retry, Receives, NoRequest, Quiet, hardwareVars
  <2> QED BY <2>1, <2>2, <2>3, <2>4 DEF Moved
<1>3. ASSUME Poll(t) PROVE Moved(t)
  <2>1. AtTypeOK'
    BY <1>3, <1>0, SmallNumbers DEF Poll, Receives, NoRequest, Quiet, hardwareVars, RoomTypeOK, FlagsTypeOK,
         Requests, Places, StopPlaces, AuthorPlaces, ReleasePlaces, AttachPlaces, AtTypeOK, Terminal
  <2>2. CallTypeOK' BY <1>3, <1>0 DEF Poll, Receives, NoRequest, Quiet, hardwareVars, Answers, CallTypeOK
  <2>3. Local(t)'
    BY <1>3, <1>0, ThreadsAssumption DEF Poll, Receives, NoRequest, Quiet, hardwareVars, Local, Shape, Calling,
         Busy, Holds, HardwareTypeOK, LocksTypeOK, CallTypeOK, AtTypeOK, Terminal, StopPlaces, AuthorPlaces,
         ReleasePlaces, AttachPlaces, Resting, Launching, Stopping
  <2>4. Apart(t) BY <1>3, <1>0, AloneApart DEF Poll, Receives, NoRequest, Quiet, hardwareVars
  <2> QED BY <2>1, <2>2, <2>3, <2>4 DEF Moved
<1>4. ASSUME Join(t) PROVE Moved(t)
  <2>1. AtTypeOK'
    BY <1>4, <1>0, SmallNumbers DEF Join, Receives, NoRequest, Quiet, hardwareVars, RoomTypeOK, FlagsTypeOK,
         Requests, Places, StopPlaces, AuthorPlaces, ReleasePlaces, AttachPlaces, AtTypeOK, Terminal
  <2>2. CallTypeOK' BY <1>4, <1>0 DEF Join, Receives, NoRequest, Quiet, hardwareVars, Answers, CallTypeOK
  <2>3. Local(t)'
    BY <1>4, <1>0, ThreadsAssumption DEF Join, Receives, NoRequest, Quiet, hardwareVars, Local, Shape, Calling,
         Busy, Holds, HardwareTypeOK, LocksTypeOK, CallTypeOK, AtTypeOK, Terminal, StopPlaces, AuthorPlaces,
         ReleasePlaces, AttachPlaces, Resting, Launching, Stopping
  <2>4. Apart(t) BY <1>4, <1>0, AloneApart DEF Join, Receives, NoRequest, Quiet, hardwareVars
  <2> QED BY <2>1, <2>2, <2>3, <2>4 DEF Moved
<1>5. ASSUME Repair(t) PROVE Moved(t)
  <2>1. AtTypeOK'
    BY <1>5, <1>0, SmallNumbers DEF Repair, Receives, Starts, NoRequest, Calls, RoomTypeOK, FlagsTypeOK,
         Requests, Places, StopPlaces, AuthorPlaces, ReleasePlaces, AttachPlaces, AtTypeOK, Terminal
  <2>2. CallTypeOK' BY <1>5, <1>0 DEF Repair, Receives, Starts, NoRequest, Calls, Answers, CallTypeOK
  <2>3. Local(t)'
    BY <1>5, <1>0, ThreadsAssumption DEF Repair, Receives, Starts, NoRequest, Calls, Local, Shape, Calling,
         Busy, Holds, HardwareTypeOK, LocksTypeOK, CallTypeOK, AtTypeOK, Terminal, StopPlaces, AuthorPlaces,
         ReleasePlaces, AttachPlaces, Resting, Launching, Stopping
  <2>4. Apart(t) BY <1>5, <1>0, AloneApart DEF Repair, Receives, Starts, NoRequest, Calls
  <2> QED BY <2>1, <2>2, <2>3, <2>4 DEF Moved
<1>6. ASSUME ReadPhase(t) PROVE Moved(t)
  <2>1. AtTypeOK'
    BY <1>6, <1>0, SmallNumbers DEF ReadPhase, Receives, NoRequest, Quiet, hardwareVars, RoomTypeOK,
         FlagsTypeOK, Requests, Places, StopPlaces, AuthorPlaces, ReleasePlaces, AttachPlaces, AtTypeOK,
         Terminal
  <2>2. CallTypeOK' BY <1>6, <1>0 DEF ReadPhase, Receives, NoRequest, Quiet, hardwareVars, Answers, CallTypeOK
  <2>3. Local(t)'
    BY <1>6, <1>0, ThreadsAssumption DEF ReadPhase, Receives, NoRequest, Quiet, hardwareVars, Local, Shape,
         Calling, Busy, Holds, HardwareTypeOK, LocksTypeOK, CallTypeOK, AtTypeOK, Terminal, StopPlaces,
         AuthorPlaces, ReleasePlaces, AttachPlaces, Resting, Launching, Stopping
  <2>4. Apart(t) BY <1>6, <1>0, AloneApart DEF ReadPhase, Receives, NoRequest, Quiet, hardwareVars
  <2> QED BY <2>1, <2>2, <2>3, <2>4 DEF Moved
<1>7. ASSUME NEW r \in {"leave", "stop"}, EndSession(t, r) PROVE Moved(t)
  <2>1. AtTypeOK'
    BY <1>7, <1>0, SmallNumbers DEF EndSession, Receives, Starts, NoRequest, Takes, Free, Does, hardwareVars,
         RoomTypeOK, FlagsTypeOK, Requests, Places, StopPlaces, AuthorPlaces, ReleasePlaces, AttachPlaces,
         AtTypeOK, Terminal
  <2>2. /\ CallTypeOK' /\ call'[t].launch = call[t].launch
        /\ call'[t].phase = "cancel" /\ call'[t].generation = call[t].generation
    
      BY <1>7, <1>0, DoesTyped DEF EndSession, Receives, Starts, NoRequest, Takes, Free, hardwareVars, Answers,
           Launching, Stopping
  <2>3. Local(t)'
    BY <1>7, <1>0, <2>2, ThreadsAssumption DEF EndSession, Receives, Starts, NoRequest, Takes, Free,
         hardwareVars, Local, Shape, Calling, Busy, Holds, HardwareTypeOK, LocksTypeOK, CallTypeOK, AtTypeOK,
         Terminal, StopPlaces, AuthorPlaces, ReleasePlaces, AttachPlaces, Resting, Launching, Stopping
  <2>4. Apart(t)
    BY <1>7, <1>0, AloneApart DEF EndSession, Receives, Starts, NoRequest, Takes, Free, Does, hardwareVars
  <2> QED BY <2>1, <2>2, <2>3, <2>4 DEF Moved
<1>8. ASSUME ConnectAttached(t) PROVE Moved(t)
  <2>1. CASE Ends(t) BY <2>1, Answered
  <2>2. CASE ReleaseAndEnd(t) /\ UNCHANGED call
    <3>1. AtTypeOK'
      BY <1>8, <2>2, <1>0, GoesTyped DEF ReleaseAndEnd, Places, StopPlaces, AuthorPlaces, ReleasePlaces,
           AttachPlaces
    <3>2. CallTypeOK'
      BY <1>8, <2>2, <1>0 DEF ConnectAttached, Serves, Place, Quiet, ReleaseAndEnd, Goes, Calls, Answers,
           CallTypeOK
    <3>3. Local(t)'
      BY <1>8, <2>2, <1>0, ThreadsAssumption DEF ConnectAttached, Serves, Place, Quiet, ReleaseAndEnd, Goes,
           Calls, Local, Shape, Calling, Busy, Holds, HardwareTypeOK, LocksTypeOK, CallTypeOK, AtTypeOK,
           Terminal, StopPlaces, AuthorPlaces, ReleasePlaces, AttachPlaces, Resting, Launching, Stopping
    <3>4. Apart(t)
      BY <1>8, <2>2, <1>0, AloneApart DEF ConnectAttached, Serves, Place, Quiet, ReleaseAndEnd, Goes, Calls
    <3> QED BY <3>1, <3>2, <3>3, <3>4 DEF Moved
  <2>3. CASE Goes(t, "ready") /\ Forgets(t) /\ UNCHANGED call
    <3>1. AtTypeOK'
      BY <1>8, <2>3, <1>0, GoesTyped DEF Places, StopPlaces, AuthorPlaces, ReleasePlaces, AttachPlaces
    <3>2. CallTypeOK'
      BY <1>8, <2>3, <1>0 DEF ConnectAttached, Serves, Place, Quiet, Goes, Forgets, Moves, Answers, CallTypeOK
    <3>3. Local(t)'
      BY <1>8, <2>3, <1>0, ThreadsAssumption DEF ConnectAttached, Serves, Place, Quiet, Goes, Forgets, Moves,
           Local, Shape, Calling, Busy, Holds, HardwareTypeOK, LocksTypeOK, CallTypeOK, AtTypeOK, Terminal,
           StopPlaces, AuthorPlaces, ReleasePlaces, AttachPlaces, Resting, Launching, Stopping
    <3>4. Apart(t)
      BY <1>8, <2>3, <1>0, AloneApart DEF ConnectAttached, Serves, Place, Quiet, Goes, Forgets, Moves
    <3> QED BY <3>1, <3>2, <3>3, <3>4 DEF Moved
  <2> QED BY <1>8, <2>1, <2>2, <2>3 DEF ConnectAttached
<1>9. ASSUME Ready(t) PROVE Moved(t)
  <2>1. CASE ReleaseAndEnd(t)
    <3>1. AtTypeOK'
      BY <1>9, <2>1, <1>0, GoesTyped DEF ReleaseAndEnd, Places, StopPlaces, AuthorPlaces, ReleasePlaces,
           AttachPlaces
    <3>2. CallTypeOK'
      BY <1>9, <2>1, <1>0 DEF Ready, Serves, Place, Quiet, ReleaseAndEnd, Goes, Calls, Answers, CallTypeOK
    <3>3. Local(t)'
      BY <1>9, <2>1, <1>0, ThreadsAssumption DEF Ready, Serves, Place, Quiet, ReleaseAndEnd, Goes, Calls, Local,
           Shape, Calling, Busy, Holds, HardwareTypeOK, LocksTypeOK, CallTypeOK, AtTypeOK, Terminal,
           StopPlaces, AuthorPlaces, ReleasePlaces, AttachPlaces, Resting, Launching, Stopping
    <3>4. Apart(t) BY <1>9, <2>1, <1>0, AloneApart DEF Ready, Serves, Place, Quiet, ReleaseAndEnd, Goes, Calls
    <3> QED BY <3>1, <3>2, <3>3, <3>4 DEF Moved
  <2>2. CASE Remembers(t, "author") /\ UNCHANGED hardwareVars
    <3>1. AtTypeOK' BY <1>9, <2>2, <1>0, SetTyped DEF Remembers, RoomTypeOK, Places
    <3>2. CallTypeOK'
      BY <1>9, <2>2, <1>0 DEF Ready, Serves, Place, Quiet, Remembers, hardwareVars, Answers, CallTypeOK
    <3>3. Local(t)'
      BY <1>9, <2>2, <1>0, ThreadsAssumption DEF Ready, Serves, Place, Quiet, Remembers, hardwareVars, Local,
           Shape, Calling, Busy, Holds, HardwareTypeOK, LocksTypeOK, CallTypeOK, AtTypeOK, Terminal,
           StopPlaces, AuthorPlaces, ReleasePlaces, AttachPlaces, Resting, Launching, Stopping
    <3>4. Apart(t) BY <1>9, <2>2, <1>0, AloneApart DEF Ready, Serves, Place, Quiet, Remembers, hardwareVars
    <3> QED BY <3>1, <3>2, <3>3, <3>4 DEF Moved
  <2> QED BY <1>9, <2>1, <2>2 DEF Ready
<1>10. ASSUME Rollback(t) PROVE Moved(t)
  <2>1. AtTypeOK'
    BY <1>10, <1>0, GoesTyped DEF Rollback, ReleaseAndEnd, Places, StopPlaces, AuthorPlaces, ReleasePlaces,
         AttachPlaces
  <2>2. CallTypeOK'
    BY <1>10, <1>0 DEF Rollback, Serves, Place, ReleaseAndEnd, Goes, Calls, Quiet, Answers, CallTypeOK
  <2>3. Local(t)'
    BY <1>10, <1>0, ThreadsAssumption DEF Rollback, Serves, Place, ReleaseAndEnd, Goes, Calls, Quiet, Local,
         Shape, Calling, Busy, Holds, HardwareTypeOK, LocksTypeOK, CallTypeOK, AtTypeOK, Terminal, StopPlaces,
         AuthorPlaces, ReleasePlaces, AttachPlaces, Resting, Launching, Stopping
  <2>4. Apart(t) BY <1>10, <1>0, AloneApart DEF Rollback, Serves, Place, ReleaseAndEnd, Goes, Calls, Quiet
  <2> QED BY <2>1, <2>2, <2>3, <2>4 DEF Moved
<1>11. ASSUME AuthorTerminal(t) PROVE Moved(t)
  <2>1. CASE Takes(t, "attempt") /\ Goes(t, "author stop") /\ Does(t, "cancel") /\ UNCHANGED hardwareVars
    <3>1. AtTypeOK'
      BY <1>11, <2>1, <1>0, GoesTyped DEF Places, StopPlaces, AuthorPlaces, ReleasePlaces, AttachPlaces
    <3>2. /\ CallTypeOK' /\ call'[t].launch = call[t].launch
          /\ call'[t].phase = "cancel" /\ call'[t].generation = call[t].generation
       BY <1>11, <2>1, <1>0, DoesTyped DEF Answers, Launching, Stopping
    <3>3. Local(t)'
      BY <1>11, <2>1, <1>0, <3>2, ThreadsAssumption DEF AuthorTerminal, Place, Takes, Free, Goes, hardwareVars,
           Local, Shape, Calling, Busy, Holds, HardwareTypeOK, LocksTypeOK, CallTypeOK, AtTypeOK, Terminal,
           StopPlaces, AuthorPlaces, ReleasePlaces, AttachPlaces, Resting, Launching, Stopping
    <3>4. Apart(t)
      BY <1>11, <2>1, <1>0, AloneApart DEF AuthorTerminal, Place, Takes, Free, Goes, Does, hardwareVars
    <3> QED BY <3>1, <3>2, <3>3, <3>4 DEF Moved
  <2>2. CASE ReturnsNone(t) BY <1>11, <2>2, NothingToLaunch DEF AuthorTerminal, Place, In
  <2> QED BY <1>11, <2>1, <2>2 DEF AuthorTerminal
<1>12. ASSUME AuthorStopped(t) PROVE Moved(t)
  <2>1. CASE In(t, "stopped") /\ Goes(t, "author none") /\ Calls(t, "release") /\ UNCHANGED <<call, locks>>
    <3>1. AtTypeOK'
      BY <1>12, <2>1, <1>0, GoesTyped DEF Places, StopPlaces, AuthorPlaces, ReleasePlaces, AttachPlaces
    <3>2. CallTypeOK' BY <1>12, <2>1, <1>0 DEF AuthorStopped, Place, In, Goes, Calls, Answers, CallTypeOK
    <3>3. Local(t)'
      BY <1>12, <2>1, <1>0, ThreadsAssumption DEF AuthorStopped, Place, In, Goes, Calls, Local, Shape, Calling,
           Busy, Holds, HardwareTypeOK, LocksTypeOK, CallTypeOK, AtTypeOK, Terminal, StopPlaces, AuthorPlaces,
           ReleasePlaces, AttachPlaces, Resting, Launching, Stopping
    <3>4. Apart(t) BY <1>12, <2>1, <1>0, AloneApart DEF AuthorStopped, Place, In, Goes, Calls
    <3> QED BY <3>1, <3>2, <3>3, <3>4 DEF Moved
  <2>2. CASE Fails(t)
    <3>1. call[t].phase \notin Launching \cup Stopping /\ step[t] \in Resting
      BY <1>12, <1>0, RestsElsewhere, RestsInLaunch DEF AuthorStopped, Place, In, Local, Calling, Launching,
         Stopping, StopPlaces, ReleasePlaces, AttachPlaces, Resting
    <3> QED BY <2>2, <3>1, FailedLaunch
  <2> QED BY <1>12, <2>1, <2>2 DEF AuthorStopped
<1>13. ASSUME AuthorNone(t) PROVE Moved(t)
  <2>1. CASE ReturnsNone(t) BY <1>13, <2>1, NothingToLaunch DEF AuthorNone, Place, In
  <2>2. CASE Fails(t)
    <3>1. call[t].phase \notin Launching \cup Stopping /\ step[t] \in Resting
      BY <1>13, <1>0, RestsElsewhere, RestsInLaunch DEF AuthorNone, Place, In, Local, Calling, Launching,
         Stopping, StopPlaces, ReleasePlaces, AttachPlaces, Resting
    <3> QED BY <2>2, <3>1, FailedLaunch
  <2> QED BY <1>13, <2>1, <2>2 DEF AuthorNone
<1>14. ASSUME AuthorNothing(t) PROVE Moved(t)
  <2>1. CASE ReturnsNone(t) BY <1>14, <2>1, NothingToLaunch DEF AuthorNothing, Place, In
  <2> QED BY <1>14, <2>1 DEF AuthorNothing
<1>15. ASSUME AuthorRunning(t) PROVE Moved(t)
  BY <1>15, Answered DEF AuthorRunning
<1>16. ASSUME AuthorLaunch(t) PROVE Moved(t)
  BY <1>16, LaunchBegins
<1>17. ASSUME AuthorAttached(t) PROVE Moved(t)
  <2>1. CASE Goes(t, "launch") /\ Does(t, "enter") /\ Forgets(t) /\ UNCHANGED locks
    <3>1. AtTypeOK'
      BY <1>17, <2>1, <1>0, GoesTyped DEF Places, StopPlaces, AuthorPlaces, ReleasePlaces, AttachPlaces
    <3>2. /\ CallTypeOK' /\ call'[t].launch = call[t].launch
          /\ call'[t].phase = "enter" /\ call'[t].generation = call[t].generation
       BY <1>17, <2>1, <1>0, DoesTyped DEF Answers, Launching, Stopping
    <3>3. Local(t)'
      <4>1. Shape(t)'
        BY <1>17, <2>1, <1>0, <3>2 DEF AuthorAttached, Place, Goes, Forgets, Moves, Local, Shape, Calling,
             Terminal, HardwareTypeOK, CallTypeOK, AtTypeOK
      <4>2. Calling(t)'
        BY <1>17, <2>1, <1>0, <3>2 DEF AuthorAttached, Place, Goes, Forgets, Moves, Local, Shape, Calling,
             StopPlaces, Launching, Stopping, HardwareTypeOK, CallTypeOK, AtTypeOK
      <4>3. Busy(t)'
        BY <1>17, <2>1, <1>0, <3>2 DEF AuthorAttached, Place, Goes, Forgets, Moves, Local, Busy, Calling,
             ReleasePlaces, AttachPlaces, Resting, HardwareTypeOK, CallTypeOK, AtTypeOK
      <4>4. Holds(t)'
        BY <1>17, <2>1, <1>0, <3>2, ThreadsAssumption DEF AuthorAttached, Place, Goes, Forgets, Moves, Local,
             Holds, LocksTypeOK, AuthorPlaces, StopPlaces, HardwareTypeOK, CallTypeOK, AtTypeOK
      <4> QED BY <4>1, <4>2, <4>3, <4>4 DEF Local
    <3>4. Apart(t) BY <1>17, <2>1, <1>0, AloneApart DEF AuthorAttached, Place, Goes, Does, Forgets, Moves
    <3> QED BY <3>1, <3>2, <3>3, <3>4 DEF Moved
  <2>2. CASE Ends(t) BY <2>2, Answered
  <2> QED BY <1>17, <2>1, <2>2 DEF AuthorAttached
<1>18. ASSUME Launched(t) PROVE Moved(t)
  <2>1. CASE Ends(t) BY <2>1, Answered
  <2>2. CASE Fails(t)
    <3>1. call[t].phase \notin Launching \cup Stopping /\ step[t] \in Resting
      BY <1>18, <1>0, RestsElsewhere, RestsInLaunch DEF Launched, Place, In, Local, Calling, Launching,
         Stopping, StopPlaces, ReleasePlaces, AttachPlaces, Resting
    <3> QED BY <2>2, <3>1, FailedLaunch
  <2>3. CASE In(t, "refused") /\ Goes(t, "launch undo") /\ Calls(t, "release") /\ UNCHANGED <<call, locks>>
    <3>1. AtTypeOK'
      BY <1>18, <2>3, <1>0, GoesTyped DEF Places, StopPlaces, AuthorPlaces, ReleasePlaces, AttachPlaces
    <3>2. CallTypeOK' BY <1>18, <2>3, <1>0 DEF Launched, Place, In, Goes, Calls, Answers, CallTypeOK
    <3>3. Local(t)'
      BY <1>18, <2>3, <1>0, ThreadsAssumption DEF Launched, Place, In, Goes, Calls, Local, Shape, Calling, Busy,
           Holds, HardwareTypeOK, LocksTypeOK, CallTypeOK, AtTypeOK, Terminal, StopPlaces, AuthorPlaces,
           ReleasePlaces, AttachPlaces, Resting, Launching, Stopping
    <3>4. Apart(t) BY <1>18, <2>3, <1>0, AloneApart DEF Launched, Place, In, Goes, Calls
    <3> QED BY <3>1, <3>2, <3>3, <3>4 DEF Moved
  <2> QED BY <1>18, <2>1, <2>2, <2>3 DEF Launched
<1>19. ASSUME LaunchUndone(t) PROVE Moved(t)
  <2>1. CASE Fails(t)
    <3>1. call[t].phase \notin Launching \cup Stopping /\ step[t] \in Resting
      BY <1>19, <1>0, RestsElsewhere, RestsInLaunch DEF LaunchUndone, Place, In, Local, Calling, Launching,
         Stopping, StopPlaces, ReleasePlaces, AttachPlaces, Resting
    <3> QED BY <2>1, <3>1, FailedLaunch
  <2> QED BY <1>19, <2>1 DEF LaunchUndone
<1>20. ASSUME Gone(t) PROVE Moved(t)
  <2>1. CASE Takes(t, "state") /\ Goes(t, "gone stop") /\ Does(t, "cancel") /\ UNCHANGED hardwareVars
    <3>1. AtTypeOK'
      BY <1>20, <2>1, <1>0, GoesTyped DEF Places, StopPlaces, AuthorPlaces, ReleasePlaces, AttachPlaces
    <3>2. /\ CallTypeOK' /\ call'[t].launch = call[t].launch
          /\ call'[t].phase = "cancel" /\ call'[t].generation = call[t].generation
       BY <1>20, <2>1, <1>0, DoesTyped DEF Answers, Launching, Stopping
    <3>3. Local(t)'
      BY <1>20, <2>1, <1>0, <3>2, ThreadsAssumption DEF Gone, Place, Takes, Free, Goes, hardwareVars, Local,
           Shape, Calling, Busy, Holds, HardwareTypeOK, LocksTypeOK, CallTypeOK, AtTypeOK, Terminal,
           StopPlaces, AuthorPlaces, ReleasePlaces, AttachPlaces, Resting, Launching, Stopping
    <3>4. Apart(t) BY <1>20, <2>1, <1>0, AloneApart DEF Gone, Place, Takes, Free, Goes, Does, hardwareVars
    <3> QED BY <3>1, <3>2, <3>3, <3>4 DEF Moved
  <2>2. CASE Ends(t) BY <2>2, Answered
  <2>3. CASE Proceeds(t) BY <2>3, Answered
  <2> QED BY <1>20, <2>1, <2>2, <2>3 DEF Gone
<1>21. ASSUME GoneStopped(t) PROVE Moved(t)
  <2>1. CASE In(t, "stopped") /\ ReleaseAndEnd(t) /\ UNCHANGED call
    <3>1. AtTypeOK'
      BY <1>21, <2>1, <1>0, GoesTyped DEF ReleaseAndEnd, Places, StopPlaces, AuthorPlaces, ReleasePlaces,
           AttachPlaces
    <3>2. CallTypeOK'
      BY <1>21, <2>1, <1>0 DEF GoneStopped, Place, In, ReleaseAndEnd, Goes, Calls, Answers, CallTypeOK
    <3>3. Local(t)'
      BY <1>21, <2>1, <1>0, ThreadsAssumption DEF GoneStopped, Place, In, ReleaseAndEnd, Goes, Calls, Local,
           Shape, Calling, Busy, Holds, HardwareTypeOK, LocksTypeOK, CallTypeOK, AtTypeOK, Terminal,
           StopPlaces, AuthorPlaces, ReleasePlaces, AttachPlaces, Resting, Launching, Stopping
    <3>4. Apart(t) BY <1>21, <2>1, <1>0, AloneApart DEF GoneStopped, Place, In, ReleaseAndEnd, Goes, Calls
    <3> QED BY <3>1, <3>2, <3>3, <3>4 DEF Moved
  <2>2. CASE Ends(t) BY <2>2, Answered
  <2> QED BY <1>21, <2>1, <2>2 DEF GoneStopped
<1>22. ASSUME Joined(t) PROVE Moved(t)
  BY <1>22, Answered DEF Joined
<1>23. ASSUME Teardown(t) PROVE Moved(t)
  <2>1. CASE In(t, "stopped") /\ Goes(t, "returning") /\ Calls(t, "release") /\ UNCHANGED call
    <3>1. AtTypeOK'
      BY <1>23, <2>1, <1>0, GoesTyped DEF Places, StopPlaces, AuthorPlaces, ReleasePlaces, AttachPlaces
    <3>2. CallTypeOK' BY <1>23, <2>1, <1>0 DEF Teardown, Place, In, Goes, Calls, Answers, CallTypeOK
    <3>3. Local(t)'
      BY <1>23, <2>1, <1>0, ThreadsAssumption DEF Teardown, Place, In, Goes, Calls, Local, Shape, Calling, Busy,
           Holds, HardwareTypeOK, LocksTypeOK, CallTypeOK, AtTypeOK, Terminal, StopPlaces, AuthorPlaces,
           ReleasePlaces, AttachPlaces, Resting, Launching, Stopping
    <3>4. Apart(t) BY <1>23, <2>1, <1>0, AloneApart DEF Teardown, Place, In, Goes, Calls
    <3> QED BY <3>1, <3>2, <3>3, <3>4 DEF Moved
  <2>2. CASE Ends(t) BY <2>2, Answered
  <2> QED BY <1>23, <2>1, <2>2 DEF Teardown
<1>24. ASSUME Returned(t) PROVE Moved(t)
  <2>1. CASE Goes(t, "farewell") /\ Forgets(t) /\ UNCHANGED call
    <3>1. AtTypeOK'
      BY <1>24, <2>1, <1>0, GoesTyped DEF Places, StopPlaces, AuthorPlaces, ReleasePlaces, AttachPlaces
    <3>2. CallTypeOK' BY <1>24, <2>1, <1>0 DEF Returned, Place, Goes, Forgets, Moves, Answers, CallTypeOK
    <3>3. Local(t)'
      BY <1>24, <2>1, <1>0, ThreadsAssumption DEF Returned, Place, Goes, Forgets, Moves, Local, Shape, Calling,
           Busy, Holds, HardwareTypeOK, LocksTypeOK, CallTypeOK, AtTypeOK, Terminal, StopPlaces, AuthorPlaces,
           ReleasePlaces, AttachPlaces, Resting, Launching, Stopping
    <3>4. Apart(t) BY <1>24, <2>1, <1>0, AloneApart DEF Returned, Place, Goes, Forgets, Moves
    <3> QED BY <3>1, <3>2, <3>3, <3>4 DEF Moved
  <2>2. CASE Ends(t) BY <2>2, Answered
  <2> QED BY <1>24, <2>1, <2>2 DEF Returned
<1>25. ASSUME Farewell(t) PROVE Moved(t)
  BY <1>25, Answered DEF Farewell
<1>26. ASSUME Borrowed(t) PROVE Moved(t)
  <2>1. CASE Forgets(t) /\ UNCHANGED call /\ at' = [at EXCEPT ![t].place = "checking", ![t].held = owned]
    <3>1. AtTypeOK'
      <4>1. "checking" \in Places BY DEF Places
      <4>2. owned \in BOOLEAN BY <1>0 DEF HardwareTypeOK
      <4> QED BY <1>26, <2>1, <1>0, <4>1, <4>2, HeldTyped
    <3>2. CallTypeOK' BY <1>26, <2>1, <1>0 DEF Borrowed, Place, Serves, Forgets, Moves, Answers, CallTypeOK
    <3>3. Local(t)'
      BY <1>26, <2>1, <1>0, ThreadsAssumption DEF Borrowed, Place, Serves, Forgets, Moves, Local, Shape,
           Calling, Busy, Holds, HardwareTypeOK, LocksTypeOK, CallTypeOK, AtTypeOK, Terminal, StopPlaces,
           AuthorPlaces, ReleasePlaces, AttachPlaces, Resting, Launching, Stopping
    <3>4. Apart(t) BY <1>26, <2>1, <1>0, AloneApart DEF Borrowed, Place, Serves, Forgets, Moves
    <3> QED BY <3>1, <3>2, <3>3, <3>4 DEF Moved
  <2>2. CASE Ends(t) BY <2>2, Answered
  <2> QED BY <1>26, <2>1, <2>2 DEF Borrowed
<1>27. ASSUME Checked(t) PROVE Moved(t)
  <2>1. CASE ReleaseAndEnd(t) /\ UNCHANGED call
    <3>1. AtTypeOK'
      BY <1>27, <2>1, <1>0, GoesTyped DEF ReleaseAndEnd, Places, StopPlaces, AuthorPlaces, ReleasePlaces,
           AttachPlaces
    <3>2. CallTypeOK' BY <1>27, <2>1, <1>0 DEF Checked, Place, ReleaseAndEnd, Goes, Calls, Answers, CallTypeOK
    <3>3. Local(t)'
      BY <1>27, <2>1, <1>0, ThreadsAssumption DEF Checked, Place, ReleaseAndEnd, Goes, Calls, Local, Shape,
           Calling, Busy, Holds, HardwareTypeOK, LocksTypeOK, CallTypeOK, AtTypeOK, Terminal, StopPlaces,
           AuthorPlaces, ReleasePlaces, AttachPlaces, Resting, Launching, Stopping
    <3>4. Apart(t) BY <1>27, <2>1, <1>0, AloneApart DEF Checked, Place, ReleaseAndEnd, Goes, Calls
    <3> QED BY <3>1, <3>2, <3>3, <3>4 DEF Moved
  <2>2. CASE Ends(t) BY <2>2, Answered
  <2> QED BY <1>27, <2>1, <2>2 DEF Checked
<1>28. ASSUME PublishPhase(t) PROVE Moved(t)
  BY <1>28, Answered DEF PublishPhase
<1>29. ASSUME StartedUp(t) PROVE Moved(t)
  BY <1>29, Answered DEF StartedUp
<1>30. ASSUME Ending(t) PROVE Moved(t)
  BY <1>30, Answered DEF Ending
<1> QED
  BY <1>1, <1>2, <1>3, <1>4, <1>5, <1>6, <1>7, <1>8, <1>9, <1>10, <1>11, <1>12, <1>13, <1>14, <1>15, <1>16,
       <1>17, <1>18, <1>19, <1>20, <1>21, <1>22, <1>23, <1>24, <1>25, <1>26, <1>27, <1>28, <1>29, <1>30 DEF
       Request, Progress

\* The launch itself: the request waits in its place.
LEMMA LaunchMoves ==
    ASSUME RequestInv, InOrder, NEW t \in Threads, Launch(t)
    PROVE  Moved(t)
<1>0. /\ HardwareTypeOK /\ LocksTypeOK /\ CallTypeOK /\ StoreTypeOK /\ AtTypeOK /\ Local(t)
      /\ UNCHANGED at /\ at[t].place = "launch" /\ at[t].request \in {"connect", "retry"}
  BY TypesKnown DEF RequestInv, Launch, Place, Local, Shape
<1>1. AtTypeOK' BY <1>0 DEF AtTypeOK
<1>2. Shape(t)' BY <1>0 DEF Shape
<1>3. locks'["attempt"] = locks["attempt"]
  BY <1>0 DEF Launch, LaunchStep, EnterLaunch, FindRunning, FindLaunched, Start, CannotStart, Wait, Decide,
              Deadline, Fail, RecordFailure, Released, Takes, Gives, LocksTypeOK
<1>4. Holds(t)'
  BY <1>0, <1>3 DEF Local, Holds
<1>5. StartedKept BY <1>0, LaunchStore DEF Launch, StoreIsKept, AtTypeOK, NoKey
\* One step of it says where it goes and keeps the launch's number.
<1>6. ASSUME NEW p \in {"refused", "locked", "started", "decide", "fail", "record", "releasing", "wait"}, To(t, p),
             p \in {"decide", "fail", "wait"} => call[t].phase \in {"wait", "decide"},
             step'[t] \notin Resting => p = "releasing" /\ routine'[t] = "release",
             \A u \in Threads \ {t} : step'[u] = step[u] /\ routine'[u] = routine[u]
      PROVE  Moved(t)
  <2>1. CallTypeOK' /\ call'[t].phase = p /\ call'[t].launch = call[t].launch
        /\ \A u \in Threads \ {t} : call'[u] = call[u]
    BY <1>0, <1>6 DEF CallTypeOK, To, Answers, Launching
  <2>2. Calling(t)'
    BY <1>0, <1>5, <1>6, <2>1 DEF Local, Calling, Launching, Stopping, StopPlaces, StartedKept, Launches
  <2>3. Busy(t)' BY <1>0, <1>6, <2>1 DEF Busy
  <2>4. Apart(t) BY <1>0, <1>6, <2>1 DEF Apart
  <2> QED BY <1>1, <1>2, <1>4, <2>1, <2>2, <2>3, <2>4 DEF Moved, Local
<1>7. call[t].phase # "releasing" => step[t] \in Resting BY <1>0, RestsInLaunch
<1>8. ASSUME EnterLaunch(t) \/ FindRunning(t, at[t].key) \/ FindLaunched(t, at[t].key, Serves(t, "retry"))
             \/ Wait(t) \/ Decide(t) \/ Deadline(t) \/ Fail(t)
      PROVE  Moved(t)
  <2>1. UNCHANGED hardwareVars /\ call[t].phase # "releasing"
    BY <1>8 DEF EnterLaunch, FindRunning, FindLaunched, Wait, Decide, Deadline, Fail, In
  <2>2. step'[t] \in Resting /\ \A u \in Threads \ {t} : step'[u] = step[u] /\ routine'[u] = routine[u]
    BY <1>7, <2>1 DEF hardwareVars
  <2>3. \E p \in {"refused", "locked", "started", "decide", "fail", "record", "wait"} :
           To(t, p) /\ (p \in {"decide", "fail", "wait"} => call[t].phase \in {"wait", "decide"})
    BY <1>8 DEF EnterLaunch, FindRunning, FindLaunched, Wait, Decide, Deadline, Fail, In
  <2> QED BY <1>6, <2>2, <2>3
<1>9. ASSUME CannotStart(t, at[t].key, Serves(t, "retry"), FALSE) \/ RecordFailure(t, at[t].key, FALSE)
      PROVE  Moved(t)
  <2>1. To(t, "releasing") /\ Calls(t, "release")
    BY <1>9 DEF CannotStart, RecordFailure
  <2>2. routine'[t] = "release" /\ \A u \in Threads \ {t} : step'[u] = step[u] /\ routine'[u] = routine[u]
    BY <1>0, <2>1 DEF Calls, HardwareTypeOK
  <2> QED BY <1>6, <2>1, <2>2
<1>10. ASSUME Released(t) PROVE Moved(t)
  <2>1. To(t, "refused") /\ Forgets(t)
    BY <1>10 DEF Released
  <2>2. step'[t] \in Resting /\ \A u \in Threads \ {t} : step'[u] = step[u] /\ routine'[u] = routine[u]
    BY <1>0, <2>1 DEF Forgets, Moves, HardwareTypeOK, Resting
  <2> QED BY <1>6, <2>1, <2>2
<1>11. ASSUME Start(t, at[t].key, Serves(t, "retry")) PROVE Moved(t)
  <2> DEFINE n == NextLaunch
  <2>1. n \in Launches /\ n \in 0..MaxLaunches /\ process[n] = "none"
    BY <1>0, <1>11, NextIsFree, SmallNumbers DEF Start, Launches
  <2>2. CallTypeOK' /\ call'[t].phase = "wait" /\ call'[t].launch = n
        /\ \A u \in Threads \ {t} : call'[u] = call[u]
    BY <1>0, <1>11, <2>1 DEF Start, CallTypeOK, Launching
  <2>3. process'[n] # "none" BY <1>0, <1>11, <2>1 DEF Start, StoreTypeOK
  <2>4. Calling(t)' BY <1>0, <2>1, <2>2, <2>3 DEF Calling, Launching, Stopping, StopPlaces, Launches
  <2>5. UNCHANGED hardwareVars /\ step[t] \in Resting
    BY <1>7, <1>11 DEF Start, MayStart, In
  <2>6. Busy(t)' BY <2>5 DEF Busy, hardwareVars
  <2>7. Apart(t) BY <1>0, <2>2, <2>5 DEF Apart, hardwareVars
  <2> QED BY <1>1, <1>2, <1>4, <2>2, <2>4, <2>6, <2>7 DEF Moved, Local
<1> QED BY <1>8, <1>9, <1>10, <1>11 DEF Launch, LaunchStep

\* A routine of the adapter stays in its place until it rests; a stop goes on in its own.
LEMMA HardwareMoves ==
    ASSUME RequestInv, NEW t \in Threads, Hardware(t)
    PROVE  Moved(t)
<1>0. /\ HardwareTypeOK /\ CallTypeOK /\ AtTypeOK /\ Local(t)
      /\ UNCHANGED <<at, launchVars>>
  BY TypesKnown DEF RequestInv, Hardware
<1>1. step[t] \notin Resting /\ UNCHANGED routine /\ \A u \in Threads \ {t} : step'[u] = step[u]
  BY <1>0 DEF Hardware, HardwareStep, EnterAttach, Record, Inspect, Issue, Enumerate, EnterRelease, Quiesce, Detach,
              Absent, GivesUp, Moves, Leaves, Resting, HardwareTypeOK
<1>2. AtTypeOK' /\ CallTypeOK' BY <1>0 DEF AtTypeOK, CallTypeOK, launchVars
<1>3. Shape(t)' /\ Calling(t)' /\ Holds(t)'
  BY <1>0 DEF Local, Shape, Calling, Holds, launchVars, Processes
<1>4. Busy(t)' BY <1>0, <1>1 DEF Local, Busy, launchVars
<1>5. Apart(t) BY <1>0, <1>1 DEF Apart, launchVars
<1> QED BY <1>2, <1>3, <1>4, <1>5 DEF Moved, Local

\* A cancel makes every generation read so far an old one and changes nothing else.
LEMMA CancelOutdates ==
    ASSUME CallTypeOK, NEW t \in Threads, call' = [Outdated(call) EXCEPT ![t].phase = "terminate"]
    PROVE  /\ CallTypeOK' /\ call'[t].phase = "terminate"
           /\ \A u \in Threads \ {t} : call'[u].phase = call[u].phase
           /\ \A u \in Threads : /\ call'[u].launch = call[u].launch
                                 /\ call'[u].generation =
                                      IF call[u].generation = "current" THEN "old" ELSE call[u].generation
<1>1. Outdated(call) \in [Threads -> [phase : Answers \cup Launching \cup Stopping, launch : 0..MaxLaunches,
                                      generation : {"none", "current", "old"}]]
      /\ \A u \in Threads : /\ Outdated(call)[u].phase = call[u].phase /\ Outdated(call)[u].launch = call[u].launch
                            /\ Outdated(call)[u].generation =
                                 IF call[u].generation = "current" THEN "old" ELSE call[u].generation
  BY DEF CallTypeOK, Outdated
<1>2. "terminate" \in Answers \cup Launching \cup Stopping BY DEF Stopping
<1>3. CallTypeOK' BY <1>1, <1>2 DEF CallTypeOK
<1>4. /\ call'[t] = [Outdated(call)[t] EXCEPT !.phase = "terminate"]
      /\ \A u \in Threads \ {t} : call'[u] = Outdated(call)[u]
  BY <1>1
<1>5. call'[t].phase = "terminate" /\ call'[t].launch = call[t].launch
      /\ call'[t].generation = Outdated(call)[t].generation
  BY <1>1, <1>4
<1> QED BY <1>1, <1>3, <1>4, <1>5

\* A stop keeps its request where it waits for it.
LEMMA StopMoves ==
    ASSUME RequestInv, NEW t \in Threads, Stop(t)
    PROVE  Moved(t)
<1>0. /\ HardwareTypeOK /\ LocksTypeOK /\ CallTypeOK /\ AtTypeOK /\ Local(t)
      /\ UNCHANGED <<at, hardwareVars, locks>> /\ call[t].phase \in Stopping
  BY TypesKnown DEF RequestInv, Stop, StopStep, Cancel, Terminate, Forget, In, Stopping
<1>1. at[t].place \in StopPlaces BY <1>0 DEF Local, Calling
<1>2. /\ CallTypeOK' /\ call'[t].phase \in Stopping \cup {"stopped", "unstopped"}
      /\ call[t].generation # "current" => call'[t].generation = call[t].generation
      /\ \A u \in Threads \ {t} : /\ call'[u].phase = call[u].phase /\ call'[u].launch = call[u].launch
                                  /\ call[u].generation # "current" => call'[u].generation = call[u].generation
  <2>1. CASE Cancel(t)
    <3>1. call' = [Outdated(call) EXCEPT ![t].phase = "terminate"] BY <2>1 DEF Cancel
    <3>2. CallTypeOK' /\ call'[t].phase = "terminate" BY <1>0, <3>1, CancelOutdates
    <3>3. ASSUME NEW u \in Threads
          PROVE  /\ u # t => call'[u].phase = call[u].phase
                 /\ call'[u].launch = call[u].launch
                 /\ call[u].generation # "current" => call'[u].generation = call[u].generation
      BY <1>0, <3>1, CancelOutdates
    <3> QED BY <3>2, <3>3 DEF Stopping
  <2>2. CASE \E p \in {"forget", "unstopped", "stopped"} : To(t, p)
    BY <1>0, <2>2 DEF To, CallTypeOK, Answers, Stopping
  <2> QED BY <2>1, <2>2 DEF Stop, StopStep, Terminate, Forget
<1>3. Apart(t)
  <2> SUFFICES ASSUME NEW u \in Threads \ {t}
               PROVE  /\ at'[u] = at[u] /\ step'[u] = step[u] /\ routine'[u] = routine[u]
                      /\ call'[u].phase = call[u].phase /\ call'[u].launch = call[u].launch
                      /\ call[u].generation # "current" => call'[u].generation = call[u].generation
    BY Zenon DEF Apart
  <2>1. at'[u] = at[u] /\ step'[u] = step[u] /\ routine'[u] = routine[u] BY <1>0 DEF hardwareVars
  <2> QED BY <1>2, <2>1
<1>4. AtTypeOK' /\ Holds(t)' /\ Busy(t)'
  <2>1. AtTypeOK' BY <1>0 DEF AtTypeOK
  <2>2. Holds(t)' BY <1>0 DEF Local, Holds
  <2>3. Busy(t)' BY <1>0, <1>1 DEF Local, Busy, hardwareVars, StopPlaces, ReleasePlaces, AttachPlaces
  <2> QED BY <2>1, <2>2, <2>3
<1>5. Shape(t)' BY <1>0, <1>2 DEF Local, Shape
<1>6. Calling(t)' BY <1>0, <1>1, <1>2 DEF Calling, Launching, Stopping, StopPlaces
<1> QED BY <1>2, <1>3, <1>4, <1>5, <1>6 DEF Moved, Local

\* Every step of the service keeps the requests in order.
LEMMA RequestSteps == RequestInv /\ InOrder /\ HardwareTypeOK' /\ [Next \/ Settled]_vars => RequestInv'
<1> SUFFICES ASSUME RequestInv, InOrder, HardwareTypeOK', [Next \/ Settled]_vars PROVE RequestInv'
  OBVIOUS
<1>0. HardwareTypeOK /\ LocksTypeOK /\ CallTypeOK /\ StoreTypeOK /\ AtTypeOK /\ \A t \in Threads : Local(t)
  BY TypesKnown DEF RequestInv
<1>1. MemoryTypeOK' /\ StoreTypeOK' /\ StartedKept
  BY RoomSteps, CountsSteps, FlagsSteps, StoreSteps DEF MemoryTypeOK, StoreIsKept
<1>2. SUFFICES LocksTypeOK' /\ CallTypeOK' /\ AtTypeOK' /\ \A t \in Threads : Local(t)'
  <2>1. RuntimeTypeOK' /\ AtTypeOK'
    <3>1. LaunchTypeOK'
      BY <1>1, <1>2 DEF LaunchTypeOK, LocksTypeOK, CallTypeOK, StoreTypeOK, FileTypeOK, States
    <3> QED
      BY <1>1, <1>2, <3>1 DEF RuntimeTypeOK, MemoryTypeOK, FlagsTypeOK, RoomTypeOK, CountsTypeOK, AtTypeOK
  <2> QED BY <1>2, <2>1 DEF RequestInv
<1>3. ASSUME NEW t \in Threads, Request(t) \/ Progress(t) \/ Hardware(t) \/ Stop(t)
      PROVE  LocksTypeOK' /\ CallTypeOK' /\ AtTypeOK' /\ \A u \in Threads : Local(u)'
  <2>1. LocksTypeOK' /\ LocksKept(t) BY <1>3, LockSteps DEF LocksAreKept
  <2>2. Moved(t) BY <1>1, <1>3, RequestMoves, LaunchMoves, HardwareMoves, StopMoves
  <2> QED BY <1>1, <2>1, <2>2, OthersKept DEF Moved
<1>4. CASE UNCHANGED <<locks, call, at, step, routine>>
  <2>1. LocksTypeOK' /\ CallTypeOK' /\ AtTypeOK' BY <1>0, <1>4 DEF LocksTypeOK, CallTypeOK, AtTypeOK
  <2>2. ASSUME NEW t \in Threads PROVE Local(t)'
    <3>1. Local(t) BY <1>0
    <3>2. Calling(t)' BY <1>1, <1>4, <3>1 DEF Local, Calling, StartedKept, Launches
    <3> QED BY <1>4, <3>1, <3>2 DEF Local, Shape, Busy, Holds
  <2> QED BY <2>1, <2>2
<1>5. Endpoint \/ RelayEnds \/ SeatLost \/ Unplugged \/ Settled \/ UNCHANGED vars
      => UNCHANGED <<locks, call, at, step, routine>>
  BY DEF Endpoint, EndpointStep, Gate, Register, Refresh, Finish, Exit, RelayEnds, SeatLost, Unplugged, Unplug,
         Settled, vars, launchVars, hardwareVars
<1>6. CASE Crash
  <2>1. LocksTypeOK' BY <1>0, <1>6 DEF Crash, LaunchCrash, LocksTypeOK
  <2>2. CallTypeOK' BY <1>6, SmallNumbers DEF Crash, LaunchCrash, CallTypeOK, NoCall, Answers
  <2>3. AtTypeOK' BY <1>6 DEF Crash, AtTypeOK, NoRequest, Requests, Places
  <2>4. ASSUME NEW t \in Threads PROVE Local(t)'
    <3>1. at'[t] = NoRequest /\ call'[t] = NoCall /\ step'[t] = "idle"
      BY <1>6 DEF Crash, LaunchCrash, HardwareCrash
    <3> QED
      BY <3>1 DEF Local, Shape, Calling, Busy, Holds, NoRequest, NoCall, Launching, Stopping, StopPlaces,
                  AuthorPlaces, Resting
  <2> QED BY <2>1, <2>2, <2>3, <2>4
<1>7. CASE StartUp
  <2>1. CASE UNCHANGED <<at, hardwareVars>>
    BY <1>4, <1>7, <2>1 DEF StartUp, launchVars, hardwareVars
  <2>2. ASSUME NEW t \in Threads, Starts(t, "startup", "starting"), Calls(t, "release")
        PROVE  LocksTypeOK' /\ CallTypeOK' /\ AtTypeOK' /\ \A u \in Threads : Local(u)'
    <3>0. UNCHANGED launchVars /\ at[t] = NoRequest BY <1>7 DEF StartUp
    <3>1. LocksTypeOK' /\ CallTypeOK' BY <1>0, <3>0 DEF LocksTypeOK, CallTypeOK, launchVars
    <3>2. AtTypeOK' /\ at'[t].place = "starting" /\ at'[t].request = "startup"
      BY <1>0, <2>2 DEF AtTypeOK, Starts, NoRequest, Requests, Places, ReleasePlaces
    <3>3. step'[t] = "enter" /\ routine'[t] = "release" /\ UNCHANGED call
      BY <1>0, <2>2, <3>0 DEF Calls, HardwareTypeOK, launchVars
    <3>4. Local(t)'
      <4>1. call[t].phase \notin Launching \cup Stopping
        <5>1. Calling(t) BY <1>0 DEF Local
        <5>2. at[t].place = "idle" BY <3>0 DEF NoRequest
        <5> QED BY <5>1, <5>2 DEF Calling, StopPlaces
      <4>2. Shape(t)' /\ Busy(t)' /\ Holds(t)'
        BY <3>2, <3>3 DEF Shape, Busy, Holds, AuthorPlaces, ReleasePlaces
      <4>3. Calling(t)'
        BY <3>2, <3>3, <4>1 DEF Calling, StopPlaces, Launching, Stopping
      <4> QED BY <4>2, <4>3 DEF Local
    <3>5. Apart(t) BY <1>0, <2>2, <3>0, AloneApart DEF Starts, Calls, launchVars
    <3>6. LocksKept(t) BY <3>0 DEF LocksKept, launchVars
    <3> QED BY <1>1, <3>1, <3>2, <3>4, <3>5, <3>6, OthersKept
  <2> QED BY <1>7, <2>1, <2>2 DEF StartUp
<1> QED
  BY <1>3, <1>4, <1>5, <1>6, <1>7 DEF Next

-----------------------------------------------------------------------------
(* The endpoint: what leaves it alone leaves its part of the invariant.          *)

Nobody == \A n \in Launches : ~Alive(n)

\* No thread comes to wait for an endpoint, to record a failure, or to have ended one.
PhasesKept ==
    \A u \in Threads :
        /\ call'[u].phase \in {"wait", "decide", "fail"} =>
               call[u].phase \in {"wait", "decide", "fail"} /\ call'[u].launch = call[u].launch
        /\ call'[u].phase = "record" => call[u].phase = "record"
        /\ at'[u].place \in StopPlaces /\ call'[u].phase \in {"forget", "stopped"} =>
               at[u].place \in StopPlaces /\ call[u].phase \in {"forget", "stopped"}

\* A step that touches neither process nor record of the endpoint keeps its part of the invariant.
LEMMA EndpointAside ==
    ASSUME EndpointInv, UNCHANGED <<process, popen, orphan>>, session => session',
           file'.registered = file.registered, file'.launch = file.launch, PhasesKept
    PROVE  EndpointInv'
<1>1. \A n \in Launches : (Alive(n)' <=> Alive(n)) /\ (Up(n)' <=> Up(n))
  BY DEF Alive, Up
<1>2. InOrder' /\ OneAlive' BY <1>1 DEF EndpointInv, InOrder, OneAlive
<1>3. ASSUME ~orphan PROVE EndpointIsKnown' /\ LaunchIsAlone' /\ StopIsThrough'
  <2>1. EndpointIsKnown /\ LaunchIsAlone /\ StopIsThrough BY <1>3 DEF EndpointInv
  <2>2. EndpointIsKnown' BY <1>1, <2>1 DEF EndpointIsKnown
  <2>3. LaunchIsAlone' BY <1>1, <2>1 DEF LaunchIsAlone, PhasesKept
  <2>4. StopIsThrough' BY <1>1, <2>1 DEF StopIsThrough, PhasesKept
  <2> QED BY <2>2, <2>3, <2>4
<1> QED BY <1>2, <1>3 DEF EndpointInv

\* Without an endpoint there is nothing to know of it.
LEMMA NobodySuffices ==
    ASSUME InOrder', Nobody' PROVE EndpointInv'
BY DEF EndpointInv, Nobody, OneAlive, EndpointIsKnown, LaunchIsAlone, StopIsThrough, Alive

\* Processes that only end keep the order.
LEMMA OrderKept ==
    ASSUME InOrder, \A n \in Launches : process'[n] # "none" <=> process[n] # "none" PROVE InOrder'
BY DEF InOrder

\* What is not running, an orphan aside, is not there.
LEMMA NotRunning ==
    ASSUME EndpointInv, ~orphan, ~Running PROVE Nobody
BY SmallNumbers DEF EndpointInv, EndpointIsKnown, Running, Verified, Nobody, Alive, Up, Launches

\* No request, a launch aside, comes to wait for an endpoint.
LEMMA RequestPhases ==
    ASSUME RequestInv, NEW t \in Threads, Request(t) \/ Progress(t), ~Launch(t), Moved(t)
    PROVE  PhasesKept
<1>0. AtTypeOK /\ CallTypeOK /\ Calling(t)' /\ Apart(t) BY TypesKnown DEF Moved, Local
<1>a. \A p : Goes(t, p) => at'[t].place = p BY <1>0 DEF Goes, AtTypeOK
<1>b. \A r, p : Starts(t, r, p) => at'[t].place = p BY <1>0 DEF Starts, AtTypeOK, NoRequest
<1>c. Ends(t) \/ Proceeds(t) => at'[t].place \in {"idle", "joining"}
  <2>1. ASSUME Ends(t) PROVE at'[t].place = "idle" BY <1>0, <2>1 DEF Ends, AtTypeOK, NoRequest
  <2>2. ASSUME Proceeds(t), Serves(t, "join") PROVE at'[t].place = "joining"
    BY <1>0, <2>2 DEF Proceeds, AtTypeOK
  <2>3. ASSUME Proceeds(t), ~Serves(t, "join") PROVE at'[t].place = "idle"
    BY <1>0, <2>3 DEF Proceeds, AtTypeOK, NoRequest
  <2> QED BY <2>1, <2>2, <2>3
<1>d. Does(t, "cancel") \/ Does(t, "enter") => call'[t].phase \in {"cancel", "enter"}
  BY <1>0 DEF Does, CallTypeOK
<1>1. \/ at'[t].place \notin StopPlaces \cup {"launch"}
      \/ call'[t].phase \in {"cancel", "enter"}
  <2>1. ASSUME Retry(t) \/ Poll(t) \/ Join(t) \/ ReadPhase(t) \/ Remembers(t, "author") \/ Borrowed(t)
        PROVE  at'[t].place \in {"author", "gone", "joining", "publishing", "checking", "idle"}
    BY <1>0, <1>c, <2>1 DEF Retry, Poll, Join, ReadPhase, Remembers, Borrowed, AtTypeOK, NoRequest
  <2>2. ASSUME Connect(t) \/ Repair(t)
        PROVE  at'[t].place \in {"attaching", "borrowing"}
    BY <1>b, <2>2 DEF Connect, Repair
  <2>3. ASSUME NEW r \in {"leave", "stop"}, EndSession(t, r) PROVE Does(t, "cancel")
    BY <2>3 DEF EndSession
  <2>4. ASSUME ReleaseAndEnd(t) \/ ReturnsNone(t) \/ Fails(t)
        PROVE  at'[t].place \in {"ending", "attaching", "idle", "joining", "rollback"}
    BY <1>a, <1>b, <1>c, <2>4 DEF ReleaseAndEnd, ReturnsNone, Fails
  <2>5. ASSUME Progress(t), ~Borrowed(t)
        PROVE  \/ Ends(t) \/ Proceeds(t) \/ Does(t, "cancel") \/ Does(t, "enter") \/ Remembers(t, "author")
               \/ ReleaseAndEnd(t) \/ ReturnsNone(t) \/ Fails(t)
               \/ \E p \in {"ready", "author none", "author attach", "launch undo", "returning", "farewell"} : Goes(t, p)
    BY <2>5 DEF Progress, ConnectAttached, Ready, Rollback, AuthorTerminal, AuthorStopped, AuthorNone, AuthorNothing,
       AuthorRunning, AuthorLaunch, AuthorAttached, Launched, LaunchUndone, Gone, GoneStopped, Joined, Teardown,
       Returned, Farewell, Checked, PublishPhase, StartedUp, Ending
  <2>6. CASE Request(t) BY <1>d, <2>1, <2>2, <2>3, <2>6 DEF Request, StopPlaces
  <2>7. CASE Progress(t) BY <1>a, <1>c, <1>d, <2>1, <2>4, <2>5, <2>7 DEF StopPlaces
  <2> QED BY <2>6, <2>7
<1>2. ASSUME NEW u \in Threads
      PROVE  /\ call'[u].phase \in {"wait", "decide", "fail"} =>
                    call[u].phase \in {"wait", "decide", "fail"} /\ call'[u].launch = call[u].launch
             /\ call'[u].phase = "record" => call[u].phase = "record"
             /\ at'[u].place \in StopPlaces /\ call'[u].phase \in {"forget", "stopped"} =>
                    at[u].place \in StopPlaces /\ call[u].phase \in {"forget", "stopped"}
  <2>1. CASE u = t BY <1>0, <1>1, <2>1 DEF Calling, Launching
  <2>2. CASE u # t BY <1>0, <2>2 DEF Apart
  <2> QED BY <2>1, <2>2
<1> QED BY <1>2 DEF PhasesKept

\* Only one thread is in a launch.
LEMMA OneLaunch ==
    ASSUME RequestInv, NEW t \in Threads, NEW u \in Threads,
           at[t].place = "launch", at[u].place = "launch" \/ at[u].place = "author stop"
    PROVE  u = t
BY DEF RequestInv, Local, Holds, AuthorPlaces

\* A process that ends.
LEMMA TerminatedKnown ==
    ASSUME StoreTypeOK, NEW ns \in SUBSET Launches, Terminated(ns), \A n \in ns : process[n] # "none"
    PROVE  /\ \A n \in Launches : Alive(n)' <=> Alive(n) /\ n \notin ns
           /\ \A n \in Launches : process'[n] # "none" <=> process[n] # "none"
BY DEF Terminated, Alive, Up, StoreTypeOK

\* What the endpoint does by itself keeps it.
LEMMA EndpointEndpoint ==
    ASSUME RequestInv, EndpointInv, Endpoint PROVE EndpointInv'
<1>0. StoreTypeOK BY TypesKnown
<1>1. PICK n \in Launches : \/ Gate(n) \/ Register(n, authority) \/ Refresh(n)
                            \/ Finish(n, {"failed", "completed"}) \/ Exit(n)
  BY DEF Endpoint, EndpointStep
<1>2. UNCHANGED <<call, popen, session, at, orphan>>
  BY <1>1 DEF Endpoint, Gate, Register, Refresh, Finish, Exit, Memory, Told
<1>3. /\ \A m \in Launches \ {n} : process'[m] = process[m]
      /\ process[n] # "none" /\ process'[n] # "none" /\ Alive(n)
  BY <1>0, <1>1 DEF Gate, Register, Refresh, Finish, Exit, Becomes, Processes, StoreTypeOK, Alive, Up
<1>4. \A m \in Launches : (Alive(m)' => Alive(m)) /\ (m # n => (Alive(m)' <=> Alive(m)) /\ (Up(m)' <=> Up(m)))
  BY <1>3 DEF Alive, Up
<1>5. InOrder' BY <1>3, OrderKept DEF EndpointInv
<1>6. OneAlive' BY <1>4 DEF EndpointInv, OneAlive
<1>7. ASSUME ~orphan PROVE EndpointIsKnown' /\ LaunchIsAlone' /\ StopIsThrough'
  <2>1. EndpointIsKnown /\ LaunchIsAlone /\ StopIsThrough /\ OneAlive BY <1>7 DEF EndpointInv
  <2>2. LaunchIsAlone' /\ StopIsThrough' BY <1>2, <1>4, <2>1 DEF LaunchIsAlone, StopIsThrough
  <2>3. \A m \in Launches : Alive(m)' => m = n BY <1>3, <1>4, <2>1 DEF OneAlive
  <2>4. Alive(n)' => popen = n \/ Up(n)' BY <1>0, <1>1, <2>1
          DEF Gate, Register, Refresh, Finish, Exit, Becomes, Processes, StoreTypeOK, Alive, Up, EndpointIsKnown
  <2>5. Up(n)' => file'.registered /\ file'.launch = n
    <3>1. CASE Gate(n)
      BY <1>0, <3>1 DEF Gate, Becomes, StoreTypeOK, Up
    <3>2. CASE \E s : Reports(n, s)
      BY <3>2 DEF Reports, Says
    <3>3. CASE Register(n, authority) \/ Refresh(n) \/ Finish(n, {"failed", "completed"})
      BY <1>0, <3>2, <3>3 DEF Register, Refresh, Finish, Becomes, StoreTypeOK, Up
    <3>4. CASE Exit(n)
      BY <1>0, <3>4 DEF Exit, Becomes, StoreTypeOK, Up
    <3> QED BY <1>1, <3>1, <3>3, <3>4
  <2>6. Alive(n) /\ popen = n => session BY <2>1 DEF EndpointIsKnown
  <2> QED BY <1>2, <1>3, <2>2, <2>3, <2>4, <2>5, <2>6 DEF EndpointIsKnown, Alive
<1> QED BY <1>2, <1>5, <1>6, <1>7 DEF EndpointInv

\* A launch starts an endpoint only when there is none, and ends the one it waits for.
LEMMA LaunchEndpoint ==
    ASSUME RequestInv, EndpointInv, NEW t \in Threads, Launch(t) PROVE EndpointInv'
<1>0. StoreTypeOK /\ CallTypeOK /\ InOrder /\ OneAlive /\ UNCHANGED <<at, orphan>> /\ at[t].place = "launch"
  BY TypesKnown DEF EndpointInv, Launch, Place, Told
<1> DEFINE key == at[t].key
           retry == Serves(t, "retry")
<1>1. ASSUME NEW p \in {"refused", "locked", "started", "decide", "fail", "releasing", "wait"}, To(t, p),
             p \in {"decide", "fail", "wait"} => call[t].phase \in {"wait", "decide"}
      PROVE  PhasesKept
  BY <1>0, <1>1 DEF To, CallTypeOK, PhasesKept
<1>2. CASE EnterLaunch(t) \/ Wait(t) \/ Decide(t) \/ Deadline(t) \/ Released(t)
  <2>1. PhasesKept
    BY <1>1, <1>2 DEF EnterLaunch, Wait, Decide, Deadline, Released, In
  <2> QED
    BY <1>0, <1>2, <2>1, EndpointAside DEF EnterLaunch, Wait, Decide, Deadline, Released, Files, Memory, Processes
<1>3. CASE FindRunning(t, key) \/ FindLaunched(t, key, retry)
  <2>1. PhasesKept BY <1>1, <1>3 DEF FindRunning, FindLaunched
  <2>2. UNCHANGED <<process, popen>> /\ (session => session')
    <3>1. CASE FindRunning(t, key) BY <3>1 DEF FindRunning, Adopts, Processes
    <3>2. CASE FindLaunched(t, key, retry) BY <3>2 DEF FindLaunched, Memory, Processes
    <3> QED BY <1>3, <3>1, <3>2
  <2>3. file'.registered = file.registered /\ file'.launch = file.launch
    BY <1>0, <1>3 DEF FindRunning, FindLaunched, Files, StoreTypeOK, FileTypeOK
  <2> QED BY <1>0, <2>1, <2>2, <2>3, EndpointAside
<1>4. CASE Start(t, key, retry)
  <2> DEFINE n == NextLaunch
  <2>1. n \in Launches /\ process[n] = "none" /\ \A m \in Launches : m < n <=> process[m] # "none"
    BY <1>0, <1>4, NextIsFree DEF Start
  <2>2. process' = [process EXCEPT ![n] = IF \E m \in Launches : Alive(m) THEN "ended" ELSE "gate"]
        /\ popen' = n /\ session'
    BY <1>4 DEF Start
  <2>3. process'[n] \in {"ended", "gate"} /\ \A m \in Launches \ {n} : process'[m] = process[m]
    BY <1>0, <2>1, <2>2 DEF StoreTypeOK
  <2>4. InOrder'
    <3>1. \A m \in Launches : process'[m] # "none" <=> m <= n
      BY <2>1, <2>3, SmallNumbers DEF Launches
    <3>2. n \in 0..MaxLaunches BY <2>1, SmallNumbers DEF Launches
    <3> QED BY <3>1, <3>2 DEF InOrder
  <2>5. CASE \E m \in Launches : Alive(m)
    <3>1. orphan
      BY <1>4, <2>5, NotRunning DEF Start, MayStart, Nobody
    <3>2. process'[n] = "ended" BY <1>0, <2>1, <2>2, <2>5 DEF StoreTypeOK
    <3>3. \A m \in Launches : Alive(m)' => Alive(m) BY <2>3, <3>2 DEF Alive, Up
    <3>4. OneAlive' BY <1>0, <3>3 DEF OneAlive
    <3> QED BY <1>0, <2>4, <3>1, <3>4 DEF EndpointInv
  <2>6. CASE Nobody
    <3>1. \A m \in Launches : (Alive(m)' => m = n) /\ ~Up(m)'
      BY <2>3, <2>6 DEF Alive, Up, Nobody
    <3>2. OneAlive' BY <3>1 DEF OneAlive
    <3>3. EndpointIsKnown' BY <2>2, <3>1 DEF EndpointIsKnown
    <3>4. call'[t].phase = "wait" /\ call'[t].launch = n /\ \A u \in Threads \ {t} : call'[u] = call[u]
      BY <1>0, <1>4 DEF Start, CallTypeOK
    <3>5. ASSUME NEW u \in Threads, call[u].phase \in {"wait", "decide", "fail", "record"} PROVE u = t
      <4>1. at[u].place = "launch" BY <3>5 DEF RequestInv, Local, Calling, Launching
      <4> QED BY <1>0, <4>1, OneLaunch
    <3>6. LaunchIsAlone' BY <3>1, <3>4, <3>5 DEF LaunchIsAlone
    <3>7. ASSUME NEW u \in Threads, at[u].place \in StopPlaces PROVE FALSE
      <4>1. locks["state"] = NoThread BY <1>4 DEF Start, MayStart, Free
      <4>2. at[u].place \notin {"gone stop", "teardown"}
        BY <4>1, ThreadsAssumption DEF RequestInv, Local, Holds
      <4>3. u = t BY <1>0, <3>7, <4>2, OneLaunch DEF StopPlaces
      <4> QED BY <1>0, <3>7, <4>3 DEF StopPlaces
    <3>8. StopIsThrough' BY <1>0, <3>7 DEF StopIsThrough
    <3> QED BY <2>4, <3>2, <3>3, <3>6, <3>8 DEF EndpointInv
  <2> QED BY <2>5, <2>6 DEF Nobody
<1>5. CASE CannotStart(t, key, retry, FALSE)
  <2>1. PhasesKept BY <1>1, <1>5 DEF CannotStart
  <2>2. UNCHANGED <<process, popen, session>> BY <1>5 DEF CannotStart, Memory, Processes
  <2>3. InOrder' /\ OneAlive' BY <1>0, <2>2 DEF InOrder, OneAlive, Alive, Up
  <2>4. CASE orphan BY <1>0, <2>3, <2>4 DEF EndpointInv
  <2>5. CASE ~orphan
    <3>1. Nobody BY <1>5, <2>5, NotRunning DEF CannotStart, MayStart
    <3>2. Nobody' BY <2>2, <3>1 DEF Nobody, Alive, Up
    <3> QED BY <2>3, <3>2, NobodySuffices
  <2> QED BY <2>4, <2>5
<1>6. CASE Fail(t)
  <2>1. call[t].phase = "fail" /\ call[t].launch \in Launches /\ process[call[t].launch] # "none"
    BY <1>6 DEF Fail, In, RequestInv, Local, Calling
  <2>2. /\ \A n \in Launches : Alive(n)' <=> Alive(n) /\ n # call[t].launch
        /\ \A n \in Launches : process'[n] # "none" <=> process[n] # "none"
    BY <1>0, <1>6, <2>1, TerminatedKnown DEF Fail
  <2>3. InOrder' BY <1>0, <2>2, OrderKept
  <2>4. CASE orphan
    BY <1>0, <2>2, <2>3, <2>4 DEF EndpointInv, OneAlive
  <2>5. CASE ~orphan
    <3>1. Nobody' BY <2>1, <2>2, <2>5 DEF Nobody, EndpointInv, LaunchIsAlone
    <3> QED BY <2>3, <3>1, NobodySuffices
  <2> QED BY <2>4, <2>5
<1>7. CASE RecordFailure(t, key, FALSE)
  <2>1. UNCHANGED process /\ call[t].phase = "record" BY <1>7 DEF RecordFailure, Processes, In
  <2>2. InOrder' /\ OneAlive' BY <1>0, <2>1 DEF InOrder, OneAlive, Alive, Up
  <2>3. CASE orphan BY <1>0, <2>2, <2>3 DEF EndpointInv
  <2>4. CASE ~orphan
    <3>1. Nobody BY <2>1, <2>4 DEF Nobody, EndpointInv, LaunchIsAlone
    <3>2. Nobody' BY <2>1, <3>1 DEF Nobody, Alive, Up
    <3> QED BY <2>2, <3>2, NobodySuffices
  <2> QED BY <2>3, <2>4
<1> QED BY <1>2, <1>3, <1>4, <1>5, <1>6, <1>7 DEF Launch, LaunchStep

\* A stop ends the only endpoint there may be.
LEMMA StopEndpoint ==
    ASSUME RequestInv, EndpointInv, NEW t \in Threads, Stop(t) PROVE EndpointInv'
<1>0. /\ StoreTypeOK /\ CallTypeOK /\ InOrder /\ OneAlive /\ UNCHANGED <<at, orphan>>
      /\ call[t].phase \in Stopping
  BY TypesKnown DEF EndpointInv, Stop, StopStep, Cancel, Terminate, Forget, In, Stopping, Told
<1>1. at[t].place \in StopPlaces BY <1>0 DEF RequestInv, Local, Calling
<1>2. CASE Cancel(t)
  <2>1. call'[t].phase = "terminate" /\ \A u \in Threads \ {t} : call'[u].phase = call[u].phase
                                                             /\ call'[u].launch = call[u].launch
    BY <1>0, <1>2, CancelOutdates DEF Cancel
  <2>2. PhasesKept BY <1>0, <2>1 DEF PhasesKept
  <2> QED BY <1>0, <1>2, <2>2, EndpointAside DEF Cancel, Files, Memory, Processes
<1>3. CASE Terminate(t)
  <2>1. CASE UNCHANGED <<file, Processes>> /\ To(t, "unstopped")
    <3>1. PhasesKept BY <1>0, <2>1 DEF PhasesKept, To, CallTypeOK
    <3> QED BY <1>0, <1>3, <2>1, <3>1, EndpointAside DEF Terminate, Memory, Processes
  <2> DEFINE ns == {n \in Launches : Alive(n) /\ (n = popen \/ (Verified /\ n = file.launch))}
  <2>2. CASE Terminated(ns)
    <3>1. \A n \in ns : process[n] # "none" BY DEF Alive, Up
    <3>2. /\ \A n \in Launches : Alive(n)' <=> Alive(n) /\ n \notin ns
          /\ \A n \in Launches : process'[n] # "none" <=> process[n] # "none"
      BY <1>0, <2>2, <3>1, TerminatedKnown
    <3>3. InOrder' BY <1>0, <3>2, OrderKept
    <3>4. CASE orphan BY <1>0, <3>2, <3>3, <3>4 DEF EndpointInv, OneAlive
    <3>5. CASE ~orphan
      <4>1. \A n \in Launches : Alive(n) => n \in ns
        BY <3>5 DEF EndpointInv, EndpointIsKnown, Verified
      <4>2. Nobody' BY <3>2, <4>1 DEF Nobody
      <4> QED BY <3>3, <4>2, NobodySuffices
    <3> QED BY <3>4, <3>5
  <2> QED BY <1>3, <2>1, <2>2 DEF Terminate
<1>4. CASE Forget(t)
  <2>1. UNCHANGED process /\ call[t].phase = "forget" BY <1>4 DEF Forget, Processes, In
  <2>2. InOrder' /\ OneAlive' BY <1>0, <2>1 DEF InOrder, OneAlive, Alive, Up
  <2>3. CASE orphan BY <1>0, <2>2, <2>3 DEF EndpointInv
  <2>4. CASE ~orphan
    <3>1. Nobody BY <1>1, <2>1, <2>4 DEF Nobody, EndpointInv, StopIsThrough
    <3>2. Nobody' BY <2>1, <3>1 DEF Nobody, Alive, Up
    <3> QED BY <2>2, <3>2, NobodySuffices
  <2> QED BY <2>3, <2>4
<1> QED BY <1>2, <1>3, <1>4 DEF Stop, StopStep

\* A request leaves the endpoint as it is.
LEMMA RequestEndpoint ==
    ASSUME RequestInv, EndpointInv, NEW t \in Threads, Request(t) \/ Progress(t), ~Launch(t), Moved(t)
    PROVE  EndpointInv'
<1>0. PhasesKept /\ StoreTypeOK BY RequestPhases, TypesKnown
<1>1. UNCHANGED <<process, popen, orphan>>
  <2>1. CASE Request(t)
    BY <2>1 DEF Request, Connect, Retry, Poll, Join, Repair, ReadPhase, EndSession, Quiet, Memory, Processes, Told
  <2>2. CASE Progress(t)
    BY <2>2 DEF Progress, ConnectAttached, Ready, Rollback, AuthorTerminal, AuthorStopped, AuthorNone, AuthorNothing,
       AuthorRunning, AuthorLaunch, AuthorAttached, Launched, LaunchUndone, Gone, GoneStopped, Joined, Teardown,
       Returned, Farewell, Borrowed, Checked, PublishPhase, StartedUp, Ending, Quiet, Memory, Processes, Told
  <2> QED BY <2>1, <2>2
<1>2. CASE Teardown(t) /\ In(t, "stopped")
  <2>1. InOrder' /\ OneAlive' BY <1>1 DEF EndpointInv, InOrder, OneAlive, Alive, Up
  <2>2. CASE orphan BY <1>1, <2>1, <2>2 DEF EndpointInv
  <2>3. CASE ~orphan
    <3>1. Nobody BY <1>2, <2>3 DEF Nobody, EndpointInv, StopIsThrough, StopPlaces, Teardown, Place, In
    <3>2. Nobody' BY <1>1, <3>1 DEF Nobody, Alive, Up
    <3> QED BY <2>1, <3>2, NobodySuffices
  <2> QED BY <2>2, <2>3
<1>3. CASE ~(Teardown(t) /\ In(t, "stopped"))
  <2>1. UNCHANGED <<file, session>> \/ (UNCHANGED file /\ Adopts) \/ AuthorTerminal(t)
    <3>1. CASE Request(t)
      BY <3>1 DEF Request, Connect, Retry, Poll, Join, Repair, ReadPhase, EndSession, Quiet, Memory, Files
    <3>2. CASE Progress(t)
      BY <1>3, <3>2 DEF Progress, ConnectAttached, Ready, Rollback, AuthorStopped, AuthorNone, AuthorNothing,
         AuthorRunning, AuthorLaunch, AuthorAttached, Launched, LaunchUndone, Gone, GoneStopped, Joined, Teardown,
         Returned, Farewell, Borrowed, Checked, PublishPhase, StartedUp, Ending, Quiet, Memory, Files
    <3> QED BY <3>1, <3>2
  <2>2. session => session' BY <2>1 DEF AuthorTerminal, Adopts
  <2>3. file'.registered = file.registered /\ file'.launch = file.launch
    BY <1>0, <2>1 DEF AuthorTerminal, RecordAuthoritativeFailure, StoreTypeOK, FileTypeOK
  <2> QED BY <1>0, <1>1, <2>2, <2>3, EndpointAside
<1> QED BY <1>2, <1>3

\* At the start there is no endpoint, or the one of the session.
LEMMA EndpointStarts == Init => EndpointInv
<1> SUFFICES ASSUME Init PROVE EndpointInv
  OBVIOUS
<1>0. at = [t \in Threads |-> NoRequest] /\ call = [t \in Threads |-> NoCall]
  BY DEF Init, NoSession, InSession, LaunchInit
<1>1. CASE NoSession
  <2>1. \A n \in Launches : process[n] = "none" /\ ~Alive(n) BY <1>1 DEF NoSession, LaunchInit, Alive, Up
  <2>2. InOrder
    <3>1. \A n \in Launches : process[n] # "none" <=> n <= 0 BY <2>1, SmallNumbers DEF Launches
    <3>2. 0 \in 0..MaxLaunches BY SmallNumbers
    <3> QED BY <3>1, <3>2 DEF InOrder
  <2> QED BY <2>1, <2>2 DEF EndpointInv, OneAlive, EndpointIsKnown, LaunchIsAlone, StopIsThrough, Alive
<1>2. CASE InSession
  <2>1. \A n \in Launches : /\ process[n] # "none" <=> n = 1
                            /\ Alive(n) <=> n = 1
                            /\ Up(n) <=> n = 1
    BY <1>2, SmallNumbers DEF InSession, Alive, Up, Launches
  <2>2. file.registered /\ file.launch = 1 /\ session BY <1>2 DEF InSession
  <2>3. InOrder
    <3>1. \A n \in Launches : process[n] # "none" <=> n <= 1 BY <2>1, SmallNumbers DEF Launches
    <3>2. 1 \in 0..MaxLaunches BY SmallNumbers
    <3> QED BY <3>1, <3>2 DEF InOrder
  <2>4. OneAlive /\ EndpointIsKnown BY <2>1, <2>2 DEF OneAlive, EndpointIsKnown
  <2>5. LaunchIsAlone /\ StopIsThrough
    BY <1>0 DEF LaunchIsAlone, StopIsThrough, NoRequest, NoCall, StopPlaces
  <2> QED BY <2>3, <2>4, <2>5 DEF EndpointInv
<1> QED BY <1>1, <1>2 DEF Init

\* Every step of the service keeps it; a crash may orphan an endpoint.
LEMMA EndpointSteps == RequestInv /\ EndpointInv /\ [Next \/ Settled]_vars => EndpointInv'
<1> SUFFICES ASSUME RequestInv, EndpointInv, [Next \/ Settled]_vars PROVE EndpointInv'
  OBVIOUS
<1>0. MemoryTypeOK' /\ InOrder /\ HardwareTypeOK /\ CallTypeOK /\ StoreTypeOK
  BY RoomSteps, CountsSteps, FlagsSteps, TypesKnown DEF MemoryTypeOK, EndpointInv
<1>1. ASSUME NEW t \in Threads, Request(t) \/ Progress(t), ~Launch(t) PROVE EndpointInv'
  BY <1>0, <1>1, RequestMoves, RequestEndpoint
<1>2. ASSUME NEW t \in Threads, Launch(t) PROVE EndpointInv' BY <1>2, LaunchEndpoint
<1>3. ASSUME NEW t \in Threads, Stop(t) PROVE EndpointInv' BY <1>3, StopEndpoint
<1>4. CASE Endpoint BY <1>4, EndpointEndpoint
<1>5. CASE UNCHANGED <<launchVars, at, orphan>>
  <2>1. PhasesKept BY <1>5 DEF PhasesKept, launchVars
  <2> QED BY <1>5, <2>1, EndpointAside DEF launchVars, Files, Memory, Processes
<1>6. ASSUME NEW t \in Threads, Hardware(t) PROVE UNCHANGED <<launchVars, at, orphan>>
  BY <1>6 DEF Hardware
<1>7. RelayEnds \/ SeatLost \/ Unplugged \/ Settled \/ UNCHANGED vars => UNCHANGED <<launchVars, at, orphan>>
  BY DEF RelayEnds, SeatLost, Unplugged, Settled, vars, Told
<1>8. CASE StartUp
  <2>1. UNCHANGED <<launchVars, orphan>> BY <1>8 DEF StartUp, Told
  <2>2. CASE UNCHANGED at BY <1>5, <2>1, <2>2
  <2>3. ASSUME NEW t \in Threads, Starts(t, "startup", "starting") PROVE EndpointInv'
    <3>1. \A u \in Threads : at'[u].place \in StopPlaces => at[u].place \in StopPlaces
      BY <2>3, TypesKnown DEF Starts, NoRequest, AtTypeOK, StopPlaces
    <3>2. PhasesKept BY <2>1, <3>1 DEF PhasesKept, launchVars
    <3> QED BY <2>1, <3>2, EndpointAside DEF launchVars, Files, Memory, Processes
  <2> QED BY <1>8, <2>2, <2>3 DEF StartUp
<1>9. CASE Crash
  <2>1. UNCHANGED <<file, process>> /\ popen' = 0 BY <1>9 DEF Crash, LaunchCrash, Files, Processes
  <2>2. InOrder' /\ OneAlive' BY <2>1 DEF EndpointInv, InOrder, OneAlive, Alive, Up
  <2>3. LaunchIsAlone' /\ StopIsThrough'
    BY <1>9 DEF Crash, LaunchCrash, LaunchIsAlone, StopIsThrough, NoRequest, NoCall, StopPlaces
  <2>4. ASSUME ~orphan' PROVE EndpointIsKnown'
    <3>1. ~orphan /\ \A n \in Launches : process[n] \notin {"gate", "gated"} BY <1>9, <2>4 DEF Crash
    <3>2. \A n \in Launches : n # 0 BY SmallNumbers DEF Launches
    <3>3. EndpointIsKnown BY <3>1 DEF EndpointInv
    <3> QED BY <2>1, <3>1, <3>2, <3>3 DEF EndpointIsKnown, Alive, Up
  <2> QED BY <2>2, <2>3, <2>4 DEF EndpointInv
<1> QED BY <1>1, <1>2, <1>3, <1>4, <1>5, <1>6, <1>7, <1>8, <1>9 DEF Next

-----------------------------------------------------------------------------
(* After a stop: what it has overtaken, and who ends what is left.               *)

\* A step of one thread leaves every launch in flight overtaken.
LEMMA OvertakenKept ==
    ASSUME RequestInv, NEW t \in Threads, Request(t) \/ Progress(t) \/ Hardware(t) \/ Stop(t), Moved(t),
           \A u \in Threads : Overtaken(u), stopped'
    PROVE  \A u \in Threads : Overtaken(u)'
<1> DEFINE Old == at'[t].request \in {"connect", "retry"} => call'[t].generation = "old"
<1>0. HardwareTypeOK /\ CallTypeOK /\ AtTypeOK /\ Shape(t) /\ Overtaken(t) /\ Apart(t)
  BY TypesKnown DEF RequestInv, Local, Moved
<1>1. ASSUME NEW u \in Threads \ {t} PROVE Overtaken(u)'
  BY <1>0, <1>1 DEF Apart, Overtaken
<1> SUFFICES Old
  BY <1>1 DEF Overtaken
<1>2. ASSUME at'[t].request = at[t].request, call'[t].generation = call[t].generation PROVE Old
  BY <1>0, <1>2 DEF Overtaken
<1>3. ASSUME at'[t].request \notin {"connect", "retry"} PROVE Old
  BY <1>3 DEF Overtaken
<1>4. CASE Request(t)
  <2>1. Poll(t) \/ ReadPhase(t) \/ \E r \in {"leave", "stop"} : EndSession(t, r)
    BY <1>4 DEF Request, Connect, Retry, Join, Repair
  <2>2. at'[t].request \in {"poll", "publish", "leave", "stop"}
    BY <1>0, <2>1 DEF Poll, ReadPhase, EndSession, Starts, NoRequest, AtTypeOK
  <2> QED BY <1>3, <2>2
<1>5. ASSUME Ends(t) \/ Proceeds(t) PROVE Old
  <2>1. CASE Ends(t) BY <1>0, <1>3, <2>1 DEF Ends, AtTypeOK, NoRequest
  <2>2. CASE Proceeds(t) /\ Serves(t, "join") BY <1>0, <1>3, <2>2 DEF Proceeds, Serves, AtTypeOK
  <2>3. CASE Proceeds(t) /\ ~Serves(t, "join") BY <1>0, <1>3, <2>3 DEF Proceeds, AtTypeOK, NoRequest
  <2> QED BY <1>5, <2>1, <2>2, <2>3
\* A retry has read no generation before it launches, so none is under way after a stop.
<1>6. at[t].place \in {"author", "author stop", "author none"} => at[t].request # "retry"
  BY <1>0 DEF Shape, Overtaken
<1>7. ASSUME NEW p, Goes(t, p), UNCHANGED call \/ Does(t, "cancel") \/ Does(t, "enter") PROVE Old
  <2>1. at'[t].request = at[t].request BY <1>0, <1>7 DEF Goes, AtTypeOK
  <2>2. call'[t].generation = call[t].generation BY <1>0, <1>7 DEF Does, CallTypeOK
  <2> QED BY <1>2, <2>1, <2>2
<1>8. ASSUME at[t].place \in {"author", "author none"}, ReturnsNone(t) PROVE Old
  BY <1>5, <1>6, <1>8 DEF ReturnsNone, Serves
<1>9. ASSUME Fails(t) PROVE Old BY <1>5, <1>7, <1>9 DEF Fails
<1>10. CASE Progress(t) /\ ~Launch(t)
  <2>1. CASE ConnectAttached(t) \/ Ready(t) \/ Rollback(t)
    <3>1. CASE Remembers(t, "author") /\ UNCHANGED call
      BY <1>0, <1>2, <3>1 DEF Remembers, AtTypeOK
    <3> QED BY <1>5, <1>7, <2>1, <3>1 DEF ConnectAttached, Ready, Rollback, ReleaseAndEnd
  <2>2. CASE AuthorTerminal(t) \/ AuthorStopped(t) \/ AuthorNone(t) \/ AuthorNothing(t) \/ AuthorRunning(t)
    BY <1>5, <1>7, <1>8, <1>9, <2>2 DEF AuthorTerminal, AuthorStopped, AuthorNone, AuthorNothing, AuthorRunning, Place
  <2>3. CASE AuthorLaunch(t)
    <3>1. Serves(t, "connect")
      BY <1>0, <1>6, <2>3 DEF AuthorLaunch, Place, Serves, Shape
    <3> QED BY <1>7, <2>3, <3>1 DEF AuthorLaunch
  <2>4. CASE AuthorAttached(t) \/ Launched(t) \/ LaunchUndone(t) \/ Gone(t) \/ GoneStopped(t) \/ Joined(t)
    BY <1>5, <1>7, <1>9, <2>4 DEF AuthorAttached, Launched, LaunchUndone, Gone, GoneStopped, Joined, ReleaseAndEnd
  <2>5. CASE Teardown(t) \/ Returned(t) \/ Farewell(t) \/ Checked(t) \/ PublishPhase(t) \/ StartedUp(t) \/ Ending(t)
    BY <1>5, <1>7, <2>5 DEF Teardown, Returned, Farewell, Checked, PublishPhase, StartedUp, Ending, ReleaseAndEnd
  <2>6. CASE Borrowed(t)
    <3>1. at[t].request = "repair" BY <2>6 DEF Borrowed, Serves
    <3>2. CASE at' = [at EXCEPT ![t].place = "checking", ![t].held = owned]
      BY <1>0, <1>3, <3>1, <3>2 DEF AtTypeOK
    <3> QED BY <1>5, <2>6, <3>2 DEF Borrowed
  <2> QED BY <1>10, <2>1, <2>2, <2>3, <2>4, <2>5, <2>6 DEF Progress
<1>11. CASE Launch(t)
  <2>1. ASSUME NEW p, To(t, p) PROVE call'[t].generation = call[t].generation
    BY <1>0, <2>1 DEF To, CallTypeOK
  <2>2. call'[t].generation = call[t].generation
    BY <1>0, <1>11, <2>1 DEF Launch, LaunchStep, EnterLaunch, FindRunning, FindLaunched, Start, CannotStart, Wait, Decide,
                             Deadline, Fail, RecordFailure, Released, CallTypeOK
  <2> QED BY <1>2, <1>11, <2>2 DEF Launch
<1>12. CASE Hardware(t)
  BY <1>2, <1>12 DEF Hardware, launchVars
<1>13. CASE Stop(t)
  <2>1. call'[t].generation = call[t].generation \/ call'[t].generation = "old"
    <3>1. CASE Cancel(t) BY <1>0, <3>1, CancelOutdates DEF Cancel
    <3>2. CASE \E p : To(t, p) BY <1>0, <3>2 DEF To, CallTypeOK
    <3> QED BY <1>13, <3>1, <3>2 DEF Stop, StopStep, Terminate, Forget
  <2> QED BY <1>0, <1>13, <2>1 DEF Stop, Overtaken
<1> QED BY <1>4, <1>10, <1>11, <1>12, <1>13

\* Whoever ends an endpoint is in a launch, and no other request's step moves it.
LEMMA EndersWait ==
    ASSUME RequestInv, NEW t \in Threads, call[t].phase \in {"wait", "fail"}
    PROVE  /\ at[t].place = "launch"
           /\ ~Request(t) /\ ~Stop(t) /\ (Progress(t) => Launch(t))
<1>1. at[t].place = "launch" BY DEF RequestInv, Local, Calling, Launching
<1>2. ~Request(t)
  BY <1>1 DEF Request, Connect, Retry, Poll, Join, Repair, ReadPhase, EndSession, Receives, NoRequest
<1>3. ~Stop(t) BY DEF Stop, StopStep, Cancel, Terminate, Forget, In
<1>4. ASSUME Progress(t), ~Launch(t) PROVE FALSE
  <2>1. ~Launched(t) BY DEF Launched, In
  <2> QED
    BY <1>1, <1>4, <2>1 DEF Progress, ConnectAttached, Ready, Rollback, AuthorTerminal, AuthorStopped, AuthorNone,
       AuthorNothing, AuthorRunning, AuthorLaunch, AuthorAttached, LaunchUndone, Gone, GoneStopped, Joined, Teardown,
       Returned, Farewell, Borrowed, Checked, PublishPhase, StartedUp, Ending, Place
<1> QED BY <1>1, <1>2, <1>3, <1>4

\* What no one starts and who ends it stays.
LEMMA EndedKept ==
    ASSUME Ended, \A n \in Launches : Alive(n)' => Alive(n),
           \A u \in Threads : call[u].phase \in {"wait", "fail"} =>
                call'[u].phase \in {"wait", "fail"} /\ call'[u].launch = call[u].launch
    PROVE  Ended'
<1> SUFFICES ASSUME NEW n \in Launches, Alive(n)'
             PROVE  \E t \in Threads : call'[t].phase \in {"wait", "fail"} /\ call'[t].launch = n
  BY DEF Ended
<1>1. PICK t \in Threads : call[t].phase \in {"wait", "fail"} /\ call[t].launch = n
  BY DEF Ended
<1> QED BY <1>1

\* An overtaken launch ends what it has started.
LEMMA LaunchEnds ==
    ASSUME RequestInv, EndpointInv, NEW t \in Threads, Launch(t), Moved(t), Ended, Overtaken(t), ~orphan
    PROVE  Ended'
<1>0. /\ StoreTypeOK /\ CallTypeOK /\ at[t].place = "launch" /\ call[t].generation = "old"
      /\ InOrder /\ LaunchIsAlone
  BY TypesKnown DEF EndpointInv, Launch, Place, RequestInv, Local, Shape, Overtaken
<1> DEFINE key == at[t].key
           retry == Serves(t, "retry")
<1>1. ASSUME UNCHANGED process,
             call[t].phase \in {"wait", "fail"} =>
                 call'[t].phase \in {"wait", "fail"} /\ call'[t].launch = call[t].launch
      PROVE  Ended'
  <2>1. \A n \in Launches : Alive(n)' => Alive(n) BY <1>1 DEF Alive, Up
  <2>2. ASSUME NEW u \in Threads, call[u].phase \in {"wait", "fail"}
        PROVE  call'[u].phase \in {"wait", "fail"} /\ call'[u].launch = call[u].launch
    BY <1>1, <2>2 DEF Moved, Apart
  <2> QED BY <2>1, <2>2, EndedKept
<1>2. CASE EnterLaunch(t) \/ FindRunning(t, key) \/ FindLaunched(t, key, retry) \/ CannotStart(t, key, retry, FALSE)
           \/ Decide(t) \/ RecordFailure(t, key, FALSE) \/ Released(t)
  BY <1>1, <1>2 DEF EnterLaunch, FindRunning, FindLaunched, CannotStart, MayStart, Decide, RecordFailure, Released,
                    In, Processes
<1>3. CASE Wait(t) \/ Deadline(t)
  <2>1. To(t, "fail") /\ UNCHANGED process BY <1>0, <1>3 DEF Wait, Deadline, Processes
  <2>2. call'[t].phase = "fail" /\ call'[t].launch = call[t].launch BY <1>0, <2>1 DEF To, CallTypeOK
  <2> QED BY <1>1, <2>1, <2>2
<1>4. CASE Start(t, key, retry)
  <2> DEFINE m == NextLaunch
  <2>1. m \in Launches /\ process[m] = "none" BY <1>0, <1>4, NextIsFree DEF Start
  <2>2. Nobody BY <1>4, NotRunning DEF Start, MayStart
  <2>3. \A n \in Launches \ {m} : process'[n] = process[n]
    BY <1>0, <1>4, <2>1 DEF Start, StoreTypeOK
  <2>4. \A n \in Launches : Alive(n)' => n = m BY <2>2, <2>3 DEF Nobody, Alive, Up
  <2>5. call'[t].phase = "wait" /\ call'[t].launch = m
    BY <1>0, <1>4 DEF Start, CallTypeOK
  <2> QED BY <2>4, <2>5 DEF Ended
<1>5. CASE Fail(t)
  <2>1. call[t].phase = "fail" /\ call[t].launch \in Launches /\ process[call[t].launch] # "none"
    BY <1>5 DEF Fail, In, RequestInv, Local, Calling
  <2>2. \A n \in Launches : Alive(n)' => Alive(n) /\ n # call[t].launch
    BY <1>0, <1>5, <2>1, TerminatedKnown DEF Fail
  <2>3. \A n \in Launches : ~Alive(n)' BY <1>0, <2>1, <2>2 DEF LaunchIsAlone
  <2> QED BY <2>3 DEF Ended
<1> QED BY <1>2, <1>3, <1>4, <1>5 DEF Launch, LaunchStep

\* A stop starts nothing and takes no endpoint from the launch that ends it.
LEMMA StopEnds ==
    ASSUME RequestInv, EndpointInv, NEW t \in Threads, Stop(t), Moved(t), Ended
    PROVE  Ended'
<1>0. StoreTypeOK /\ call[t].phase \in Stopping
  BY TypesKnown DEF Stop, StopStep, Cancel, Terminate, Forget, In, Stopping
<1>1. ASSUME NEW u \in Threads, call[u].phase \in {"wait", "fail"}
      PROVE  call'[u].phase \in {"wait", "fail"} /\ call'[u].launch = call[u].launch
  BY <1>0, <1>1 DEF Moved, Apart, Stopping
<1>2. \A n \in Launches : Alive(n)' => Alive(n)
  <2>1. CASE UNCHANGED process BY <2>1 DEF Alive, Up
  <2> DEFINE ns == {n \in Launches : Alive(n) /\ (n = popen \/ (Verified /\ n = file.launch))}
  <2>2. CASE Terminated(ns)
    <3>1. \A n \in ns : process[n] # "none" BY DEF Alive, Up
    <3> QED BY <1>0, <2>2, <3>1, TerminatedKnown
  <2>3. UNCHANGED process \/ Terminated(ns) BY DEF Stop, StopStep, Cancel, Terminate, Forget, Processes
  <2> QED BY <2>1, <2>2, <2>3
<1> QED BY <1>1, <1>2, EndedKept

-----------------------------------------------------------------------------
(* Who tells what: the flags change in few places.                               *)

\* Among requests only a teardown makes a stop, and none tells of what is left.
LEMMA RequestsTell ==
    ASSUME NEW t \in Threads, Request(t) \/ Progress(t)
    PROVE  UNCHANGED <<leftover, orphan>> /\ (stopped' => stopped \/ (Teardown(t) /\ In(t, "stopped")))
<1>1. CASE Request(t)
  BY <1>1 DEF Request, Connect, Retry, Poll, Join, Repair, ReadPhase, EndSession, Told
<1>2. CASE Progress(t) /\ ~Teardown(t)
  <2>1. UNCHANGED Told
    BY <1>2 DEF Progress, ConnectAttached, Ready, Rollback, AuthorTerminal, AuthorStopped, AuthorNone, AuthorNothing,
       AuthorRunning, AuthorLaunch, AuthorAttached, Launch, Launched, LaunchUndone, Gone, GoneStopped, Joined,
       Returned, Farewell, Borrowed, Checked, PublishPhase, StartedUp, Ending
  <2> QED BY <2>1 DEF Told
<1>3. CASE Teardown(t)
  <2>1. UNCHANGED <<leftover, orphan>> /\ (In(t, "stopped") \/ UNCHANGED stopped)
    BY <1>3 DEF Teardown
  <2> QED BY <1>3, <2>1
<1> QED BY <1>1, <1>2, <1>3

\* What is no request makes no stop; only the routines tell of what is left.
LEMMA OthersTell ==
    ASSUME [Next \/ Settled]_vars, ~Crash, \A t \in Threads : ~Request(t) /\ ~Progress(t)
    PROVE  UNCHANGED <<stopped, orphan>> /\ ((\A t \in Threads : ~Hardware(t)) => UNCHANGED leftover)
BY DEF Next, Hardware, Stop, Endpoint, RelayEnds, SeatLost, Unplugged, StartUp, Settled, vars, Told

\* Only a crash orphans an endpoint.
LEMMA OrphansOnlyByCrash ==
    ASSUME [Next \/ Settled]_vars PROVE Crash \/ UNCHANGED orphan
BY RequestsTell, OthersTell

\* Only a teardown whose endpoint has stopped makes a stop.
LEMMA StopsOnlyByTeardown ==
    ASSUME [Next \/ Settled]_vars, ~stopped, stopped' PROVE \E t \in Threads : Teardown(t) /\ In(t, "stopped")
BY RequestsTell, OthersTell DEF Crash

\* A request, a launch aside, changes no process.
LEMMA ProcessesKept ==
    ASSUME NEW t \in Threads, Request(t) \/ Progress(t), ~Launch(t) PROVE UNCHANGED process
<1>1. CASE Request(t)
  BY <1>1 DEF Request, Connect, Retry, Poll, Join, Repair, ReadPhase, EndSession, Quiet, Processes
<1>2. CASE Progress(t)
  BY <1>2 DEF Progress, ConnectAttached, Ready, Rollback, AuthorTerminal, AuthorStopped, AuthorNone, AuthorNothing,
     AuthorRunning, AuthorLaunch, AuthorAttached, Launched, LaunchUndone, Gone, GoneStopped, Joined, Teardown,
     Returned, Farewell, Borrowed, Checked, PublishPhase, StartedUp, Ending, Quiet, Processes
<1> QED BY <1>1, <1>2

\* After a stop every endpoint has a launch that will end it.
LEMMA EndedSteps ==
    ASSUME RequestInv, EndpointInv, StoppedInv, [Next \/ Settled]_vars, MemoryTypeOK', stopped', ~orphan'
    PROVE  Ended'
<1>0. CallTypeOK /\ StoreTypeOK /\ InOrder BY TypesKnown DEF EndpointInv
<1>1. ~orphan
  <2>1. CASE Crash BY <2>1 DEF Crash
  <2>2. CASE UNCHANGED orphan BY <2>2
  <2> QED BY <2>1, <2>2, OrphansOnlyByCrash
<1>2. ASSUME UNCHANGED <<process, call>>, Ended PROVE Ended'
  <2>1. \A n \in Launches : Alive(n)' => Alive(n) BY <1>2 DEF Alive, Up
  <2> QED BY <1>2, <2>1, EndedKept
<1>3. CASE ~stopped
  <2>1. PICK t \in Threads : Teardown(t) /\ In(t, "stopped") BY <1>3, StopsOnlyByTeardown
  <2>2. Nobody
    BY <1>1, <2>1 DEF Nobody, EndpointInv, StopIsThrough, StopPlaces, Teardown, Place, In
  <2>3. \A n \in Launches : ~Alive(n)' BY <2>1, <2>2 DEF Teardown, Processes, Nobody, Alive, Up
  <2> QED BY <2>3 DEF Ended
<1>4. CASE stopped
  <2>0. Ended /\ \A u \in Threads : Overtaken(u) BY <1>1, <1>4 DEF StoppedInv
  <2>1. ASSUME NEW t \in Threads, Request(t) \/ Progress(t), ~Launch(t) PROVE Ended'
    <3>1. Moved(t) /\ UNCHANGED process BY <1>0, <2>1, RequestMoves, ProcessesKept
    <3>2. \A n \in Launches : Alive(n)' => Alive(n) BY <3>1 DEF Alive, Up
    <3>3. ASSUME NEW u \in Threads, call[u].phase \in {"wait", "fail"}
          PROVE  call'[u].phase \in {"wait", "fail"} /\ call'[u].launch = call[u].launch
      <4>1. u # t BY <2>1, <3>3, EndersWait
      <4> QED BY <3>1, <3>3, <4>1 DEF Moved, Apart
    <3> QED BY <2>0, <3>2, <3>3, EndedKept
  <2>2. ASSUME NEW t \in Threads, Launch(t) PROVE Ended'
    BY <1>0, <1>1, <2>0, <2>2, LaunchMoves, LaunchEnds
  <2>3. ASSUME NEW t \in Threads, Stop(t) PROVE Ended'
    BY <2>0, <2>3, StopMoves, StopEnds
  <2>4. CASE Endpoint
    <3>1. \A n \in Launches : Alive(n)' => Alive(n)
      BY <1>0, <2>4 DEF Endpoint, EndpointStep, Gate, Register, Refresh, Finish, Exit, Becomes, Processes, StoreTypeOK,
                        Alive, Up
    <3>2. UNCHANGED call BY <2>4 DEF Endpoint, EndpointStep, Gate, Register, Refresh, Finish, Exit
    <3> QED BY <2>0, <3>1, <3>2, EndedKept
  <2>5. ASSUME NEW t \in Threads, Hardware(t) PROVE Ended'
    BY <1>2, <2>0, <2>5 DEF Hardware, launchVars, Processes
  <2>6. CASE RelayEnds \/ SeatLost \/ Unplugged \/ StartUp \/ Settled \/ UNCHANGED vars
    BY <1>2, <2>0, <2>6 DEF RelayEnds, SeatLost, Unplugged, StartUp, Settled, vars, launchVars, Processes
  <2>7. CASE Crash BY <2>7 DEF Crash
  <2> QED BY <2>1, <2>2, <2>3, <2>4, <2>5, <2>6, <2>7 DEF Next
<1> QED BY <1>3, <1>4

-----------------------------------------------------------------------------
(* Who returns the adapter after a stop.                                         *)

\* In most of its places a request is done with the adapter.
LEMMA NotReleasing ==
    ASSUME RequestInv, NEW t \in Threads,
           at[t].place \notin {"launch", "checking"},
           step[t] \in Resting \/ at[t].place \notin ReleasePlaces \cup AttachPlaces,
           step[t] # "ok" \/ at[t].place \notin AttachPlaces
    PROVE  ~Releases(t)
<1>1. step[t] \in Resting BY RestsElsewhere
<1> QED BY <1>1 DEF Releases

\* A request that has called a routine will hear of the adapter.
LEMMA CalledReleases ==
    ASSUME HardwareTypeOK, NEW t \in Threads, NEW r, Calls(t, r) PROVE Releases(t)'
BY DEF HardwareTypeOK, Calls, Releases, Resting

\* A routine that ends without an answer of failure has attached for its request or has
\* returned the adapter.
LEMMA HardwareReleases ==
    ASSUME RequestInv, HardwareInv, NEW t \in Threads, Hardware(t), owned', ~leftover',
           owned /\ ~leftover => \E u \in Threads : Releases(u)
    PROVE  \E u \in Threads : Releases(u)'
<1>0. /\ HardwareTypeOK /\ Local(t) /\ UNCHANGED <<at, call>>
      /\ step'[t] # "failed"
  BY TypesKnown DEF RequestInv, Hardware, launchVars
<1>1. CASE step'[t] \notin Resting BY <1>1 DEF Releases
<1>2. CASE step'[t] \in Resting
  <2>1. step'[t] = "ok"
    BY <1>0, <1>2 DEF Hardware, HardwareStep, EnterAttach, Record, Inspect, Issue, Enumerate, EnterRelease, Quiesce,
       Detach, Absent, GivesUp, Moves, Leaves, Returns, Resting, HardwareTypeOK
  <2>2. Enumerate(t)
    <3>1. ~Absent(t) BY <1>0, <2>1 DEF Absent, Leaves, HardwareTypeOK
    <3>2. ~EnterRelease(t) BY <1>0, <2>1 DEF EnterRelease, HardwareTypeOK
    <3> QED
      BY <1>0, <2>1, <3>1, <3>2 DEF Hardware, HardwareStep, EnterAttach, Record, Inspect, Issue, Quiesce,
         Detach, GivesUp, Moves, Leaves, HardwareTypeOK
  <2>3. step[t] = "enumerate" /\ routine[t] # "release"
    BY <2>2 DEF Enumerate, HardwareInv, OnlyAttachAttaches
  <2>4. at[t].place \in AttachPlaces BY <1>0, <2>3 DEF Local, Busy, Resting
  <2> QED BY <1>0, <2>1, <2>4 DEF Releases
<1> QED BY <1>1, <1>2

\* While a stop is final and a launch refused, no endpoint runs.
LEMMA RefusedAlone ==
    ASSUME RequestInv, Ended, NEW t \in Threads, at[t].place = "launch", call[t].phase = "refused",
           FileIsNamed
    PROVE  ~Running
<1>1. ASSUME NEW n \in Launches, Alive(n) PROVE FALSE
  <2>1. PICK u \in Threads : call[u].phase \in {"wait", "fail"} BY <1>1 DEF Ended
  <2>2. at[u].place = "launch" BY <2>1, EndersWait
  <2>3. u = t BY <2>2, OneLaunch
  <2> QED BY <2>1, <2>3
<1>2. popen # 0 => popen \in Launches
  BY TypesKnown, SmallNumbers DEF StoreTypeOK, Launches
<1> QED BY <1>1, <1>2 DEF Running, Verified, Alive, FileIsNamed

\* The file names no process that was never launched.
LEMMA FileSteps == RequestInv /\ FileIsNamed /\ [Next \/ Settled]_vars => FileIsNamed'
<1> SUFFICES ASSUME RequestInv, FileIsNamed, [Next \/ Settled]_vars PROVE FileIsNamed'
  OBVIOUS
<1>0. StoreTypeOK BY TypesKnown
<1>1. CASE UNCHANGED file BY <1>1 DEF FileIsNamed
<1>2. ASSUME NEW n, NEW key, NEW s, Says(n, key, s, FALSE) PROVE FileIsNamed' BY <1>2 DEF Says, FileIsNamed
<1>3. ASSUME NEW n \in Launches, NEW s, Reports(n, s) PROVE FileIsNamed' BY <1>3 DEF Reports, Says, FileIsNamed
<1>4. CASE file' = [file EXCEPT !.state = "failed"] \/ file' = NoFile
  BY <1>0, <1>4 DEF StoreTypeOK, FileTypeOK, NoFile, FileIsNamed
<1>5. ASSUME NEW ns \in SUBSET Launches, Terminated(ns) PROVE FileIsNamed'
  BY <1>1, <1>3, <1>5 DEF Terminated
<1>6. ASSUME NEW t \in Threads, Request(t) \/ Progress(t), ~Launch(t) PROVE FileIsNamed'
  <2>1. UNCHANGED file \/ AuthorTerminal(t) \/ Teardown(t)
    <3>1. CASE Request(t)
      BY <3>1 DEF Request, Connect, Retry, Poll, Join, Repair, ReadPhase, EndSession, Quiet, Files
    <3>2. CASE Progress(t)
      BY <1>6, <3>2 DEF Progress, ConnectAttached, Ready, Rollback, AuthorStopped, AuthorNone, AuthorNothing,
         AuthorRunning, AuthorLaunch, AuthorAttached, Launched, LaunchUndone, Gone, GoneStopped, Joined,
         Returned, Farewell, Borrowed, Checked, PublishPhase, StartedUp, Ending, Quiet, Files
    <3> QED BY <1>6, <3>1, <3>2
  <2> QED BY <1>1, <1>4, <2>1 DEF AuthorTerminal, RecordAuthoritativeFailure, Teardown, Files
<1>7. ASSUME NEW t \in Threads, Launch(t) PROVE FileIsNamed'
  <2> DEFINE key == at[t].key
             retry == Serves(t, "retry")
  <2>1. CASE EnterLaunch(t) \/ FindRunning(t, key) \/ FindLaunched(t, key, retry) \/ Wait(t) \/ Decide(t)
             \/ Deadline(t) \/ Released(t)
    BY <1>1, <1>4, <2>1 DEF EnterLaunch, FindRunning, FindLaunched, Wait, Decide, Deadline, Released, Files
  <2>2. CASE Start(t, key, retry) \/ CannotStart(t, key, retry, FALSE) \/ RecordFailure(t, key, FALSE)
    BY <1>1, <1>2, <2>2 DEF Start, CannotStart, RecordFailure
  <2>3. CASE Fail(t)
    <3>1. call[t].launch \in Launches BY <2>3 DEF Fail, In, RequestInv, Local, Calling
    <3> QED BY <1>5, <2>3, <3>1 DEF Fail
  <2> QED BY <1>7, <2>1, <2>2, <2>3 DEF Launch, LaunchStep
<1>8. ASSUME NEW t \in Threads, Stop(t) PROVE FileIsNamed'
  BY <1>1, <1>5, <1>8 DEF Stop, StopStep, Cancel, Terminate, Forget, Files
<1>9. ASSUME NEW t \in Threads, Hardware(t) PROVE FileIsNamed'
  BY <1>1, <1>9 DEF Hardware, launchVars, Files
<1>10. CASE Endpoint
  BY <1>1, <1>3, <1>10 DEF Endpoint, EndpointStep, Gate, Register, Refresh, Finish, Exit, Cleanup
<1>11. CASE RelayEnds \/ SeatLost \/ Unplugged \/ StartUp \/ Crash \/ Settled \/ UNCHANGED vars
  BY <1>1, <1>11 DEF RelayEnds, SeatLost, Unplugged, StartUp, Crash, LaunchCrash, Settled, vars, launchVars, Files
<1> QED BY <1>6, <1>7, <1>8, <1>9, <1>10, <1>11 DEF Next

\* Only the routines of the adapter change who owns it.
LEMMA OwnedKept ==
    ASSUME NEW t \in Threads, Request(t) \/ Progress(t) \/ Stop(t) PROVE UNCHANGED owned
<1>1. ASSUME \/ Ends(t) \/ Proceeds(t) \/ Forgets(t) \/ UNCHANGED hardwareVars \/ ReleaseAndEnd(t)
             \/ \E r : Calls(t, r)
      PROVE  UNCHANGED owned
  BY <1>1 DEF Ends, Proceeds, Forgets, ReleaseAndEnd, Calls, hardwareVars
<1>2. Fails(t) \/ ReturnsNone(t) => UNCHANGED owned
  BY <1>1 DEF Fails, ReturnsNone
<1>3. CASE Request(t)
  BY <1>1, <1>3 DEF Request, Connect, Retry, Poll, Join, Repair, ReadPhase, EndSession
<1>4. CASE Progress(t) /\ ~Launch(t)
  BY <1>1, <1>2, <1>4 DEF Progress, ConnectAttached, Ready, Rollback, AuthorTerminal, AuthorStopped, AuthorNone,
     AuthorNothing, AuthorRunning, AuthorLaunch, AuthorAttached, Launched, LaunchUndone, Gone, GoneStopped, Joined,
     Teardown, Returned, Farewell, Borrowed, Checked, PublishPhase, StartedUp, Ending
<1>5. CASE Launch(t)
  BY <1>1, <1>5 DEF Launch, LaunchStep, EnterLaunch, FindRunning, FindLaunched, Start, CannotStart, Wait, Decide,
     Deadline, Fail, RecordFailure, Released
<1>6. CASE Stop(t) BY <1>1, <1>6 DEF Stop, StopStep, Cancel, Terminate, Forget
<1> QED BY <1>3, <1>4, <1>5, <1>6

\* An overtaken launch that has the adapter gives it back,
LEMMA LaunchReleases ==
    ASSUME RequestInv, NEW t \in Threads, Launch(t), Overtaken(t), Releases(t)
    PROVE  Releases(t)'
<1>0. /\ HardwareTypeOK /\ CallTypeOK /\ at[t].place = "launch" /\ call[t].generation = "old" /\ UNCHANGED at
  BY TypesKnown DEF Launch, Place, RequestInv, Local, Shape, Overtaken
<1> DEFINE key == at[t].key
           retry == Serves(t, "retry")
<1>1. call[t].phase \in {"enter", "refused", "releasing"}
  BY <1>0, RestsInLaunch DEF Releases, AttachPlaces
<1>2. ASSUME To(t, "refused") PROVE Releases(t)'
  BY <1>0, <1>2 DEF To, CallTypeOK, Releases
<1>3. EnterLaunch(t) \/ Released(t)
  BY <1>1 DEF Launch, LaunchStep, FindRunning, FindLaunched, Start, CannotStart, MayStart, Wait, Decide, Deadline,
              Fail, RecordFailure, In
<1> QED BY <1>0, <1>2, <1>3 DEF EnterLaunch, Released

\* and so does every other request that has it.
LEMMA ProgressReleases ==
    ASSUME RequestInv, FileIsNamed, NEW t \in Threads, Request(t) \/ Progress(t), ~Launch(t),
           Overtaken(t), Ended, owned, Releases(t), stopped'
    PROVE  Releases(t)'
<1>0. HardwareTypeOK /\ AtTypeOK /\ CallTypeOK /\ Shape(t) /\ Local(t)
  BY TypesKnown DEF RequestInv, Local
<1>1. \/ at[t].place \in {"launch", "checking"}
      \/ step[t] \notin Resting /\ at[t].place \in ReleasePlaces
      \/ step[t] \in Resting => step[t] = "ok" /\ at[t].place \in AttachPlaces
  BY NotReleasing
<1>2. \A r : Calls(t, r) => Releases(t)' BY <1>0, CalledReleases
<1>3. ASSUME ReleaseAndEnd(t) PROVE Releases(t)' BY <1>2, <1>3 DEF ReleaseAndEnd
<1>4. ASSUME Request(t) PROVE FALSE
  <2>1. at[t].place = "idle"
    BY <1>4 DEF Request, Connect, Retry, Poll, Join, Repair, ReadPhase, EndSession, Receives, NoRequest
  <2> QED BY <2>1, NotReleasing DEF ReleasePlaces, AttachPlaces
<1>5. ASSUME at[t].place \in {"ready", "rollback", "author", "author stop", "gone", "gone stop", "joining", "teardown",
                              "farewell", "publishing"}
      PROVE  FALSE
  BY <1>5, NotReleasing DEF ReleasePlaces, AttachPlaces
<1>6. ASSUME at[t].place \in {"author none", "launch undo", "returning", "starting", "ending"},
             step[t] \in {"ok", "failed"}
      PROVE  FALSE
  BY <1>6, NotReleasing DEF ReleasePlaces, AttachPlaces, Resting
<1>7. ASSUME at[t].place \in AttachPlaces, step[t] = "failed" PROVE FALSE
  BY <1>7, NotReleasing DEF AttachPlaces, Resting
<1>8. CASE ConnectAttached(t)
  <2>1. at[t].place = "attaching" /\ call[t].generation = "old"
    BY <1>8 DEF ConnectAttached, Serves, Place, Overtaken
  <2> QED BY <1>3, <1>7, <1>8, <2>1 DEF ConnectAttached, AttachPlaces
<1>9. CASE AuthorAttached(t)
  <2>1. at[t].place = "author attach" BY <1>9 DEF AuthorAttached, Place
  <2>2. Goes(t, "launch") /\ Does(t, "enter") BY <1>7, <1>9, <2>1 DEF AuthorAttached, AttachPlaces
  <2>3. at'[t].place = "launch" /\ call'[t].phase = "enter" BY <1>0, <2>2 DEF Goes, Does, AtTypeOK, CallTypeOK
  <2> QED BY <2>3 DEF Releases
<1>10. CASE Launched(t)
  <2>1. at[t].place = "launch" BY <1>10 DEF Launched, Place
  <2>2. CASE In(t, "started")
    BY <2>1, <2>2, RestsInLaunch DEF In, Releases, AttachPlaces
  <2>3. CASE In(t, "refused")
    BY <1>2, <1>10, <2>1, <2>3, RefusedAlone DEF Launched, In
  <2> QED BY <1>10, <2>2, <2>3 DEF Launched
<1>11. CASE Borrowed(t)
  <2>1. at[t].place = "borrowing" BY <1>11 DEF Borrowed, Place
  <2>2. at' = [at EXCEPT ![t].place = "checking", ![t].held = owned]
    BY <1>7, <1>11, <2>1 DEF Borrowed, AttachPlaces
  <2>3. at'[t].place = "checking" /\ at'[t].held BY <1>0, <2>2 DEF AtTypeOK
  <2> QED BY <2>3 DEF Releases
<1>12. CASE Checked(t)
  <2>1. at[t].place = "checking" BY <1>12 DEF Checked, Place
  <2>2. at[t].held
    BY <2>1, RestsElsewhere DEF Releases, ReleasePlaces, AttachPlaces
  <2> QED BY <1>3, <1>12, <2>2 DEF Checked
<1>13. CASE Ready(t) \/ Rollback(t) \/ AuthorTerminal(t) \/ AuthorStopped(t) \/ AuthorNothing(t) \/ AuthorRunning(t)
            \/ AuthorLaunch(t) \/ Gone(t) \/ GoneStopped(t) \/ Joined(t) \/ Teardown(t) \/ Farewell(t) \/ PublishPhase(t)
  BY <1>5, <1>13 DEF Ready, Rollback, AuthorTerminal, AuthorStopped, AuthorNothing, AuthorRunning, AuthorLaunch, Gone,
     GoneStopped, Joined, Teardown, Farewell, PublishPhase, Place
<1>14. CASE AuthorNone(t) \/ LaunchUndone(t) \/ Returned(t) \/ StartedUp(t) \/ Ending(t)
  BY <1>6, <1>14 DEF AuthorNone, LaunchUndone, Returned, StartedUp, Ending, Place
<1> QED BY <1>4, <1>8, <1>9, <1>10, <1>11, <1>12, <1>13, <1>14 DEF Progress

\* After a stop an adapter on record, of which no failure was told, has a request that will release it.
LEMMA ReleasesSteps ==
    ASSUME RequestInv, HardwareInv, EndpointInv, FileIsNamed, StoppedInv, [Next \/ Settled]_vars, MemoryTypeOK',
           stopped', ~orphan', owned', ~leftover'
    PROVE  \E t \in Threads : Releases(t)'
<1>0. HardwareTypeOK /\ AtTypeOK /\ CallTypeOK /\ InOrder BY TypesKnown DEF EndpointInv
<1>1. ~Crash /\ ~orphan
  <2>1. ~Crash BY DEF Crash
  <2> QED BY <2>1, OrphansOnlyByCrash
<1>2. CASE ~stopped
  <2>1. PICK t \in Threads : Teardown(t) /\ In(t, "stopped") BY <1>2, StopsOnlyByTeardown
  <2>2. Calls(t, "release") BY <2>1 DEF Teardown, In
  <2> QED BY <1>0, <2>2, CalledReleases
<1>3. CASE stopped
  <2>0. /\ \A u \in Threads : Overtaken(u)
        /\ Ended
        /\ owned /\ ~leftover => \E t \in Threads : Releases(t)
    BY <1>1, <1>3 DEF StoppedInv
  <2>1. ASSUME NEW t \in Threads, Hardware(t) PROVE \E u \in Threads : Releases(u)'
    BY <2>0, <2>1, HardwareReleases
  <2>2. ASSUME NEW t \in Threads, Request(t) \/ Progress(t) \/ Stop(t) PROVE \E u \in Threads : Releases(u)'
    <3>1. owned /\ ~leftover
      <4>1. leftover' = leftover BY <2>2, RequestsTell DEF Stop, Told
      <4>2. owned' = owned BY <2>2, OwnedKept
      <4> QED BY <4>1, <4>2
    <3>2. PICK u \in Threads : Releases(u) BY <2>0, <3>1
    <3>3. Moved(t) BY <1>0, <2>2, RequestMoves, LaunchMoves, StopMoves
    <3>4. CASE u # t BY <3>2, <3>3, <3>4 DEF Moved, Apart, Releases
    <3>5. CASE u = t
      <4>1. CASE Launch(t) BY <2>0, <3>2, <3>5, <4>1, LaunchReleases
      <4>2. CASE (Request(t) \/ Progress(t)) /\ ~Launch(t)
        BY <2>0, <3>1, <3>2, <3>5, <4>2, ProgressReleases
      <4>3. CASE Stop(t)
        <5>1. call[t].phase \in Stopping
          BY <4>3 DEF Stop, StopStep, Cancel, Terminate, Forget, In, Stopping
        <5>2. UNCHANGED <<at, step>> BY <4>3 DEF Stop, StopStep, Cancel, Terminate, Forget, hardwareVars
        <5>3. at[t].place \in StopPlaces BY <5>1 DEF RequestInv, Local, Calling
        <5> QED BY <3>2, <3>5, <5>2, <5>3 DEF Releases, StopPlaces
      <4> QED BY <2>2, <4>1, <4>2, <4>3
    <3> QED BY <3>4, <3>5
  <2>3. ASSUME UNCHANGED <<at, call, step, owned, leftover>> PROVE \E u \in Threads : Releases(u)'
    BY <2>0, <2>3 DEF Releases
  <2>4. CASE Endpoint \/ RelayEnds \/ SeatLost \/ Unplugged \/ Settled \/ UNCHANGED vars
    BY <2>3, <2>4 DEF Endpoint, EndpointStep, Gate, Register, Refresh, Finish, Exit, RelayEnds, SeatLost, Unplugged,
       Unplug, Settled, vars, hardwareVars, launchVars, Told
  <2>5. CASE StartUp
    <3>1. CASE UNCHANGED <<at, hardwareVars>>
      BY <2>3, <2>5, <3>1 DEF StartUp, launchVars, hardwareVars, Told
    <3>2. CASE \E t \in Threads : Calls(t, "release") BY <1>0, <3>2, CalledReleases
    <3> QED BY <2>5, <3>1, <3>2 DEF StartUp
  <2> QED BY <1>1, <2>1, <2>2, <2>4, <2>5 DEF Next
<1> QED BY <1>2, <1>3

\* Who clears the credentials.
LEMMA CredentialsCleared ==
    ASSUME [Next \/ Settled]_vars, authority, ~authority'
    PROVE  \E t \in Threads : Gone(t) \/ GoneStopped(t) \/ Farewell(t)
<1>1. ASSUME NEW t \in Threads, Request(t) PROVE UNCHANGED authority
  BY <1>1 DEF Request, Connect, Retry, Poll, Join, Repair, ReadPhase, EndSession, Room
<1>2. ASSUME NEW t \in Threads, Progress(t), ~Gone(t), ~GoneStopped(t), ~Farewell(t), ~Joined(t)
      PROVE  UNCHANGED authority
  BY <1>2 DEF Progress, ConnectAttached, Ready, Rollback, AuthorTerminal, AuthorStopped, AuthorNone, AuthorNothing,
     AuthorRunning, AuthorLaunch, AuthorAttached, Launch, Launched, LaunchUndone, Teardown, Returned, Borrowed,
     Checked, PublishPhase, StartedUp, Ending, Room
<1>3. ASSUME NEW t \in Threads, Joined(t) PROVE FALSE
  BY <1>3 DEF Joined, SaveAuthority, Room
<1>4. ASSUME NEW t \in Threads, Hardware(t) \/ Stop(t) PROVE FALSE
  BY <1>4 DEF Hardware, Stop, Room
<1> QED
  BY <1>1, <1>2, <1>3, <1>4 DEF Next, Endpoint, RelayEnds, SeatLost, Unplugged, Crash, StartUp, Settled, vars, Room

\* What a stop leaves, once it is through, is overtaken launches, and they end it.
LEMMA OvertakenSteps ==
    ASSUME RequestInv, InOrder, StoppedInv, [Next \/ Settled]_vars, MemoryTypeOK', stopped'
    PROVE  \A u \in Threads : Overtaken(u)'
<1>0. AtTypeOK BY TypesKnown
<1>1. \A u \in Threads : Overtaken(u)
  <2>1. CASE stopped BY <2>1 DEF StoppedInv
  <2>2. CASE ~stopped
    <3>1. PICK t \in Threads : Teardown(t) /\ In(t, "stopped") BY <2>2, StopsOnlyByTeardown
    <3> QED BY <3>1 DEF Teardown, In
  <2> QED BY <2>1, <2>2
<1>2. ASSUME NEW t \in Threads, Request(t) \/ Progress(t) \/ Hardware(t) \/ Stop(t)
      PROVE  \A u \in Threads : Overtaken(u)'
  <2>1. Moved(t) BY <1>2, RequestMoves, LaunchMoves, HardwareMoves, StopMoves
  <2> QED BY <1>1, <1>2, <2>1, OvertakenKept
<1>3. CASE UNCHANGED <<at, call>> BY <1>1, <1>3 DEF Overtaken
<1>4. CASE Endpoint \/ RelayEnds \/ SeatLost \/ Unplugged \/ Settled \/ UNCHANGED vars
  BY <1>3, <1>4 DEF Endpoint, EndpointStep, Gate, Register, Refresh, Finish, Exit, RelayEnds, SeatLost, Unplugged,
     Settled, vars, launchVars
<1>5. CASE StartUp
  <2>1. UNCHANGED call BY <1>5 DEF StartUp, launchVars
  <2>2. CASE UNCHANGED at BY <1>3, <2>1, <2>2
  <2>3. ASSUME NEW t \in Threads, Starts(t, "startup", "starting") PROVE \A u \in Threads : Overtaken(u)'
    <3>1. at'[t].request = "startup" /\ \A u \in Threads \ {t} : at'[u] = at[u]
      BY <1>0, <2>3 DEF Starts, NoRequest, AtTypeOK
    <3> QED BY <1>1, <2>1, <3>1 DEF Overtaken
  <2> QED BY <1>5, <2>2, <2>3 DEF StartUp
<1>6. ~Crash BY DEF Crash
<1> QED BY <1>2, <1>4, <1>5, <1>6 DEF Next

-----------------------------------------------------------------------------
(* The invariant, and what follows.                                              *)

\* The invariant holds at the start,
LEMMA RuntimeStarts == Init => RuntimeInv
<1> SUFFICES ASSUME Init PROVE RuntimeInv
  OBVIOUS
<1>1. RequestInv /\ EndpointInv BY RequestsStart, EndpointStarts
<1>2. HardwareInv
  <2>1. CASE NoSession BY <2>1, HardwareStarts DEF NoSession
  <2>2. CASE InSession
    BY <2>2 DEF InSession, HardwareInv, HardwareTypeOK, LockIsHeld, RecordedWhileUsed, AdapterIsRecorded,
       RecordMeansOurs, OursIsAttached, OnlyAttachAttaches, Locked, Resting, Routines
  <2> QED BY <2>1, <2>2 DEF Init
<1>3. FileIsNamed
  <2>1. CASE NoSession BY <2>1 DEF NoSession, LaunchInit, NoFile, FileIsNamed
  <2>2. CASE InSession BY <2>2, SmallNumbers DEF InSession, FileIsNamed, Launches
  <2> QED BY <2>1, <2>2 DEF Init
<1>4. StoppedInv BY DEF Init, StoppedInv
<1> QED BY <1>1, <1>2, <1>3, <1>4 DEF RuntimeInv

\* and every step of the service keeps it.
LEMMA RuntimeSteps == RuntimeInv /\ [Next \/ Settled]_vars => RuntimeInv'
<1> SUFFICES ASSUME RuntimeInv, [Next \/ Settled]_vars PROVE RuntimeInv'
  OBVIOUS
<1> USE DEF RuntimeInv
<1>1. HardwareInv' BY RequestsUseHardware, HardwareSteps
<1>2. RequestInv' BY <1>1, RequestSteps DEF HardwareInv, EndpointInv
<1>3. EndpointInv' BY EndpointSteps
<1>4. FileIsNamed' BY FileSteps
<1>5. MemoryTypeOK' BY RoomSteps, CountsSteps, FlagsSteps DEF MemoryTypeOK
<1>6. StoppedInv'
  BY <1>5, OvertakenSteps, EndedSteps, ReleasesSteps DEF StoppedInv, EndpointInv
<1> QED BY <1>1, <1>2, <1>3, <1>4, <1>6

\* The invariant holds whatever requests, faults, crashes and restarts come in whatever order.
THEOREM RuntimeInvariant == Spec => []RuntimeInv
BY RuntimeStarts, RuntimeSteps, PTL DEF Spec

\* When every request has been answered, nobody is left to end an endpoint or to return the
\* adapter, so neither is left to be ended or returned.
LEMMA NothingIsLeft == RuntimeInv => StopIsFinal
<1> SUFFICES ASSUME RuntimeInv, AtRest, stopped, ~orphan PROVE SessionIsOver
  BY DEF StopIsFinal
<1>1. /\ RequestInv /\ Ended
      /\ owned /\ ~leftover => \E t \in Threads : Releases(t)
  BY DEF RuntimeInv, StoppedInv
<1>2. \A t \in Threads : at[t].place = "idle" BY DEF AtRest, NoRequest
<1>3. ASSUME NEW n \in Launches, Up(n) PROVE FALSE
  <2>1. PICK t \in Threads : call[t].phase \in {"wait", "fail"} BY <1>1, <1>3 DEF Ended, Alive
  <2> QED BY <1>1, <1>2, <2>1, EndersWait
<1>4. \A t \in Threads : ~Releases(t)
  BY <1>1, <1>2, NotReleasing DEF ReleasePlaces, AttachPlaces
<1> QED BY <1>1, <1>3, <1>4 DEF SessionIsOver

\* A stop is final: once it was answered, and the requests in flight with it, no endpoint
\* runs and the adapter is back or reported (end_local_session, launch_was_canceled).
THEOREM RuntimeConsistent == Spec => []RuntimeIsConsistent
<1>1. RuntimeInv => RuntimeIsConsistent
  BY NothingIsLeft DEF RuntimeInv, RequestInv, RuntimeIsConsistent
<1> QED BY <1>1, RuntimeInvariant, PTL

\* The whole service, not only its routines, leaves an adapter it did not attach alone and
\* has on record the one it attached.
THEOREM RuntimeAdapterOwned == Spec => AdapterHasItsOwner
<1>1. RuntimeInv => AdapterIsRecorded BY DEF RuntimeInv, HardwareInv
<1>2. RuntimeInv /\ [Next \/ Settled]_vars => [attached /\ ~ours /\ ~attached' => UNCHANGED step]_hardwareVars
  BY RequestsUseHardware, OnlyOursIsDetached DEF RuntimeInv
<1> QED BY <1>1, <1>2, RuntimeInvariant, PTL DEF Spec, AdapterHasItsOwner, ForeignAdapterStays

\* Without a session of its own or an adopted one the service has no endpoint, and with one
\* the stop has ended it.
LEMMA CredentialsGoLast ==
    ASSUME RuntimeInv, [Next \/ Settled]_vars, NEW t \in Threads, at[t] # at'[t],
           at[t].place \in {"gone", "gone stop"}, authority, ~authority', ~orphan
    PROVE  \A n \in Launches : ~Up(n)'
<1>0. /\ RequestInv /\ EndpointInv /\ EndpointIsKnown /\ StopIsThrough
      /\ StoreTypeOK /\ AtTypeOK /\ CallTypeOK /\ InOrder
  BY TypesKnown DEF RuntimeInv, EndpointInv
<1>1. SUFFICES Nobody /\ UNCHANGED process
  BY <1>1 DEF Nobody, Alive, Up
<1>2. PICK u \in Threads : Gone(u) \/ GoneStopped(u) \/ Farewell(u)
  BY CredentialsCleared
<1>3. u = t
  <2>1. MemoryTypeOK' BY <1>0, RoomSteps, CountsSteps, FlagsSteps DEF MemoryTypeOK
  <2>2. Moved(u)
    BY <1>0, <1>2, <2>1, RequestMoves DEF Progress, Gone, GoneStopped, Farewell, Launch, Place
  <2> QED BY <2>2 DEF Moved, Apart
<1>4. CASE Gone(t)
  <2>1. ~session' /\ UNCHANGED process BY <1>4 DEF Gone, Processes
  <2>2. ASSUME NEW n \in Launches, Alive(n) PROVE FALSE
    <3>1. ~session /\ ~(Verified /\ popen # file.launch) BY <1>4, <2>1 DEF Gone, Adopts
    <3> QED BY <1>0, <2>2, <3>1 DEF EndpointIsKnown, Verified
  <2> QED BY <2>1, <2>2 DEF Nobody
<1>5. CASE GoneStopped(t)
  <2>1. at[t].place = "gone stop" /\ call[t].phase = "stopped" /\ UNCHANGED process
    BY <1>5 DEF GoneStopped, In, Place, Processes
  <2> QED BY <1>0, <2>1 DEF StopIsThrough, StopPlaces, Nobody
<1>6. ~Farewell(t) BY DEF Farewell, Place
<1> QED BY <1>2, <1>3, <1>4, <1>5, <1>6

\* The credentials of a room that is over go only when its endpoint has gone
\* (transition_terminal_authority).
THEOREM TerminalAlone == Spec => TerminalLeavesNoEndpoint
<1>1. RuntimeInv /\ [Next \/ Settled]_vars =>
        [\A t \in Threads :
            at[t] # at'[t] /\ at[t].place \in {"gone", "gone stop"} /\ authority /\ ~authority' /\ ~orphan
                => \A n \in Launches : ~Up(n)']_vars
  BY CredentialsGoLast
<1> QED BY <1>1, RuntimeInvariant, PTL DEF Spec, TerminalLeavesNoEndpoint
=============================================================================
