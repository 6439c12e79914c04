---------------------------- MODULE ControlRuntime ----------------------------
(***************************************************************************)
(* The legacy control service of one user with one trade room: the request     *)
(* handlers of src/switchtrade/control.py, run by a pool of threads, over       *)
(* ControlLaunch (endpoint process) and ControlHardware (adapter).              *)
(*                                                                         *)
(* A request is modelled by its blocking points: the locks it waits for, the     *)
(* calls to the relay, the routines it calls.  The relay is what it answers:      *)
(* whether the seat is still valid and how far the attempt is; partner and         *)
(* relay move it at any time, and any call to it may fail.                          *)
(***************************************************************************)
EXTENDS ControlLaunch

CONSTANTS
    Commands,       \* the requests this instance makes
    MaxRequests,    \* how many of them
    MaxFaults       \* how often partner, relay, cable or process interfere

\* The first attempt may be in session when the service is looked at first.
ASSUME RuntimeAssumption ==
    1 \in Keys /\ MaxLaunches > 0 /\ MaxRequests \in Nat /\ MaxFaults \in Nat

VARIABLES
    authority,      \* room-authority.json is there
    seat,           \* the relay still has the seat it names
    attempt,        \* the relay's attempt of the room, 0 before the first
    outcome,        \* ... and its phase: "none", "active" or a terminal one
    at,             \* per thread: the request, where in it, what it has read
    stopped,        \* the endpoint was stopped, and no session asked for since
    leftover,       \* a routine has told that it could not return the adapter
    orphan,         \* a dead control process left an endpoint that had not registered
    serving,        \* the control process is past its start-up
    served, faults  \* the counters of the bounds

Room == <<authority, seat, attempt, outcome>>
Life == <<serving, served, faults>>

Told == <<stopped, leftover, orphan>>

vars == <<hardwareVars, launchVars, Room, at, Told, Life>>

Terminal == {"failed", "canceled", "completed"}

NoRequest == [request |-> "none", place |-> "idle", key |-> 0, phase |-> "none", held |-> FALSE]

RuntimeTypeOK ==
    /\ HardwareTypeOK /\ LaunchTypeOK
    /\ authority \in BOOLEAN /\ seat \in BOOLEAN
    /\ attempt \in Keys \cup {0} /\ outcome \in Terminal \cup {"none", "active"}
    /\ DOMAIN at = Threads
    /\ stopped \in BOOLEAN /\ leftover \in BOOLEAN /\ orphan \in BOOLEAN /\ serving \in BOOLEAN
    /\ served \in 0..MaxRequests /\ faults \in 0..MaxFaults

\* The user is in the room; the session of its first attempt may be running.
NoSession == /\ HardwareInit /\ LaunchInit /\ attempt = 0 /\ outcome = "none"

InSession ==
    /\ attached = TRUE /\ ours \in BOOLEAN /\ owned = ours
    /\ hardwareLock = NoThread
    /\ step = [t \in Threads |-> "idle"] /\ routine = [t \in Threads |-> "release"]
    /\ locks = [l \in {"state", "launch", "attempt"} |-> NoThread]
    /\ call = [t \in Threads |-> NoCall]
    /\ attempt = 1 /\ outcome = "active"
    /\ file = [state |-> "running", launch |-> 1, key |-> 1, registered |-> TRUE]
    /\ ack = 0 /\ popen = 1 /\ session = TRUE
    /\ process = [n \in Launches |-> IF n = 1 THEN "up" ELSE "none"]
    /\ keyOf = [n \in Launches |-> IF n = 1 THEN 1 ELSE NoKey]

Init ==
    /\ NoSession \/ InSession
    /\ authority = TRUE /\ seat = TRUE
    /\ at = [t \in Threads |-> NoRequest]
    /\ stopped = FALSE /\ leftover = FALSE /\ orphan = FALSE
    /\ serving = TRUE /\ served = 0 /\ faults = 0

-----------------------------------------------------------------------------
(* The steps requests are made of.                                           *)

Serves(t, r) == at[t].request = r
Place(t, p) == at[t].place = p
Goes(t, p) == at' = [at EXCEPT ![t].place = p]
Remembers(t, p) == at' = [at EXCEPT ![t].place = p, ![t].key = attempt', ![t].phase = outcome']

\* A routine of the adapter or of the endpoint has answered.
HardwareSaid(t, s) == step[t] = s
Asks(t, r) == Calls(t, r)
Does(t, p) == call' = [call EXCEPT ![t].phase = p]
Reading(t) == [call EXCEPT ![t].generation = "current"]

Quiet == UNCHANGED <<locks, Files, Memory, Processes>>

\* The request is answered.
Ends(t) ==
    /\ at' = [at EXCEPT ![t] = NoRequest]
    /\ call' = [call EXCEPT ![t] = NoCall]
    /\ step' = [step EXCEPT ![t] = "idle"]
    /\ UNCHANGED <<attached, ours, owned, hardwareLock, routine>>

\* A new request: what the user asks for next makes an earlier stop history.
Receives(t, r) ==
    /\ serving /\ at[t] = NoRequest /\ r \in Commands /\ served < MaxRequests
    /\ served' = served + 1 /\ UNCHANGED <<serving, faults>>

Starts(t, r, p) == at' = [at EXCEPT ![t] = [NoRequest EXCEPT !.request = r, !.place = p]]

\* Release the adapter; the request ends however that goes.
ReleaseAndEnd(t) == Goes(t, "ending") /\ Calls(t, "release")

\* A join goes on with its own room, any other request ends.
Proceeds(t) ==
    /\ at' = [at EXCEPT ![t] = IF Serves(t, "join") THEN [@ EXCEPT !.place = "joining"]
                              ELSE NoRequest]
    /\ call' = [call EXCEPT ![t] = NoCall]
    /\ step' = [step EXCEPT ![t] = "idle"]
    /\ UNCHANGED <<attached, ours, owned, hardwareLock, routine>>

Ending(t) ==
    /\ Place(t, "ending") /\ step[t] \in {"ok", "failed"}
    /\ Proceeds(t) /\ Gives(t, {"attempt"})
    /\ UNCHANGED <<Files, Memory, Processes, Room, Told, Life>>

-----------------------------------------------------------------------------
(* connect_trade_room                                                        *)

\* The generation is read before the adapter is attached.
Connect(t) ==
    /\ Receives(t, "connect") /\ Starts(t, "connect", "attaching")
    /\ call' = Reading(t) /\ Calls(t, "attach") /\ stopped' = FALSE /\ UNCHANGED <<leftover, orphan>>
    /\ UNCHANGED Room /\ Quiet

\* An attach that was overtaken by a stop is returned.
ConnectAttached(t) ==
    /\ Serves(t, "connect") /\ Place(t, "attaching")
    /\ \/ step[t] = "failed" /\ Ends(t)
       \/ step[t] = "ok" /\ call[t].generation = "old" /\ ReleaseAndEnd(t) /\ UNCHANGED call
       \/ step[t] = "ok" /\ call[t].generation # "old" /\ Goes(t, "ready") /\ Forgets(t) /\ UNCHANGED call
    /\ Quiet /\ UNCHANGED <<Room, Told, Life>>

\* The seat is declared ready; with the partner's role complementary an attempt opens.
Ready(t) ==
    /\ Serves(t, "connect") /\ Place(t, "ready")
    /\ \/ ReleaseAndEnd(t) /\ UNCHANGED Room
       \/ /\ authority /\ seat
          /\ \/ outcome # "active" /\ attempt + 1 \in Keys
                /\ attempt' = attempt + 1 /\ outcome' = "active"
             \/ UNCHANGED <<attempt, outcome>>
          /\ Remembers(t, "author") /\ UNCHANGED <<authority, seat, hardwareVars>>
    /\ Quiet /\ UNCHANGED <<call, Told, Life>>

\* A launch that failed after the seat was ready becomes the attempt's failure.
Rollback(t) ==
    /\ Serves(t, "connect") /\ Place(t, "rollback")
    /\ outcome' \in {outcome, IF authority /\ seat /\ outcome = "active" THEN "failed" ELSE outcome}
    /\ ReleaseAndEnd(t)
    /\ Quiet /\ UNCHANGED <<call, authority, seat, attempt, Told, Life>>

-----------------------------------------------------------------------------
(* launch_authoritative_attempt, with the room the caller has read              *)

Fails(t) == IF Serves(t, "connect") THEN Goes(t, "rollback") /\ UNCHANGED <<call, hardwareVars>>
            ELSE Ends(t)

\* None is "nothing to launch": the poll and the connect are answered with the room, a
\* retry becomes a connect.
ReturnsNone(t) ==
    IF Serves(t, "retry")
    THEN /\ Starts(t, "connect", "attaching") /\ call' = Reading(t) /\ Calls(t, "attach")
    ELSE Ends(t)

\* An attempt the relay calls failed makes the endpoint's state say so; what that state
\* has said of a failure already is kept.
RecordAuthoritativeFailure(phase) ==
    file' = IF phase = "failed" /\ file.state # "failed" THEN [file EXCEPT !.state = "failed"]
            ELSE file

\* The attempt is over: what the endpoint left is stopped.
AuthorTerminal(t) ==
    /\ Place(t, "author") /\ at[t].phase \in Terminal /\ Free("attempt") /\ Free("state")
    /\ RecordAuthoritativeFailure(at[t].phase)
    /\ Adopts
    /\ IF session'
       THEN /\ Takes(t, "attempt") /\ Goes(t, "author stop") /\ Does(t, "cancel")
            /\ UNCHANGED hardwareVars
       ELSE ReturnsNone(t) /\ UNCHANGED locks
    /\ UNCHANGED <<ack, popen, Processes, Room, Told, Life>>

AuthorStopped(t) ==
    /\ Place(t, "author stop")
    /\ \/ In(t, "stopped") /\ Goes(t, "author none") /\ Calls(t, "release") /\ UNCHANGED <<call, locks>>
       \/ In(t, "unstopped") /\ Fails(t) /\ Gives(t, {"attempt"})
    /\ UNCHANGED <<Files, Memory, Processes, Room, Told, Life>>

AuthorNone(t) ==
    /\ Place(t, "author none")
    /\ \/ step[t] = "ok" /\ ReturnsNone(t)
       \/ step[t] = "failed" /\ Fails(t)
    /\ Gives(t, {"attempt"})
    /\ UNCHANGED <<Files, Memory, Processes, Room, Told, Life>>

AuthorNothing(t) ==
    /\ Place(t, "author") /\ at[t].phase = "none" /\ Free("attempt")
    /\ ReturnsNone(t)
    /\ Quiet /\ UNCHANGED <<Room, Told, Life>>

\* The endpoint runs already, or this caller may not launch.
AuthorRunning(t) ==
    /\ Place(t, "author") /\ at[t].phase = "active" /\ Free("attempt")
    /\ Running \/ Serves(t, "poll")
    /\ Ends(t) /\ Adopts
    /\ UNCHANGED <<locks, Files, popen, Processes, Room, Told, Life>>

\* connect brings its adapter and generation; retry reads and attaches here.
AuthorLaunch(t) ==
    /\ Place(t, "author") /\ at[t].phase = "active" /\ ~Running /\ ~Serves(t, "poll")
    /\ Takes(t, "attempt")
    /\ IF Serves(t, "connect")
       THEN Goes(t, "launch") /\ Does(t, "enter") /\ UNCHANGED hardwareVars
       ELSE Goes(t, "author attach") /\ call' = Reading(t) /\ Calls(t, "attach")
    /\ UNCHANGED <<Files, Memory, Processes, Room, Told, Life>>

AuthorAttached(t) ==
    /\ Place(t, "author attach")
    /\ \/ step[t] = "ok" /\ Goes(t, "launch") /\ Does(t, "enter") /\ Forgets(t) /\ UNCHANGED locks
       \/ step[t] = "failed" /\ Ends(t) /\ Gives(t, {"attempt"})
    /\ UNCHANGED <<Files, Memory, Processes, Room, Told, Life>>

Launch(t) ==
    /\ Place(t, "launch")
    /\ LaunchStep(t, at[t].key, Serves(t, "retry"), FALSE)
    /\ UNCHANGED <<at, Room, Told, Life>>

\* A refused launch gives the adapter back unless an endpoint is running.
Launched(t) ==
    /\ Place(t, "launch")
    /\ \/ In(t, "started") /\ Ends(t) /\ Gives(t, {"attempt"})
       \/ In(t, "refused") /\ Running /\ Fails(t) /\ Gives(t, {"attempt"})
       \/ /\ In(t, "refused") /\ ~Running
          /\ Goes(t, "launch undo") /\ Calls(t, "release") /\ UNCHANGED <<call, locks>>
    /\ UNCHANGED <<Files, Memory, Processes, Room, Told, Life>>

LaunchUndone(t) ==
    /\ Place(t, "launch undo") /\ step[t] \in {"ok", "failed"}
    /\ Fails(t) /\ Gives(t, {"attempt"})
    /\ UNCHANGED <<Files, Memory, Processes, Room, Told, Life>>

-----------------------------------------------------------------------------
(* retry_app and get_trade_room: the room is read, then the attempt driven       *)

Retry(t) ==
    /\ Receives(t, "retry") /\ ~Running /\ authority /\ seat
    /\ UNCHANGED Room
    /\ at' = [at EXCEPT ![t] = [NoRequest EXCEPT !.request = "retry", !.place = "author",
                                                !.key = attempt, !.phase = outcome]]
    /\ stopped' = FALSE /\ UNCHANGED <<leftover, orphan>>
    /\ Quiet /\ UNCHANGED <<call, hardwareVars>>

Poll(t) ==
    /\ Receives(t, "poll") /\ authority
    /\ UNCHANGED Room
    /\ at' = [at EXCEPT ![t] = [NoRequest EXCEPT !.request = "poll",
                                   !.place = IF seat THEN "author" ELSE "gone",
                                   !.key = attempt, !.phase = outcome]]
    /\ Quiet /\ UNCHANGED <<call, hardwareVars, Told>>

(* Mutant: the credentials go before the endpoint is stopped. *)
MutantGone(t) ==
    /\ Place(t, "gone") /\ Free("state")
    /\ Adopts
    /\ authority' = FALSE
    /\ IF authority /\ session'
       THEN Takes(t, "state") /\ Goes(t, "gone stop") /\ Does(t, "cancel") /\ UNCHANGED hardwareVars
       ELSE Ends(t) /\ UNCHANGED locks
    /\ UNCHANGED <<Files, popen, Processes, seat, attempt, outcome, Told, Life>>

\* transition_terminal_authority: the seat is gone for good.
Gone(t) ==
    /\ Place(t, "gone") /\ Free("state")
    /\ Adopts
    /\ IF ~authority THEN Ends(t) /\ UNCHANGED <<locks, authority>>
       ELSE IF session'
       THEN /\ Takes(t, "state") /\ Goes(t, "gone stop") /\ Does(t, "cancel")
            /\ UNCHANGED <<authority, hardwareVars>>
       ELSE authority' = FALSE /\ Proceeds(t) /\ UNCHANGED locks
    /\ UNCHANGED <<Files, popen, Processes, seat, attempt, outcome, Told, Life>>

GoneStopped(t) ==
    /\ Place(t, "gone stop")
    /\ \/ In(t, "stopped") /\ authority' = FALSE /\ ReleaseAndEnd(t) /\ UNCHANGED call
       \/ In(t, "unstopped") /\ Ends(t) /\ UNCHANGED authority
    /\ Gives(t, {"state"})
    /\ UNCHANGED <<Files, Memory, Processes, seat, attempt, outcome, Told, Life>>

-----------------------------------------------------------------------------
(* create_trade_room, join_trade_room and join_public_trade_room                  *)

\* require_no_active_room: a room that is still open refuses the request, which changes
\* nothing; credentials of one that is over are cleared on the way.
Join(t) ==
    /\ Receives(t, "join") /\ ~(authority /\ seat)
    /\ at' = [at EXCEPT ![t] = [NoRequest EXCEPT !.request = "join",
                                   !.place = IF authority THEN "gone" ELSE "joining"]]
    /\ stopped' = FALSE /\ UNCHANGED <<leftover, orphan>>
    /\ Quiet /\ UNCHANGED <<call, hardwareVars, Room>>

\* The relay's answer replaces whatever credentials are there by then.
SaveAuthority == /\ authority' = TRUE /\ seat' = TRUE
                 /\ outcome' = "none" /\ UNCHANGED attempt

Joined(t) ==
    /\ Place(t, "joining") /\ Ends(t)
    /\ \/ UNCHANGED Room
       \/ Free("state") /\ SaveAuthority
    /\ Quiet /\ UNCHANGED <<Told, Life>>

-----------------------------------------------------------------------------
(* leave_trade_room, close_trade_room, abandon_local_authority, stop_session      *)

EndSession(t, r) ==
    /\ Receives(t, r) /\ Free("state") /\ Takes(t, "state")
    /\ Starts(t, r, "teardown") /\ Does(t, "cancel")
    /\ UNCHANGED <<Files, Memory, Processes, hardwareVars, Room, Told>>

\* A launch in flight has read its generation before the stop; one that has not counts
\* as asked for after it.
Overtaken(u) == at[u].request \in {"connect", "retry"} => call[u].generation = "old"

\* clear_session_state
Teardown(t) ==
    /\ Place(t, "teardown")
    /\ \/ /\ In(t, "stopped") /\ file' = NoFile /\ ack' = 0 /\ session' = FALSE
          /\ Goes(t, "returning") /\ Calls(t, "release") /\ UNCHANGED call
          /\ stopped' = \A u \in Threads : Overtaken(u)
       \/ In(t, "unstopped") /\ Ends(t) /\ UNCHANGED <<Files, session, stopped>>
    /\ Gives(t, {"state"})
    /\ UNCHANGED <<popen, Processes, Room, leftover, orphan, Life>>

Returned(t) ==
    /\ Place(t, "returning")
    /\ \/ step[t] = "ok" /\ Goes(t, "farewell") /\ Forgets(t) /\ UNCHANGED call
       \/ step[t] = "failed" /\ Ends(t)
    /\ Quiet /\ UNCHANGED <<Room, Told, Life>>

\* The relay hears of it; a leave or close that it refuses keeps the authority.
Farewell(t) ==
    /\ Place(t, "farewell") /\ Ends(t)
    /\ \/ UNCHANGED Room
       \/ /\ Serves(t, "leave")
          /\ authority' = FALSE /\ seat' \in {seat, FALSE} /\ UNCHANGED <<attempt, outcome>>
       \/ /\ Serves(t, "stop") /\ authority /\ seat
          /\ outcome' = IF outcome = "active" THEN "canceled" ELSE outcome
          /\ UNCHANGED <<authority, seat, attempt>>
    /\ Quiet /\ UNCHANGED <<Told, Life>>

-----------------------------------------------------------------------------
(* hardware_diagnostics and repair_app: the adapter is borrowed for one check      *)

Repair(t) ==
    /\ Receives(t, "repair") /\ ~Running
    /\ Starts(t, "repair", "borrowing") /\ Calls(t, "attach") /\ stopped' = FALSE /\ UNCHANGED <<leftover, orphan>>
    /\ Adopts
    /\ UNCHANGED <<call, locks, Files, popen, Processes, Room>>

Borrowed(t) ==
    /\ Serves(t, "repair") /\ Place(t, "borrowing")
    /\ \/ step[t] = "failed" /\ Ends(t)
       \/ step[t] = "ok" /\ Forgets(t) /\ UNCHANGED call
          /\ at' = [at EXCEPT ![t].place = "checking", ![t].held = owned]
    /\ Quiet /\ UNCHANGED <<Room, Told, Life>>

Checked(t) ==
    /\ Place(t, "checking")
    /\ IF at[t].held THEN ReleaseAndEnd(t) /\ UNCHANGED call ELSE Ends(t)
    /\ Quiet /\ UNCHANGED <<Room, Told, Life>>

-----------------------------------------------------------------------------
(* The readiness request tells the relay how the endpoint's attempt ended.          *)

(* Mutant: whatever the endpoint's file says is told. *)
MutantReadPhase(t) ==
    /\ Receives(t, "publish") /\ file.state # "none" /\ authority
    /\ at' = [at EXCEPT ![t] = [NoRequest EXCEPT !.request = "publish", !.place = "publishing",
                                                !.phase = file.state]]
    /\ Quiet /\ UNCHANGED <<call, hardwareVars, Room, Told>>

ReadPhase(t) ==
    /\ Receives(t, "publish") /\ file.state \in {"failed", "completed"} /\ authority
    /\ at' = [at EXCEPT ![t] = [NoRequest EXCEPT !.request = "publish", !.place = "publishing",
                                                !.phase = file.state]]
    /\ Quiet /\ UNCHANGED <<call, hardwareVars, Room, Told>>

\* The room is read only now, and the phase goes to the attempt it then has.
PublishPhase(t) ==
    /\ Place(t, "publishing") /\ Ends(t)
    /\ \/ UNCHANGED Room
       \/ /\ authority /\ seat /\ outcome = "active"
          /\ outcome' = at[t].phase /\ UNCHANGED <<authority, seat, attempt>>
    /\ Quiet /\ UNCHANGED <<Told, Life>>

-----------------------------------------------------------------------------
(* The environment.                                                          *)

Endpoint == EndpointStep({"failed", "completed"}, authority) /\ UNCHANGED <<at, Room, Told, Life>>

Fault == faults < MaxFaults /\ faults' = faults + 1 /\ UNCHANGED <<serving, served>>

RelayEnds ==
    /\ Fault /\ outcome = "active" /\ outcome' \in Terminal
    /\ UNCHANGED <<hardwareVars, launchVars, authority, seat, attempt, at, Told>>

SeatLost ==
    /\ Fault /\ seat /\ seat' = FALSE
    /\ UNCHANGED <<hardwareVars, launchVars, authority, attempt, outcome, at, Told>>

Unplugged ==
    /\ Fault /\ attached /\ Unplug
    /\ UNCHANGED <<launchVars, Room, at, Told>>

Crash ==
    /\ faults < MaxFaults
    /\ faults' = faults + 1 /\ serving' = FALSE /\ UNCHANGED served
    /\ LaunchCrash
    /\ at' = [t \in Threads |-> NoRequest]
    /\ stopped' = FALSE /\ UNCHANGED leftover
    /\ orphan' = (orphan \/ \E n \in Launches : process[n] \in {"gate", "gated"})
    /\ UNCHANGED Room

\* The next process returns an adapter it finds recorded, unless its endpoint still runs.
StartUp ==
    /\ ~serving /\ \A u \in Threads : at[u] = NoRequest
    /\ \E t \in Threads :
        IF owned /\ ~Running
        THEN /\ Starts(t, "startup", "starting") /\ Calls(t, "release") /\ UNCHANGED serving
        ELSE serving' = TRUE /\ UNCHANGED <<at, hardwareVars>>
    /\ UNCHANGED <<launchVars, Room, Told, served, faults>>

StartedUp(t) ==
    /\ Place(t, "starting") /\ step[t] \in {"ok", "failed"}
    /\ Ends(t) /\ serving' = TRUE
    /\ Quiet /\ UNCHANGED <<Room, Told, served, faults>>

-----------------------------------------------------------------------------
\* A routine of the adapter that ends without returning it tells its caller so: the
\* user knows then that the session is not cleaned up.
Hardware(t) ==
    /\ HardwareStep(t)
    /\ leftover' = (owned' /\ (leftover \/ step'[t] = "failed"))
    /\ UNCHANGED <<stopped, orphan>>
    /\ UNCHANGED <<launchVars, Room, at, Life>>

Stop(t) == StopStep(t) /\ UNCHANGED <<at, Room, Told, Life>>

Request(t) ==
    \/ Connect(t) \/ Retry(t) \/ Poll(t) \/ Join(t) \/ Repair(t) \/ ReadPhase(t)
    \/ \E r \in {"leave", "stop"} : EndSession(t, r)

Progress(t) ==
    \/ ConnectAttached(t) \/ Ready(t) \/ Rollback(t)
    \/ AuthorTerminal(t) \/ AuthorStopped(t) \/ AuthorNone(t) \/ AuthorNothing(t)
    \/ AuthorRunning(t) \/ AuthorLaunch(t) \/ AuthorAttached(t)
    \/ Launch(t) \/ Launched(t) \/ LaunchUndone(t)
    \/ Gone(t) \/ GoneStopped(t) \/ Joined(t) \/ Teardown(t) \/ Returned(t) \/ Farewell(t)
    \/ Borrowed(t) \/ Checked(t) \/ PublishPhase(t) \/ StartedUp(t) \/ Ending(t)

Next ==
    \/ \E t \in Threads : Request(t) \/ Progress(t) \/ Hardware(t) \/ Stop(t)
    \/ Endpoint \/ RelayEnds \/ SeatLost \/ Unplugged \/ Crash \/ StartUp

\* Every request is answered and the bound is reached.
Settled ==
    /\ \A t \in Threads : at[t] = NoRequest
    /\ serving /\ served = MaxRequests
    /\ UNCHANGED vars

Spec == Init /\ [][Next \/ Settled]_vars

-----------------------------------------------------------------------------
AtRest == serving /\ \A t \in Threads : at[t] = NoRequest

SessionIsOver == /\ \A n \in Launches : ~Up(n)
                 /\ owned => leftover

(* Once a request that ends the session was answered, then, when the requests   *)
(* in flight have been answered too, no endpoint runs and the adapter is back,   *)
(* unless a routine reported that it could not return it: whatever connect,      *)
(* check or poll was under way (end_local_session against launch_was_canceled).  *)
(* An endpoint orphaned before it registered is named by nothing, and no stop       *)
(* reaches it: such a run is excluded.                                              *)
StopIsFinal == AtRest /\ stopped /\ ~orphan => SessionIsOver

(* What the service holds at rest is what its requests left it                 *)
(* (end_local_session, release_hardware).                                      *)
RuntimeIsConsistent == RuntimeTypeOK /\ StopIsFinal

(* The credentials of a room that is over go only when its endpoint has gone: at  *)
(* the moment transition_terminal_authority clears them no endpoint runs, whatever  *)
(* launch or poll it came between, an orphaned endpoint aside.                      *)
TerminalLeavesNoEndpoint ==
    [][\A t \in Threads :
            at[t] # at'[t] /\ at[t].place \in {"gone", "gone stop"} /\ authority /\ ~authority' /\ ~orphan
                => \A n \in Launches : ~Up(n)']_vars
=============================================================================
