---------------------------- MODULE ControlLaunch ----------------------------
(***************************************************************************)
(* How the control service starts and stops the endpoint process:            *)
(* launch_session, stop_endpoint and cancel_launch of                         *)
(* src/switchtrade/control.py, the process of src/switchtrade/endpoint.py      *)
(* behind scripts/run-beta-endpoint.sh, and the endpoint-state file through     *)
(* which the two speak.                                                        *)
(*                                                                         *)
(* launch_lock is held from the first check to the answer, state.lock only      *)
(* around the step that starts the process.  A launch nonce is the number of     *)
(* the launch.  A thread's generation is what launch_was_canceled makes of it:    *)
(* "current", or "old" once cancel_launch has run.                                *)
(***************************************************************************)
EXTENDS ControlHardware, Naturals

CONSTANTS
    MaxLaunches,    \* how many endpoint processes are ever started
    Keys            \* the attempts endpoints are started for

ASSUME LaunchAssumption == MaxLaunches \in Nat /\ Keys \subseteq Nat \ {0}

VARIABLES
    locks,          \* the holders of state.lock (across steps), launch_lock, attempt_lock
    call,           \* per thread: the step of launch_session or stop_endpoint it is in, the
                    \* launch it has made, the generation it has read
    file,           \* endpoint-state.json
    ack,            \* the launch endpoint-launch-ack.json names, or 0
    popen,          \* Runtime.endpoint: the launch whose process it holds, or 0
    session,        \* Runtime.endpoint_session names the room
    process,        \* the endpoint process of each launch
    keyOf           \* the attempt each was started for

Files == <<file, ack>>
Memory == <<popen, session>>
Processes == <<process, keyOf>>

launchVars == <<locks, call, Files, Memory, Processes>>

Launches == 1..MaxLaunches
NoKey == 0

NoFile == [state |-> "none", launch |-> 0, key |-> NoKey, registered |-> FALSE]
NoCall == [phase |-> "idle", launch |-> 0, generation |-> "none"]

Answers == {"idle", "started", "refused", "stopped", "unstopped"}
Launching == {"enter", "locked", "wait", "decide", "fail", "record", "releasing"}
Stopping == {"cancel", "terminate", "forget"}

LaunchTypeOK ==
    /\ locks \in [{"state", "launch", "attempt"} -> Threads \cup {NoThread}]
    /\ call \in [Threads -> [phase : Answers \cup Launching \cup Stopping,
                             launch : 0..MaxLaunches,
                             generation : {"none", "current", "old"}]]
    /\ file \in [state : {"none", "launching", "running", "passed", "failed", "completed"},
                 launch : 0..MaxLaunches, key : Keys \cup {NoKey}, registered : BOOLEAN]
    /\ ack \in 0..MaxLaunches /\ popen \in 0..MaxLaunches /\ session \in BOOLEAN
    /\ process \in [Launches -> {"none", "gate", "gated", "up", "closing", "ended"}]
    /\ keyOf \in [Launches -> Keys \cup {NoKey}]

LaunchInit ==
    /\ locks = [l \in {"state", "launch", "attempt"} |-> NoThread]
    /\ call = [t \in Threads |-> NoCall]
    /\ file = NoFile /\ ack = 0 /\ popen = 0 /\ session = FALSE
    /\ process = [n \in Launches |-> "none"]
    /\ keyOf = [n \in Launches |-> NoKey]

-----------------------------------------------------------------------------
Free(l) == locks[l] = NoThread
Takes(t, l) == Free(l) /\ locks' = [locks EXCEPT ![l] = t]
Gives(t, ls) == locks' = [l \in DOMAIN locks |->
                             IF l \in ls /\ locks[l] = t THEN NoThread ELSE locks[l]]

In(t, p) == call[t].phase = p
To(t, p) == call' = [call EXCEPT ![t].phase = p]

\* The script holds the endpoint's single-instance lock from "gate" on.
Up(n) == process[n] \in {"up", "closing"}
Alive(n) == process[n] \in {"gate", "gated"} \/ Up(n)

\* _verified_endpoint_pid: the file names a process that is still that process.
Verified == file.registered /\ Up(file.launch)

\* endpoint_running
Running == (popen # 0 /\ Alive(popen)) \/ Verified

\* ... which adopts the session of a verified endpoint it does not hold.
Adopts == session' = (session \/ (Verified /\ popen # file.launch))

-----------------------------------------------------------------------------
(* The endpoint process.                                                    *)

Becomes(n, p) == process' = [process EXCEPT ![n] = p] /\ UNCHANGED keyOf

Says(n, key, s, r) == file' = [state |-> s, launch |-> n, key |-> key, registered |-> r]

Reports(n, s) == Says(n, keyOf[n], s, TRUE)

\* The radio gate passes and the script leaves its acknowledgement, or it exits.
Gate(n) ==
    /\ process[n] = "gate"
    /\ \/ Becomes(n, "gated") /\ ack' = n
       \/ Becomes(n, "ended") /\ UNCHANGED ack
    /\ UNCHANGED <<locks, call, file, Memory, hardwareVars>>

\* run_endpoint registers itself ("initializing") if it gets that far; it goes on only
\* with the member credential it is launched with.
Register(n, credential) ==
    /\ process[n] = "gated"
    /\ \/ credential /\ Becomes(n, "up") /\ Reports(n, "running")
       \/ Becomes(n, "ended") /\ UNCHANGED file
    /\ UNCHANGED <<locks, call, ack, Memory, hardwareVars>>

\* The running endpoint rewrites its state every second.
Refresh(n) ==
    /\ process[n] = "up" /\ Reports(n, "running")
    /\ UNCHANGED <<locks, call, ack, Memory, Processes, hardwareVars>>

\* It reports its verdict, a diagnostic one its checkpoint, and then closes what it holds.
Finish(n, verdicts) ==
    /\ process[n] = "up"
    /\ \E s \in verdicts : Reports(n, s)
    /\ Becomes(n, "closing")
    /\ UNCHANGED <<locks, call, ack, Memory, hardwareVars>>

\* Every resource is closed, whatever became of the others; one that would not close
\* makes the verdict a failure.
Cleanup(n) == UNCHANGED file \/ Reports(n, "failed")

Exit(n) ==
    /\ process[n] = "closing" /\ Becomes(n, "ended")
    /\ Cleanup(n)
    /\ UNCHANGED <<locks, call, ack, Memory, hardwareVars>>

EndpointStep(verdicts, credential) ==
    \E n \in Launches : Gate(n) \/ Register(n, credential) \/ Refresh(n) \/ Finish(n, verdicts) \/ Exit(n)

\* Terminated processes end; one that was up reports "completed" first.
Terminated(ns) ==
    /\ process' = [n \in Launches |-> IF n \in ns THEN "ended" ELSE process[n]]
    /\ \/ \E n \in ns : process[n] = "up" /\ Reports(n, "completed")
       \/ (\A n \in ns : process[n] # "up") /\ UNCHANGED file
    /\ UNCHANGED keyOf

-----------------------------------------------------------------------------
(* launch_session, from its entry to the answer "started" or "refused".         *)

EnterLaunch(t) ==
    /\ In(t, "enter") /\ Free("launch")
    /\ IF call[t].generation = "old" THEN To(t, "refused") /\ UNCHANGED locks
       ELSE To(t, "locked") /\ Takes(t, "launch")
    /\ UNCHANGED <<Files, Memory, Processes, hardwareVars>>

\* An endpoint is running: it is this attempt's, or another session is in the way.
FindRunning(t, key) ==
    /\ In(t, "locked") /\ Free("state") /\ Running
    /\ To(t, IF file.key \in {NoKey, key} THEN "started" ELSE "refused")
    /\ Gives(t, {"launch"}) /\ Adopts
    /\ UNCHANGED <<Files, popen, Processes, hardwareVars>>

MayStart(t, key, retry) ==
    In(t, "locked") /\ Free("state") /\ ~Running /\ (retry \/ file.key # key)

\* This attempt was launched before: only Retry launches it again.
FindLaunched(t, key, retry) ==
    /\ In(t, "locked") /\ Free("state") /\ ~Running
    /\ ~retry /\ file.key = key
    /\ file' = IF file.state = "launching" THEN [file EXCEPT !.state = "failed"] ELSE file
    /\ To(t, "refused") /\ Gives(t, {"launch"})
    /\ UNCHANGED <<ack, Memory, Processes, hardwareVars>>

NextLaunch == CHOOSE n \in Launches : \A m \in Launches : (m < n) <=> process[m] # "none"

\* A script that finds the single-instance lock held exits at once.
Start(t, key, retry) ==
    /\ MayStart(t, key, retry) /\ \E n \in Launches : process[n] = "none"
    /\ LET n == NextLaunch IN
        /\ Says(n, key, "launching", FALSE)
        /\ process' = [process EXCEPT ![n] =
                          IF \E m \in Launches : Alive(m) THEN "ended" ELSE "gate"]
        /\ keyOf' = [keyOf EXCEPT ![n] = key]
        /\ popen' = n /\ session' = TRUE /\ ack' = 0
        /\ call' = [call EXCEPT ![t].phase = "wait", ![t].launch = n]
    /\ UNCHANGED <<locks, hardwareVars>>

\* Popen fails: the failure is recorded and the adapter released, under both locks.
CannotStart(t, key, retry, diagnostic) ==
    /\ MayStart(t, key, retry)
    /\ Says(0, key, "failed", FALSE) /\ ack' = 0
    /\ IF diagnostic
       THEN To(t, "refused") /\ Gives(t, {"launch"}) /\ UNCHANGED hardwareVars
       ELSE To(t, "releasing") /\ Takes(t, "state") /\ Calls(t, "release")
    /\ UNCHANGED <<Memory, Processes>>

(* Mutant: a launch that waits for its endpoint is not cancelled. *)
MutantWait(t) ==
    /\ In(t, "wait")
    /\ To(t, "decide")
    /\ UNCHANGED <<locks, Files, Memory, Processes, hardwareVars>>

\* One turn of the wait: first whether the launch was cancelled ...
Wait(t) ==
    /\ In(t, "wait")
    /\ To(t, IF call[t].generation = "old" THEN "fail" ELSE "decide")
    /\ UNCHANGED <<locks, Files, Memory, Processes, hardwareVars>>

Initialized(n) == file.registered /\ file.launch = n

\* ... then the acknowledgement, the state file and the process; a diagnostic endpoint
\* may have passed its checkpoint and left by then.  A turn that finds nothing new is no
\* step, so that the next one begins only for a cancel.
Decide(t) ==
    /\ In(t, "decide")
    /\ LET n == call[t].launch IN
       \/ /\ ack = n /\ Initialized(n) /\ file.state # "failed"
          /\ Alive(n) \/ file.state = "passed"
          /\ To(t, "started") /\ Gives(t, {"launch"}) /\ ack' = 0
       \/ /\ ~Alive(n) \/ (Initialized(n) /\ file.state = "failed")
          /\ To(t, "fail") /\ UNCHANGED <<locks, ack>>
       \/ /\ Alive(n) /\ ~(ack = n /\ Initialized(n)) /\ call[t].generation = "old"
          /\ To(t, "wait") /\ UNCHANGED <<locks, ack>>
    /\ UNCHANGED <<file, Memory, Processes, hardwareVars>>

\* The start-up deadline (ENDPOINT_STARTUP_TIMEOUT_SECONDS).
Deadline(t) ==
    /\ In(t, "wait") \/ In(t, "decide")
    /\ To(t, "fail")
    /\ UNCHANGED <<locks, Files, Memory, Processes, hardwareVars>>

\* fail_start: the process is stopped ...
Fail(t) ==
    /\ In(t, "fail") /\ To(t, "record")
    /\ Terminated({call[t].launch})
    /\ UNCHANGED <<locks, ack, Memory, hardwareVars>>

\* ... the failure recorded, unless the endpoint has recorded its own, and the adapter
\* released, unless the diagnostic does that.
RecordFailure(t, key, diagnostic) ==
    /\ In(t, "record") /\ Free("state")
    /\ LET n == call[t].launch IN
        /\ IF Initialized(n) /\ file.state = "failed" THEN UNCHANGED file
           ELSE Says(n, key, "failed", FALSE)
        /\ popen' = IF popen = n THEN 0 ELSE popen
    /\ ack' = 0
    /\ IF diagnostic
       THEN To(t, "refused") /\ Gives(t, {"launch"}) /\ UNCHANGED hardwareVars
       ELSE To(t, "releasing") /\ Calls(t, "release") /\ UNCHANGED locks
    /\ UNCHANGED <<session, Processes>>

Released(t) ==
    /\ In(t, "releasing") /\ Forgets(t)
    /\ To(t, "refused") /\ Gives(t, {"state", "launch"})
    /\ UNCHANGED <<Files, Memory, Processes>>

LaunchStep(t, key, retry, diagnostic) ==
    \/ EnterLaunch(t) \/ FindRunning(t, key) \/ FindLaunched(t, key, retry)
    \/ Start(t, key, retry) \/ CannotStart(t, key, retry, diagnostic)
    \/ Wait(t) \/ Decide(t) \/ Deadline(t)
    \/ Fail(t) \/ RecordFailure(t, key, diagnostic) \/ Released(t)

-----------------------------------------------------------------------------
(* stop_endpoint, with or without state.lock held by its caller.                *)

\* cancel_launch makes every generation read so far an old one.
Outdated(c) == [t \in Threads |->
                   IF c[t].generation = "current" THEN [c[t] EXCEPT !.generation = "old"]
                   ELSE c[t]]

Cancel(t) ==
    /\ In(t, "cancel") /\ locks["state"] \in {NoThread, t}
    /\ call' = [Outdated(call) EXCEPT ![t].phase = "terminate"]
    /\ UNCHANGED <<locks, Files, Memory, Processes, hardwareVars>>

\* The process at hand, then the one the file names; one that cannot be signalled or
\* outlives the signals is an error.
Terminate(t) ==
    /\ In(t, "terminate")
    /\ \/ /\ Terminated({n \in Launches : Alive(n) /\ (n = popen \/ (Verified /\ n = file.launch))})
          /\ To(t, "forget")
       \/ /\ file.registered
          /\ To(t, "unstopped") /\ UNCHANGED <<file, Processes>>
    /\ UNCHANGED <<locks, ack, Memory, hardwareVars>>

Forget(t) ==
    /\ In(t, "forget") /\ To(t, "stopped")
    /\ popen' = 0 /\ session' = FALSE
    /\ UNCHANGED <<locks, Files, Processes, hardwareVars>>

StopStep(t) == Cancel(t) \/ Terminate(t) \/ Forget(t)

-----------------------------------------------------------------------------
(* The control process dies; the endpoint process does not.                    *)
LaunchCrash ==
    /\ locks' = [l \in DOMAIN locks |-> NoThread]
    /\ call' = [t \in Threads |-> NoCall]
    /\ popen' = 0 /\ session' = Verified
    /\ UNCHANGED <<Files, Processes>>
    /\ HardwareCrash
=============================================================================
