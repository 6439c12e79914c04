------------------------- MODULE ConnectionService -------------------------
(***************************************************************************)
(* The serialized facade of the desktop backend over a connection run:      *)
(* ConnectionRunService and RunControl (service.py), and the production     *)
(* adapter between them and the lifecycle (production_run.py).               *)
(*                                                                         *)
(* Four threads share a record: HTTP requests put commands in a queue, one  *)
(* command loop applies them and the events, a run thread drives the        *)
(* executor and publishes events into the same queue, and a watchdog looks   *)
(* at the heartbeat clock.  The record is saved after every change, and once *)
(* more when the command's answer is remembered; the process may die between *)
(* the two.  What the executor does with the machine is ConnectionRun: here  *)
(* a run holds it from the launch until somebody verified its cleanup.       *)
(*                                                                         *)
(* There is no clock: the endpoint sends a heartbeat every two seconds, the  *)
(* drive loop takes it at once, and no other place of the run thread does,   *)
(* so ten seconds without one can pass anywhere but in a drive loop whose    *)
(* endpoint is alive.                                                       *)
(***************************************************************************)
EXTENDS Naturals, Sequences

CONSTANTS
    MaxCommands,    \* commands the user interface issues, each with its own id
    MaxRuns,
    MaxQueue,       \* the user interface adds no command to a queue this long
    MaxRepeats,     \* how often it repeats one of its commands
    MaxKnown,       \* remembered answers (128 in the code)
    MaxBoots

ASSUME ServiceAssumption ==
    /\ {MaxCommands, MaxRuns, MaxQueue, MaxKnown} \subseteq Nat \ {0}
    /\ MaxBoots \in Nat /\ MaxRepeats \in Nat

VARIABLES
    record,     \* self._record
    disk,       \* connection-service-state.json
    ctl,        \* the RunControl of the current run, as its thread holds it
    queue,
    pending,    \* the command applied and saved but not yet remembered
    rpc,        \* the run thread
    report,     \* what the run thread hands to "finished"
    watchdog,   \* "off", "on"
    beats,      \* the endpoint's heartbeat thread: "none", "beating", "silent"
    mode,       \* "up", "closing" (close waits), "closed" (the loop drains), "down"
    issued,     \* how many commands the user interface has issued
    ui,         \* those it may still repeat
    held,       \* the run's adapter, endpoint or room, not verified as given back
    repeats,
    \* history
    applied,    \* how often a command took effect
    boots

Ids == 1..MaxCommands

threadVars == <<rpc, report, watchdog, beats>>
historyVars == <<applied, boots>>
vars == <<record, disk, ctl, queue, pending, threadVars, mode, issued, ui, repeats, held, historyVars>>

NoControl == [run |-> 0, listed |-> FALSE, ckpt |-> FALSE, continued |-> FALSE,
              term |-> "none", role |-> FALSE, cleanup |-> FALSE, started |-> FALSE]

NoRecord == [run |-> 0, phase |-> "none", role |-> FALSE, ckpt |-> FALSE,
             room |-> FALSE, failure |-> "none", functional |-> "pending",
             cleanup |-> "pending", known |-> <<>>]

NoReport == [functional |-> "none", cleanup |-> "none", failure |-> "none", room |-> TRUE]

Init ==
    /\ record = NoRecord /\ disk = NoRecord /\ ctl = NoControl
    /\ queue = <<>> /\ pending = 0
    /\ rpc = "none" /\ report = NoReport /\ watchdog = "off" /\ beats = "none"
    /\ mode = "up" /\ issued = 0 /\ ui = {} /\ repeats = 0 /\ held = FALSE
    /\ applied = [i \in Ids |-> 0] /\ boots = 0

\* A command names the revision it was decided on: it is fresh until the next change.
Cmd(op, id, r) == [op |-> op, id |-> id, run |-> r.run, fresh |-> TRUE]
Event(e, run) == [op |-> "event", id |-> 0, run |-> run, fresh |-> FALSE, event |-> e]

Stale(q) == [k \in DOMAIN q |-> [q[k] EXCEPT !.fresh = FALSE]]
StaleUi == ui' = {[c EXCEPT !.fresh = FALSE] : c \in ui}

-----------------------------------------------------------------------------
(* The requests.                                                             *)

Resolved(r) == r.run = 0 \/ r.phase = "terminal"

(* Mutant: a finished cleanup is enough, verified or not.                     *)
MutantStartAfterFailure(r) == r.run = 0 \/ r.cleanup \in {"verified", "failed"}

StartAllowed(r) == r.run = 0 \/ (r.phase = "terminal" /\ r.cleanup = "verified")

\* _project: what the user interface may ask for.
Allowed(r) ==
    (IF r.phase \in {"created", "preflight", "running", "awaiting_user"} THEN {"stop"} ELSE {})
    \cup (IF r.room /\ ~r.role /\ r.phase \in {"preflight", "running"} THEN {"connect"} ELSE {})
    \cup (IF r.phase = "awaiting_user" THEN {"continue"} ELSE {})
    \cup (IF r.phase = "running" THEN {"end"} ELSE {})
    \cup (IF r.phase = "terminal" /\ r.cleanup = "verified" /\ r.room THEN {"leave"} ELSE {})

\* What the desktop offers: the allowed actions, a start, a retry, and its own end.
Offered(r) ==
    Allowed(r) \cup {"shutdown"}
    \cup (IF StartAllowed(r) THEN {"start"} ELSE {})
    \cup (IF StartAllowed(r) /\ r.run > 0 THEN {"retry"} ELSE {})

\* _submit: the caller waits for the answer only so long, and may ask again.
Sends(c) == queue' = Append(queue, c)

\* One of the service's operations, with a command id of its own.
Submit ==
    /\ mode = "up" /\ issued < MaxCommands /\ Len(queue) < MaxQueue
    /\ \E op \in Offered(record) :
        LET c == Cmd(op, issued + 1, record)
        IN /\ ui' = IF repeats < MaxRepeats THEN ui \cup {c} ELSE {}
           /\ Sends(c)
    /\ issued' = issued + 1
    /\ UNCHANGED <<record, disk, ctl, pending, threadVars, mode, repeats, held, historyVars>>

Resubmit ==
    /\ mode = "up" /\ Len(queue) < MaxQueue /\ repeats < MaxRepeats
    /\ repeats' = repeats + 1
    /\ \E c \in ui : Sends(c)
    /\ ui' = IF repeats' < MaxRepeats THEN ui ELSE {}
    /\ UNCHANGED <<record, disk, ctl, pending, threadVars, mode, issued, held, historyVars>>

-----------------------------------------------------------------------------
(* The command loop.                                                         *)

\* request_termination
MayTerminate(action) == ~ctl.cleanup /\ ctl.term \in {"none", action}

NewRun(r) == [NoRecord EXCEPT !.run = r.run + 1, !.phase = "created", !.known = r.known]

Busy == pending # 0
Save(r) == record' = r /\ disk' = r

Known(id) == \E k \in 1..Len(record.known) : record.known[k] = id

(* Mutant: the revision is not compared, only the answers are remembered.     *)
MutantAnyRevision(c) ==
    CASE c.op = "start" -> StartAllowed(record) /\ record.run < MaxRuns
      [] c.op = "retry" -> record.run > 0 /\ StartAllowed(record) /\ record.run < MaxRuns
      [] c.op = "shutdown" -> c.run = record.run /\ record.run > 0
            /\ (record.phase = "terminal" \/ (ctl.listed /\ MayTerminate("stop")))
      [] OTHER -> c.run = record.run /\ c.op \in Allowed(record)
            /\ (c.op = "leave" \/ ctl.listed)
            /\ (c.op \in {"stop", "end"} => MayTerminate(c.op))
            /\ (c.op = "continue" => record.ckpt /\ ctl.ckpt)

\* What the handlers refuse: another run, an old revision, an action that is not
\* allowed, a control that is gone or already cleaning.
Accepts(c) ==
    /\ c.fresh
    /\ CASE c.op = "start" -> StartAllowed(record) /\ record.run < MaxRuns
         [] c.op = "retry" -> record.run > 0 /\ StartAllowed(record) /\ record.run < MaxRuns
         [] c.op = "shutdown" -> c.run = record.run /\ record.run > 0
               /\ (record.phase = "terminal" \/ (ctl.listed /\ MayTerminate("stop")))
         [] OTHER -> c.run = record.run /\ c.op \in Allowed(record)
               /\ (c.op = "leave" \/ ctl.listed)
               /\ (c.op \in {"stop", "end"} => MayTerminate(c.op))
               /\ (c.op = "continue" => record.ckpt /\ ctl.ckpt)

\* _cmd_start and _cmd_retry
ApplyStart(c) ==
    /\ c.op \in {"start", "retry"}
    /\ Save(NewRun(record))
    /\ ctl' = [NoControl EXCEPT !.run = record.run + 1, !.listed = TRUE]

\* _cmd_command and _cmd_shutdown; "leave" releases the retained room of an ended run.
ApplyCommand(c) ==
    /\ c.op \notin {"start", "retry"}
    /\ Save([record EXCEPT !.room = @ /\ c.op # "leave", !.role = @ \/ c.op = "connect"])
    /\ ctl' = [ctl EXCEPT
          !.term = CASE c.op \in {"stop", "end"} -> c.op
                     [] c.op = "shutdown" /\ record.phase # "terminal" -> "stop"
                     [] OTHER -> @,
          !.role = @ \/ c.op = "connect",
          !.continued = @ \/ c.op = "continue"]

\* The events request_termination publishes come after the command.
Echo(c) ==
    IF ctl'.term # ctl.term THEN Append(Tail(queue), Event("termination", ctl.run))
    ELSE Tail(queue)

\* An answer known from before, an effect, or an error.
TakeCommand ==
    /\ mode # "down" /\ ~Busy /\ queue # <<>> /\ Head(queue).op # "event"
    /\ LET c == Head(queue)
       IN \/ /\ Known(c.id)
             /\ queue' = Tail(queue)
             /\ UNCHANGED <<record, disk, ctl, pending, ui, applied>>
          \/ /\ ~Known(c.id) /\ Accepts(c)
             /\ ApplyStart(c) \/ ApplyCommand(c)
             /\ pending' = c.id /\ applied' = [applied EXCEPT ![c.id] = @ + 1]
             /\ queue' = Stale(Echo(c)) /\ StaleUi
          \/ /\ ~Known(c.id) /\ ~Accepts(c)
             /\ queue' = Tail(queue)
             /\ UNCHANGED <<record, disk, ctl, pending, ui, applied>>
    /\ UNCHANGED <<threadVars, mode, issued, repeats, held, boots>>

(* Mutant: the oldest answers are never forgotten.                            *)
MutantRememberAll(all) == all

\* _remember keeps the newest answers.
Kept(all) == IF Len(all) > MaxKnown THEN Tail(all) ELSE all

\* _remember, the answer, and for a start the thread of the new run.
Remember ==
    /\ mode # "down" /\ Busy
    /\ Save([record EXCEPT !.known = Kept(Append(@, pending))])
    /\ pending' = 0
    /\ IF record.phase = "created" /\ rpc = "none"
       THEN /\ rpc' = "establish" /\ watchdog' = "on"
            /\ queue' = Append(queue, Event("preflight", record.run))
       ELSE UNCHANGED <<rpc, watchdog, queue>>
    /\ UNCHANGED <<ctl, report, beats, mode, issued, ui, repeats, held, applied, boots>>

\* _cmd_event: a published change of the current run, whatever the record shows.
Applied(e) ==
    CASE e = "preflight" -> [record EXCEPT !.phase = "preflight"]
      [] e = "gate" -> [record EXCEPT !.phase = "running"]
      [] e = "authority" -> [record EXCEPT !.room = TRUE]
      [] e = "checkpoint" -> [record EXCEPT !.phase = "awaiting_user", !.ckpt = TRUE]
      [] e = "cleared" -> [record EXCEPT !.phase = "running", !.ckpt = FALSE]
      [] e = "cleanup" -> [record EXCEPT !.phase = "cleaning", !.ckpt = FALSE, !.cleanup = "running"]
      [] e = "watchdog" -> [record EXCEPT !.failure = IF @ = "none" THEN "heartbeat" ELSE @]
      [] OTHER -> record

(* Mutant: a failure met while closing replaces the one that ended the run.    *)
MutantLastFailure(r) ==
    LET failure == IF report.failure # "none" THEN report.failure ELSE r.failure
    IN [r EXCEPT !.failure = failure,
                 !.functional = IF report.functional = "canceled" /\ failure # "none"
                                THEN "failed" ELSE report.functional,
                 !.cleanup = report.cleanup,
                 !.room = @ /\ report.room,
                 !.phase = IF report.cleanup = "verified" THEN "terminal" ELSE "cleaning"]

\* _cmd_finished: the first failure is kept, and a cancellation it caused is a failure.
Finished(r) ==
    LET failure == IF r.failure = "none" THEN report.failure ELSE r.failure
    IN [r EXCEPT !.failure = failure,
                 !.functional = IF report.functional = "canceled" /\ failure # "none"
                                THEN "failed" ELSE report.functional,
                 !.cleanup = report.cleanup,
                 !.room = @ /\ report.room,
                 !.phase = IF report.cleanup = "verified" THEN "terminal" ELSE "cleaning"]

TakeEvent ==
    /\ mode # "down" /\ ~Busy /\ queue # <<>> /\ Head(queue).op = "event"
    /\ LET e == Head(queue)
       IN IF e.run # record.run
          THEN queue' = Tail(queue) /\ UNCHANGED <<record, disk, ctl, rpc, report, beats, ui>>
          ELSE /\ queue' = Stale(Tail(queue)) /\ StaleUi
               /\ IF e.event = "finished"
                  THEN /\ Save(Finished(record))
                       /\ ctl' = NoControl /\ rpc' = "none" /\ report' = NoReport /\ beats' = "none"
                  ELSE Save(Applied(e.event)) /\ UNCHANGED <<ctl, rpc, report, beats>>
    /\ UNCHANGED <<pending, watchdog, mode, issued, repeats, held, historyVars>>

-----------------------------------------------------------------------------
(* The run thread: the service's _run around the runner, and what the         *)
(* production lifecycle publishes and waits for.                             *)

\* _submit_internal drops what comes after close.
Published(es) ==
    queue' = IF mode = "closed" THEN queue
             ELSE queue \o [k \in 1..Len(es) |-> Event(es[k], ctl.run)]

RunStep(at) ==
    /\ rpc = at /\ mode # "down"
    /\ UNCHANGED <<record, disk, pending, mode, issued, ui, repeats, historyVars>>

\* Any step of the runner may raise or be refused; its cleanup follows.
Fails(at, failure) ==
    /\ RunStep(at)
    /\ rpc' = "cleanup" /\ report' = [NoReport EXCEPT !.functional = "failed", !.failure = failure]
    /\ UNCHANGED <<ctl, queue, watchdog, beats, held>>

Canceled(at) ==
    /\ RunStep(at)
    /\ rpc' = "cleanup" /\ report' = [NoReport EXCEPT !.functional = "canceled"]
    /\ UNCHANGED <<ctl, queue, watchdog, beats, held>>

\* The executor asks for the termination between its gates (cancel_probe).
Establish ==
    \/ /\ RunStep("establish") /\ ctl.term = "none"
       /\ Published(<<"authority">>) /\ rpc' = "role" /\ held' = TRUE
       /\ UNCHANGED <<ctl, report, watchdog, beats>>
    \/ ctl.term # "none" /\ Canceled("establish")
    \/ Fails("establish", "run")

\* wait_for_role ends on a role, on "stop", or at its deadline.
AwaitRole ==
    \/ /\ RunStep("role") /\ ctl.role
       /\ Published(<<"gate">>) /\ rpc' = "launch"
       /\ UNCHANGED <<ctl, report, watchdog, beats, held>>
    \/ ~ctl.role /\ ctl.term = "stop" /\ Canceled("role")
    \/ ~ctl.role /\ Fails("role", "run")

MarkEndpointStarted ==
    \/ /\ RunStep("launch") /\ ctl.term = "none"
       /\ ctl' = [ctl EXCEPT !.started = TRUE]
       /\ beats' = "beating" /\ rpc' = "drive" /\ Published(<<"endpoint">>)
       /\ UNCHANGED <<report, watchdog, held>>
    \/ ctl.term # "none" /\ Canceled("launch")
    \/ Fails("launch", "run")

\* One turn of the loop: a termination ends it, the user is asked
\* to act on the console, the owner is waited for, or the run ends by itself.
DriveTurn ==
    \/ ctl.term # "none" /\ Canceled("drive")
    \/ /\ RunStep("drive") /\ ctl.term = "none" /\ ~record.ckpt /\ ~ctl.ckpt /\ ~ctl.continued
       /\ Published(<<"checkpoint">>) /\ rpc' = "await" /\ ctl' = [ctl EXCEPT !.ckpt = TRUE]
       /\ UNCHANGED <<report, watchdog, beats, held>>
    \/ /\ RunStep("drive") /\ ctl.term = "none"
       /\ rpc' = "confirm"
       /\ UNCHANGED <<ctl, queue, report, watchdog, beats, held>>
    \/ /\ RunStep("drive") /\ ctl.term = "none"
       /\ rpc' = "cleanup"
       /\ \E f \in {"passed", "failed"} :
             report' = [NoReport EXCEPT !.functional = f,
                                        !.failure = IF f = "failed" THEN "run" ELSE "none"]
       /\ UNCHANGED <<ctl, queue, watchdog, beats, held>>

(* Mutant: the user is waited for without a deadline and without the termination. *)
MutantAwaitDeaf ==
    /\ RunStep("await") /\ ctl.continued
    /\ ctl' = [ctl EXCEPT !.continued = FALSE, !.ckpt = FALSE]
    /\ Published(<<"cleared">>) /\ rpc' = "drive"
    /\ UNCHANGED <<report, watchdog, beats, held>>

\* await_user
AwaitUser ==
    \/ /\ RunStep("await") /\ ctl.continued
       /\ ctl' = [ctl EXCEPT !.continued = FALSE, !.ckpt = FALSE]
       /\ Published(<<"cleared">>) /\ rpc' = "drive"
       /\ UNCHANGED <<report, watchdog, beats, held>>
    \/ ~ctl.continued /\ ctl.term = "stop" /\ Canceled("await")
    \/ ~ctl.continued /\ Fails("await", "run")

\* wait_for_termination
AwaitTermination ==
    \/ /\ RunStep("confirm") /\ ctl.term # "none"
       /\ rpc' = "cleanup"
       /\ report' = [NoReport EXCEPT !.functional = IF ctl.term = "end" THEN "passed" ELSE "canceled"]
       /\ UNCHANGED <<ctl, queue, watchdog, beats, held>>
    \/ ctl.term = "none" /\ Fails("confirm", "run")

EndpointSilent ==
    /\ beats = "beating" /\ beats' = "silent"
    /\ UNCHANGED <<record, disk, ctl, queue, pending, rpc, report, watchdog, mode, issued, ui, repeats, held, historyVars>>

\* From here no termination is taken any more and no checkpoint is open.
BeginsCleanup == ctl' = [ctl EXCEPT !.cleanup = TRUE, !.ckpt = FALSE]

\* After begin_cleanup the gates D5 to D11 publish "running" again; the
\* runner returns a report, or raises and recover_failed_run measures the cleanup.
Cleanup ==
    /\ RunStep("cleanup")
    /\ BeginsCleanup
    /\ beats' = IF beats = "beating" THEN "silent" ELSE beats
    /\ \E clean \in {"verified", "failed"}, kept \in BOOLEAN :
        /\ report' = [report EXCEPT !.cleanup = clean, !.room = kept]
        /\ held' = (held /\ clean = "failed")
        /\ Published(IF ctl.started /\ clean = "verified" THEN <<"cleanup", "gate">>
                     ELSE <<"cleanup">>)
        /\ ~kept => clean = "verified"
    /\ rpc' = "returned"
    /\ UNCHANGED watchdog

\* finished.set, the watchdog is joined, and the last two entries of the queue.
Return ==
    /\ RunStep("returned")
    /\ watchdog' = "off"
    /\ IF mode = "closed" THEN UNCHANGED queue
       ELSE queue' = queue \o <<Event("cleanup", ctl.run), Event("finished", ctl.run)>>
    /\ rpc' = "ended"
    /\ UNCHANGED <<ctl, report, beats, held>>

RunThread ==
    \/ Establish \/ AwaitRole \/ MarkEndpointStarted \/ DriveTurn
    \/ AwaitUser \/ AwaitTermination \/ Cleanup \/ Return

-----------------------------------------------------------------------------
(* The watchdog.                                                             *)

WatchdogFires ==
    /\ watchdog = "on" /\ ctl.started /\ mode # "down"
    /\ rpc # "drive" \/ beats # "beating"
    /\ watchdog' = "off"
    /\ ctl' = IF MayTerminate("stop") THEN [ctl EXCEPT !.term = "stop"] ELSE ctl
    /\ Published(IF MayTerminate("stop") THEN <<"watchdog", "termination">> ELSE <<"watchdog">>)
    /\ UNCHANGED <<record, disk, pending, rpc, report, beats, mode, issued, ui, repeats, held, historyVars>>

-----------------------------------------------------------------------------
(* The process.                                                              *)

\* close: a run that is not terminal is asked to stop, and waited for so long.
Close ==
    /\ mode = "up"
    /\ mode' = "closing"
    /\ ctl' = IF ~Resolved(record) /\ ctl.listed /\ MayTerminate("stop") /\ ctl.term = "none"
              THEN [ctl EXCEPT !.term = "stop"] ELSE ctl
    /\ UNCHANGED <<record, disk, queue, pending, threadVars, issued, ui, repeats, held, historyVars>>

StopLoop ==
    /\ mode = "closing"
    /\ mode' = "closed"
    /\ UNCHANGED <<record, disk, ctl, queue, pending, threadVars, issued, ui, repeats, held, historyVars>>

Gone ==
    /\ mode' = "down" /\ ctl' = NoControl /\ queue' = <<>> /\ pending' = 0
    /\ rpc' = "none" /\ report' = NoReport /\ watchdog' = "off" /\ beats' = "none"
    /\ UNCHANGED <<record, disk, issued, ui, repeats, held, historyVars>>

\* The end of a closed process, or a crash.
Exit == mode = "closed" /\ queue = <<>> /\ ~Busy /\ Gone
Dies == mode \in {"up", "closing"} /\ boots < MaxBoots /\ Gone

\* _load and _recover_startup.
Boot ==
    /\ mode = "down" /\ boots < MaxBoots
    /\ boots' = boots + 1 /\ mode' = "up"
    /\ IF Resolved(disk) THEN record' = disk /\ UNCHANGED <<disk, held, ui>>
       ELSE /\ StaleUi
            /\ \/ /\ Save([disk EXCEPT !.phase = "terminal", !.functional = "interrupted",
                                        !.failure = "interrupted", !.cleanup = "verified"])
                  /\ held' = FALSE
               \/ /\ Save([disk EXCEPT !.phase = "cleaning", !.cleanup = "failed"])
                  /\ UNCHANGED held
    /\ UNCHANGED <<ctl, queue, pending, threadVars, issued, repeats, applied>>

CommandLoop == TakeCommand \/ Remember \/ TakeEvent

Next ==
    \/ Submit \/ Resubmit \/ CommandLoop \/ RunThread
    \/ EndpointSilent \/ WatchdogFires
    \/ Close \/ StopLoop \/ Exit \/ Dies \/ Boot

Spec == Init /\ [][Next]_vars

\* The loop and the run thread are threads that only wait with deadlines; a process
\* that was told to close ends.
Fairness == WF_vars(CommandLoop) /\ WF_vars(RunThread) /\ WF_vars(StopLoop) /\ WF_vars(Exit)
FairSpec == Spec /\ Fairness
-----------------------------------------------------------------------------
(* Properties.                                                               *)

ServiceTypeOK ==
    /\ record.phase \in {"none", "created", "preflight", "running", "awaiting_user", "cleaning", "terminal"}
    /\ record.functional \in {"pending", "passed", "failed", "canceled", "interrupted"}
    /\ record.cleanup \in {"pending", "running", "verified", "failed"}
    /\ ctl.term \in {"none", "stop", "end"}
    /\ Len(record.known) <= MaxKnown
    /\ pending \in 0..MaxCommands

\* However often the user interface repeats a command whose answer it did not get, also
\* after a crash and after the answer was forgotten, it takes effect at most once
\* (_idempotent, _remember, _require).
CommandAppliedOnce == \A i \in Ids : applied[i] <= 1

\* The record and its commands belong together (_remember).
CommandsAreConsistent == ServiceTypeOK /\ CommandAppliedOnce

\* A new run starts only when everything the last one held is verified to be given back,
\* by its own report or by a recovery after a crash (_cmd_start, _recover_startup).
NewRunFindsMachineFree == [][record'.run > record.run /\ mode = "up" => ~held]_vars

\* Within a run the first failure stays the recorded one: the watchdog's, the runner's or
\* the recovery's of a closed run do not replace each other (_cmd_event, _cmd_finished).
FirstFailureStays ==
    [][record.failure # "none" /\ record'.run = record.run /\ mode # "down" =>
          record'.failure = record.failure]_vars

\* One run's leftovers and one run's failure stay its own (_cmd_start, _cmd_finished).
RunsAreSeparate == NewRunFindsMachineFree /\ FirstFailureStays

\* An accepted stop ends the run: its control is taken down, whatever the run thread was
\* waiting for and whatever else is in the queue (request_termination).
StopEndsRun == (ctl.listed /\ ctl.term = "stop") ~> ~ctl.listed

\* The watchdog's failure means what its message says: "identity-bound endpoint
\* heartbeat stopped" (_run, watchdog).  It does not, while the user is awaited: README, section 3.
WatchdogMeansSilence ==
    [][watchdog = "on" /\ watchdog' = "off" /\ rpc \in {"await", "confirm"} =>
          beats # "beating"]_vars
=============================================================================
