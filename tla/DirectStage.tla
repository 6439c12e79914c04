---------------------------- MODULE DirectStage ----------------------------
(***************************************************************************)
(* The radio stages of one side: DirectAStage (a_stage.py: join the room a   *)
(* Switch hosts, gates A0-A9) and DirectBStage (b_stage.py: host a room a     *)
(* Switch joins, gates B2-B10), and the two programs around them.             *)
(*                                                                         *)
(* "direct": an endpoint runs the stage once, looks at the radio and sends    *)
(* its gates and its report through a pipe to the control process, which      *)
(* counts the gates itself.  "distributed": the endpoint runs the stage in a  *)
(* thread (StageSession), keeps it open while C runs, and reads the parent's  *)
(* commands; its D stage later claims that the LDN context is released.       *)
(*                                                                         *)
(* A stage is a chain of gates over a stack of contexts.  Whatever happens,   *)
(* the stack is unwound one context at a time, and each exit may fail too.    *)
(* Gates are numbered from 0 in each role; the Switch, the LDN library and    *)
(* the kernel are the environment, and every misbehaviour of theirs (an      *)
(* error, an absent answer, a Switch that leaves) sets "faulty".              *)
(***************************************************************************)
EXTENDS Naturals, Sequences

CONSTANTS
    Roles,          \* the roles and
    Programs,       \* the programs that are run
    Plane           \* "real": the Pia sockets; "injected": data_plane_factory is given

ASSUME StageAssumption ==
    /\ Roles \subseteq {"a", "b"} /\ Programs \subseteq {"direct", "distributed"}
    /\ Plane \in {"real", "injected"}

VARIABLES
    role, program,  \* chosen at the start
    \* the stage
    step,           \* "off", "gates", "checkpoint", "hold", "session", "unwind", "over", "dead"
    passed,         \* gates passed
    open,           \* contexts entered and not yet exited
    error,          \* an exception is under way
    intact,         \* it is still the one the body raised
    report,         \* what the stage returned
    \* the surroundings
    switch,         \* "away", "here", "gone"
    left,           \* contexts that were not released
    faulty,
    held,           \* history: a bounded hold ended with the Switch still there
    \* the direct program
    pipe, seen, control,
    \* the distributed program
    owner,          \* its main thread
    resources,      \* StageSession.resources: handed over
    stop,           \* StageSession._stop
    commands,       \* sent by the parent, not yet read
    sent,           \* what the parent has sent
    took,           \* history: the closing intent was read
    claim           \* what the D stage says of StageSession.stop: "", "released",
                    \* "refused"; "abandoned" without a D stage

stageVars == <<step, passed, open, error, intact, report>>
worldVars == <<switch, left, faulty, held>>
controlVars == <<pipe, seen, control>>
ownerVars == <<owner, resources, stop, commands, sent, took, claim>>
vars == <<role, program, stageVars, worldVars, controlVars, ownerVars>>

\* The contexts of A's _connect and B's _create_network, then the sockets.
Stack == IF role = "a" THEN <<"factory", "interface", "station", "network", "plane">>
         ELSE <<"factory", "interface", "ap", "monitor", "tap", "network", "plane">>

RadioContexts == {"interface", "ap", "monitor", "tap"}

Last == IF role = "a" THEN 9 ELSE 8
AllPassed == passed = Last + 1

\* How many contexts are open when the next gate is looked at: A5 and A6 happen while
\* the station connects, A7 and A8 while the network starts.
Depth ==
    IF role = "a"
    THEN CASE passed < 5 -> 0 [] passed \in {5, 6} -> 2 [] passed \in {7, 8} -> 3 [] OTHER -> 5
    ELSE CASE passed < 3 -> 0 [] passed = 3 -> 6 [] OTHER -> 7

NoReport == [status |-> "none", gates |-> 0, released |-> "absent", quiet |-> "absent"]

Init ==
    /\ role \in Roles /\ program \in Programs
    /\ step = "off" /\ passed = 0 /\ open = <<>> /\ error = FALSE /\ intact = TRUE
    /\ report = NoReport
    /\ switch = (IF role = "a" THEN "here" ELSE "away")
    /\ left = {} /\ faulty = FALSE /\ held = FALSE
    /\ pipe = <<>> /\ seen = 0 /\ control = "waiting"
    /\ owner = "start" /\ resources = FALSE /\ stop = FALSE
    /\ commands = <<>> /\ sent = {} /\ took = FALSE /\ claim = ""

-----------------------------------------------------------------------------
(* The stage.                                                                *)

Emits(k) == pipe' = IF program = "direct" THEN pipe \o k ELSE pipe

\* _pass: append, then the sink.
Pass(n) ==
    /\ passed' = passed + n
    /\ Emits([i \in 1..n |-> passed + i - 1])

Raises ==
    /\ error' = TRUE /\ step' = "unwind"
    \* B: an exception out of the manager's own enter is not the body's
    /\ intact' = ~(role = "b" /\ passed = 3 /\ Len(open) < 6)

\* run of the direct endpoints; StageSession.start
Start ==
    /\ step = "off" /\ control = "waiting"
    /\ owner = (IF program = "direct" THEN "start" ELSE "waiting")
    /\ step' = "gates"
    /\ UNCHANGED <<role, program, passed, open, error, intact, report, worldVars, controlVars, ownerVars>>

\* The real sockets want another connected participant in the network (_refresh_identity).
Opens(context) == context = "plane" /\ Plane = "real" => switch = "here"

EnterContext ==
    /\ step = "gates" /\ Len(open) < Depth
    /\ LET next == Stack[Len(open) + 1]
       IN \/ /\ Opens(next)
             /\ open' = Append(open, next)
             /\ UNCHANGED <<step, error, intact, left, faulty>>
          \/ /\ Raises /\ faulty' = (faulty \/ Opens(next))
             /\ \E leak \in {{}, {next}} : left' = left \cup (leak \ {"plane"})
             /\ UNCHANGED open
    /\ UNCHANGED <<role, program, passed, report, switch, held, controlVars, ownerVars>>

\* The gates that look at the other participant: A's scan and its exchange with the
\* host, B's association and control port.
HostWanted == passed = 1 \/ passed \in 5..8
PeerWanted == passed \in 5..7
NeedsSwitch == IF role = "a" THEN HostWanted ELSE PeerWanted

\* The sink of B5 asks the user to let the Switch join, in the stage's own thread.
PassGate ==
    /\ step = "gates" /\ Len(open) = Depth /\ ~AllPassed
    /\ ~(role = "b" /\ passed = 8)
    /\ NeedsSwitch => switch = "here"
    /\ IF role = "b" /\ passed = 5 THEN Pass(2) ELSE Pass(1)
    /\ step' = CASE role = "a" /\ passed = 9 -> IF program = "direct" THEN "hold" ELSE "session"
                 [] role = "b" /\ passed = 7 -> "hold"
                 [] role = "b" /\ passed = 3 /\ program = "distributed" -> "checkpoint"
                 [] OTHER -> "gates"
    /\ resources' = (resources \/ step' = "session")
    /\ UNCHANGED <<role, program, open, error, intact, report, worldVars, seen, control,
                   owner, stop, commands, sent, took, claim>>

\* A gate that finds its condition wrong, and the participants gone.
GateFails ==
    /\ step = "gates" /\ Len(open) = Depth /\ ~AllPassed
    /\ Raises /\ faulty' = TRUE
    /\ UNCHANGED <<role, program, passed, open, report, switch, left, held, controlVars, ownerVars>>

(* Mutant: the deadlines of the gates also end the session.                   *)
MutantDeadlineOf(s) == s \in {"gates", "session"}

\* Where a deadline of the scope may expire: waiting for a gate; the hold is shorter
\* than its deadline, and a session has none.
DeadlineOf(s) == s = "gates"

Expires ==
    /\ DeadlineOf(step) /\ passed >= (IF role = "a" THEN 1 ELSE 3)
    /\ Raises /\ faulty' = (faulty \/ step = "gates")
    /\ UNCHANGED <<role, program, passed, open, report, switch, left, held, controlVars, ownerVars>>

(* Mutant: the hold only waits, and does not look at the events.              *)
MutantHold ==
    /\ step = "hold"
    /\ IF role = "b" THEN Pass(1) ELSE UNCHANGED <<passed, pipe>>
    /\ held' = (switch = "here")
    /\ step' = IF program = "direct" THEN "unwind" ELSE "session"
    /\ resources' = (resources \/ step' = "session")
    /\ UNCHANGED <<role, program, open, error, intact, report, switch, left, faulty,
                   seen, control, owner, stop, commands, sent, took, claim>>

\* _hold: ends by itself, or with the event of a Switch that left.
Hold ==
    /\ step = "hold"
    /\ \/ /\ switch = "here"
          /\ IF role = "b" THEN Pass(1) ELSE UNCHANGED <<passed, pipe>>
          /\ held' = TRUE
          /\ step' = IF program = "direct" THEN "unwind" ELSE "session"
          /\ resources' = (resources \/ step' = "session")
          /\ UNCHANGED <<error, intact>>
       \/ /\ switch # "here"
          /\ Raises
          /\ UNCHANGED <<passed, pipe, held, resources>>
    /\ UNCHANGED <<role, program, open, report, switch, left, faulty,
                   seen, control, owner, stop, commands, sent, took, claim>>

\* StageSession._hold waits for the stop only; the network's own tasks may fail.
Session ==
    /\ step = "session"
    /\ \/ stop /\ step' = "unwind" /\ UNCHANGED <<error, intact, faulty>>
       \/ Raises /\ faulty' = TRUE
    /\ UNCHANGED <<role, program, passed, open, report, switch, left, held, controlVars, ownerVars>>

(* Mutant: the contexts are left in the order they were entered.              *)
MutantUnwind ==
    /\ step = "unwind" /\ open # <<>>
    /\ open' = Tail(open)
    /\ UNCHANGED <<error, intact, left, faulty>>
    /\ UNCHANGED <<role, program, step, passed, report, switch, held, controlVars, ownerVars>>

\* One context exits; closing the sockets swallows its errors.
Unwind ==
    /\ step = "unwind" /\ open # <<>>
    /\ open' = SubSeq(open, 1, Len(open) - 1)
    /\ \/ UNCHANGED <<error, intact, left, faulty>>
       \/ /\ open[Len(open)] # "plane"
          /\ error' = TRUE /\ intact' = FALSE
          /\ left' = left \cup {open[Len(open)]}
          /\ faulty' = TRUE
    /\ UNCHANGED <<role, program, step, passed, report, switch, held, controlVars, ownerVars>>

\* _tracked_network_context; before B5 there is nothing to release.
Released == passed < 3 \/ ~error \/ intact

\* The exceptions become a report: B's is passed once the hold was complete.
Outcome == IF ~error \/ (role = "b" /\ AllPassed) THEN "passed" ELSE "failed"

Conclude ==
    /\ step = "unwind" /\ open = <<>>
    /\ step' = "over"
    /\ report' = [NoReport EXCEPT
          !.status = Outcome, !.gates = passed,
          !.released = IF role = "b" THEN IF Released THEN "yes" ELSE "no" ELSE "absent"]
    /\ UNCHANGED <<role, program, passed, open, error, intact, worldVars, controlVars, ownerVars>>

-----------------------------------------------------------------------------
(* The direct program.                                                       *)

(* Mutant: only the TAP is removed.                                           *)
MutantQuiesced == left \ {"tap"}

\* quiesce_selected_phy (B) stops every interface of the adapter and removes the TAP;
\* quiesce_selected_radio (A) stops the interface the worker was given, no other.
Quiesced == IF role = "b" THEN left \ RadioContexts ELSE left

\* What the endpoint adds to the report, the report file, and its event.  A claims the
\* release without having looked.
DirectReport ==
    /\ program = "direct" /\ step = "over" /\ report.quiet = "absent"
    /\ \/ report' = [report EXCEPT !.quiet = "yes", !.released = IF role = "a" THEN "yes" ELSE @]
          /\ left' = Quiesced /\ UNCHANGED faulty
       \/ report' = [report EXCEPT !.quiet = "no", !.released = IF role = "a" THEN "yes" ELSE @]
          /\ UNCHANGED left /\ faulty' = TRUE
    /\ pipe' = Append(pipe, Last + 1)
    /\ UNCHANGED <<role, program, step, passed, open, error, intact, switch, held,
                   seen, control, ownerVars>>

\* ConnectionRunExecutor._run: the gates one by one, then the report with its gates.
TakeGate ==
    /\ control = "waiting" /\ pipe # <<>> /\ Head(pipe) <= Last
    /\ pipe' = Tail(pipe)
    /\ IF Head(pipe) = seen
       THEN seen' = seen + 1 /\ UNCHANGED control
       ELSE control' = "failed" /\ UNCHANGED seen
    /\ UNCHANGED <<role, program, stageVars, worldVars, ownerVars>>

\* _validate_a_stage, _validate_b_stage
Valid == report.status = "passed" => report.gates = Last + 1

TakeReport ==
    /\ control = "waiting" /\ pipe # <<>> /\ Head(pipe) = Last + 1
    /\ pipe' = Tail(pipe)
    /\ control' = IF report.status = "passed" /\ Valid THEN "passed" ELSE "failed"
    /\ UNCHANGED <<role, program, stageVars, worldVars, seen, ownerVars>>

\* A silent endpoint, a cancellation: the endpoint is ended, its contexts with it.
GiveUp ==
    /\ program = "direct" /\ control = "waiting" /\ step # "off"
    /\ control' = "failed" /\ step' = "dead" /\ faulty' = TRUE
    /\ left' = left \cup {open[i] : i \in DOMAIN open} /\ open' = <<>> /\ pipe' = <<>>
    /\ UNCHANGED <<role, program, passed, error, intact, report, switch, held, seen, ownerVars>>

-----------------------------------------------------------------------------
(* The distributed program: run of distributed_endpoint.                     *)

OwnerStep(from) ==
    /\ program = "distributed" /\ owner = from
    /\ UNCHANGED <<role, program, worldVars, controlVars>>

\* The parent: the user's consent, and one closing intent whenever it likes.
ParentSends ==
    /\ program = "distributed" /\ owner # "ended"
    /\ \E c \in {"continue", "closing"} :
        /\ c \notin sent
        /\ c = "continue" => owner = "consent" \/ step = "checkpoint"
        /\ sent' = sent \cup {c} /\ commands' = Append(commands, c)
    /\ UNCHANGED <<role, program, stageVars, worldVars, controlVars, owner, resources, stop, took, claim>>

\* C0 first; then A asks the user to create the room, B waits for the advertisement.
Prepare ==
    /\ OwnerStep("start")
    /\ owner' = IF role = "a" THEN "consent" ELSE "waiting"
    /\ UNCHANGED <<stageVars, resources, stop, commands, sent, took, claim>>

\* wait_checkpoint in the main thread.
Consent ==
    /\ OwnerStep("consent")
    /\ \/ /\ commands # <<>>
          /\ commands' = Tail(commands)
          /\ took' = (Head(commands) = "closing")
          /\ owner' = IF took' THEN "closing" ELSE "waiting"
       \/ owner' = "failing" /\ UNCHANGED <<commands, took>>
    /\ UNCHANGED <<stageVars, resources, stop, sent, claim>>

\* wait_checkpoint in the sink of B5, in the thread of the stage.
StageConsent ==
    /\ step = "checkpoint"
    /\ \/ /\ commands # <<>>
          /\ commands' = Tail(commands)
          /\ took' = (Head(commands) = "closing")
          /\ IF took' THEN Raises ELSE step' = "gates" /\ UNCHANGED <<error, intact>>
          /\ UNCHANGED faulty
       \/ Raises /\ faulty' = TRUE /\ UNCHANGED <<commands, took>>
    /\ UNCHANGED <<role, program, passed, open, report, switch, left, held, controlVars,
                   owner, resources, stop, sent, claim>>

\* wait_ready
WaitReady ==
    /\ OwnerStep("waiting")
    /\ \/ resources /\ owner' = "using"
       \/ ~resources /\ step = "over" /\ owner' = "failing"
       \/ ~resources /\ step # "off" /\ owner' = "failing"
    /\ UNCHANGED <<stageVars, resources, stop, commands, sent, took, claim>>

\* The oldest command is the parent's closing intent.
Closing ==
    /\ commands # <<>> /\ Head(commands) = "closing"
    /\ commands' = Tail(commands) /\ took' = TRUE /\ owner' = "closing"

\* The active loop: a command, or a failure of C.
Use ==
    /\ OwnerStep("using")
    /\ \/ Closing
       \/ owner' = "failing" /\ UNCHANGED <<commands, took>>
    /\ UNCHANGED <<stageVars, resources, stop, sent, claim>>

\* functional_failed is sent; the parent's intent is waited for so long.
AwaitIntent ==
    /\ OwnerStep("failing")
    /\ \/ Closing
       \/ owner' = "abandoning" /\ UNCHANGED <<commands, took>>
    /\ UNCHANGED <<stageVars, resources, stop, sent, claim>>

\* StageSession.stop
StopSession ==
    /\ program = "distributed" /\ owner \in {"closing", "abandoning"} /\ ~stop
    /\ stop' = TRUE
    /\ UNCHANGED <<role, program, stageVars, worldVars, controlVars,
                   owner, resources, commands, sent, took, claim>>

(* Mutant: the thread is joined, and nobody asks whether it ended.             *)
MutantStopClaim == IF report.released \in {"absent", "yes"} THEN "released" ELSE "refused"

\* The join with its deadline, then the report of the stage, when it has a cleanup.
StopClaim ==
    IF step = "off" \/ (step = "over" /\ report.released \in {"absent", "yes"})
    THEN "released" ELSE "refused"

\* The D stage reports the claim; without an intent nothing is reported.
EndOwner ==
    /\ program = "distributed" /\ owner \in {"closing", "abandoning"} /\ stop
    /\ claim' = IF owner = "closing" THEN StopClaim ELSE "abandoned"
    /\ owner' = "ended"
    /\ UNCHANGED <<role, program, stageVars, worldVars, controlVars, resources, stop, commands, sent, took>>

\* The process ends; a thread that is still busy ends with it.
Exit ==
    /\ program = "distributed" /\ owner = "ended" /\ step \notin {"off", "over", "dead"}
    /\ step' = "dead" /\ open' = <<>>
    /\ left' = left \cup {open[i] : i \in DOMAIN open}
    /\ UNCHANGED <<role, program, passed, error, intact, report, switch, faulty, held, controlVars, ownerVars>>

-----------------------------------------------------------------------------
SwitchMoves ==
    /\ \/ switch = "away" /\ Len(open) >= 6 /\ switch' = "here" /\ UNCHANGED faulty
       \/ switch = "here" /\ switch' = "gone" /\ faulty' = TRUE
    /\ UNCHANGED <<role, program, stageVars, left, held, controlVars, ownerVars>>

StageThread ==
    \/ EnterContext \/ PassGate \/ GateFails \/ Expires \/ Hold \/ Session \/ Unwind \/ Conclude
    \/ StageConsent

Control == TakeGate \/ TakeReport \/ GiveUp
Owner == Prepare \/ Consent \/ WaitReady \/ Use \/ AwaitIntent \/ StopSession \/ EndOwner

Next ==
    \/ Start \/ StageThread \/ DirectReport \/ Control
    \/ ParentSends \/ Owner \/ Exit \/ SwitchMoves

Spec == Init /\ [][Next]_vars
-----------------------------------------------------------------------------
(* Properties.                                                               *)

StageTypeOK ==
    /\ step \in {"off", "gates", "checkpoint", "hold", "session", "unwind", "over", "dead"}
    /\ passed \in 0..Last + 1 /\ seen \in 0..Last + 1
    /\ open = SubSeq(Stack, 1, Len(open))
    /\ owner \in {"start", "consent", "waiting", "using", "failing", "closing", "abandoning", "ended"}
    /\ report.status \in {"none", "passed", "failed"}

\* A run the control calls passed saw every gate one by one and in order, and a bounded hold
\* with the Switch still in the room (ConnectionRunExecutor._run, _validate_a_stage, _hold).
PassedMeansHeld == control = "passed" => seen = Last + 1 /\ held

\* A D stage claims the release of the LDN context only when the stage's thread has left it,
\* and on B no exit may have failed (StageSession.stop, _tracked_network_context).
ReleasedMeansExited ==
    /\ claim = "released" => open = <<>>
    /\ role = "b" /\ (report.released = "yes" \/ claim = "released") => left = {}

\* Whatever a failed teardown of B leaves on the adapter is stopped before the report calls
\* the radio quiet (quiesce_selected_phy).
QuietMeansStopped == role = "b" /\ report.quiet = "yes" => left \cap RadioContexts = {}

\* What a stage says about its resources is so (StageSession.stop, quiesce_selected_phy).
ReleaseIsReal == StageTypeOK /\ ReleasedMeansExited /\ QuietMeansStopped

\* A stage fails only when something around it did: the Switch, the library, the kernel, the
\* user's patience (the order of gates, contexts and deadlines in run).
NoFailureWithoutFault == report.status = "failed" /\ ~took => faulty

\* A closing intent the endpoint has read leads to its D stage, wherever it was waiting
\* (wait_checkpoint, run of distributed_endpoint).  The code does not meet it: README, section
\* 3; StageIntent.cfg shows how.
IntentReachesD == took => claim # "abandoned"
=============================================================================
