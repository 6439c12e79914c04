---------------------------- MODULE Coordinator ----------------------------
(***************************************************************************)
(* The local owner of one connection run                                   *)
(* (src/switchtrade/connection/coordinator.py).  One worker thread executes *)
(* the commands one at a time on the record it holds in memory; _persist    *)
(* then writes the record file and, separately, writes or removes the       *)
(* pointer file active-run.json.  The process may die between any two of    *)
(* these, a write may fail, and the next process recovers from the files.   *)
(*                                                                         *)
(* Gates, revisions, history, messages and timestamps are left out.  Every  *)
(* group of identity keys that one command binds together is one slot:      *)
(*   room      room_id, room_version, authority_seat                        *)
(*   direction switch_role, ldn_role, tunnel_direction                      *)
(*   wrapper   wrapper_pid, process_start_ticks, bus_id                     *)
(*   phy       phy, netdev            attempt   attempt_id, role_lock_version *)
(*   nonce     launch_nonce           endpoint  endpoint_pid, start ticks    *)
(* and the ownership flags say which of the slots are bound.  cleanup.verified *)
(* is TRUE exactly when cleanup.status is "verified".                       *)
(***************************************************************************)
EXTENDS Naturals, FiniteSets

CONSTANTS
    Runs,       \* run identifiers
    NoRun,      \* no active-run.json
    NoRecord,   \* no record (None in memory, no record file on disk)
    Values,     \* what a slot can be bound to
    Unbound,    \* a slot that is not bound yet
    Modes,      \* the run modes that are started
    Reported,   \* the outcomes close_run is called with
    MaxFaults   \* bound on the number of failing file operations

ASSUME CoordinatorAssumption ==
    /\ NoRun \notin Runs
    /\ Unbound \notin Values
    /\ Modes \subseteq {"normal", "p0_harness", "direct", "c_harness"}
    /\ Reported \subseteq {"passed", "failed", "canceled", "interrupted"}
    /\ MaxFaults \in Nat

VARIABLES
    up,         \* a coordinator process owns the instance lock
    current,    \* _current, the record in memory
    disk,       \* the record file of every run
    pointer,    \* the run active-run.json names
    saving,     \* the record is written, the pointer file not yet
    acked,      \* the last record a caller was given; followed until a write fails
    faults      \* file operations that failed so far

vars == <<up, current, disk, pointer, saving, acked, faults>>

Slots == {"room", "direction", "wrapper", "phy", "attempt", "nonce", "endpoint"}
Phases == {"created", "preflight", "running", "awaiting_user", "closing", "cleaning", "terminal"}
Outcomes == {"passed", "failed", "canceled", "interrupted"}

Records ==
    [run : Runs, mode : Modes, adapter : BOOLEAN, phase : Phases,
     functional : Outcomes \cup {"pending"},
     cleanup : {"pending", "verified", "failed"}, canceled : BOOLEAN,
     id : [Slots -> Values \cup {Unbound}]]

ASSUME NoRecordAssumption == NoRecord \notin Records

DirectModes == {"p0_harness", "direct"}

AllowedTransitions ==
    [created |-> {"preflight", "closing"}, preflight |-> {"running", "closing"},
     running |-> {"awaiting_user", "closing"}, awaiting_user |-> {"running", "closing"},
     closing |-> {"cleaning"}, cleaning |-> {}, terminal |-> {}]

Bound(r, slot) == r.id[slot] # Unbound
Resolved(r) == r.phase = "terminal" /\ r.cleanup = "verified"

Init ==
    /\ up = FALSE
    /\ current = NoRecord
    /\ disk = [r \in Runs |-> NoRecord]
    /\ pointer = NoRun
    /\ saving = FALSE
    /\ acked = NoRecord
    /\ faults = 0

-----------------------------------------------------------------------------
(* What every command does with the record it changed.                      *)

Told(r) == IF faults = 0 THEN r ELSE NoRecord

(* Mutant: the record file is only rewritten when phase or outcome changed. *)
MutantIdentityNotSaved(r) ==
    LET same == /\ disk[r.run] # NoRecord
                /\ disk[r.run].phase = r.phase /\ disk[r.run].functional = r.functional
    IN /\ current' = r
       /\ disk' = IF same THEN disk ELSE [disk EXCEPT ![r.run] = r]
       /\ saving' = TRUE
       /\ UNCHANGED <<up, pointer, acked, faults>>

\* _persist: the memory already holds the new record when the file is written,
\* and keeps it when the write fails.
Persist(r) ==
    /\ current' = r
    /\ \/ /\ disk' = [disk EXCEPT ![r.run] = r]
          /\ saving' = TRUE
          /\ UNCHANGED <<acked, faults>>
       \/ /\ faults < MaxFaults
          /\ faults' = faults + 1
          /\ acked' = NoRecord
          /\ UNCHANGED <<disk, saving>>
    /\ UNCHANGED <<up, pointer>>

(* Mutant: every terminal run gives up the pointer, verified or not.       *)
MutantTerminalUnlinks ==
    /\ up /\ saving
    /\ saving' = FALSE
    /\ pointer' = IF current.phase = "terminal" THEN NoRun ELSE current.run
    /\ acked' = Told(current)
    /\ UNCHANGED <<up, current, disk, faults>>

(* Mutant: the pointer of a verified run is not removed.                   *)
MutantPointerStays ==
    /\ up /\ saving
    /\ saving' = FALSE
    /\ pointer' = current.run
    /\ acked' = Told(current)
    /\ UNCHANGED <<up, current, disk, faults>>

\* The second half of _persist; only then is the caller answered.
SavePointer ==
    /\ up /\ saving
    /\ saving' = FALSE
    /\ \/ /\ pointer' = IF Resolved(current) THEN NoRun ELSE current.run
          /\ acked' = Told(current)
          /\ UNCHANGED faults
       \/ /\ faults < MaxFaults
          /\ faults' = faults + 1
          /\ acked' = NoRecord
          /\ UNCHANGED pointer
    /\ UNCHANGED <<up, current, disk>>

\* A command that finds nothing to change answers with the record in memory.
Answer ==
    /\ acked' = Told(current)
    /\ UNCHANGED <<up, current, disk, pointer, saving, faults>>

\* _require_run, on the thread that executes commands
Idle == up /\ ~saving
HasRun == Idle /\ current # NoRecord
IsRunning == HasRun /\ current.phase = "running"

-----------------------------------------------------------------------------
(* Commands.                                                                *)

(* Mutant: only a run that is not terminal blocks the next one.            *)
MutantTerminalIsEnough == current # NoRecord /\ current.phase # "terminal"

HasCleanupGuard ==
    \/ pointer # NoRun
    \/ current # NoRecord /\ ~Resolved(current)

Start(r, mode, adapter) ==
    /\ Idle
    /\ ~HasCleanupGuard
    /\ adapter \/ mode = "c_harness"
    /\ disk[r] = NoRecord
    /\ Persist([run |-> r, mode |-> mode, adapter |-> adapter, phase |-> "created",
                functional |-> "pending", cleanup |-> "pending", canceled |-> FALSE,
                id |-> [s \in Slots |-> Unbound]])

\* The phase changes, or only the gate, or nothing.
Transition(phase) ==
    /\ HasRun
    /\ phase # "terminal"
    /\ \/ /\ phase \in AllowedTransitions[current.phase] \cup {current.phase}
          /\ Persist([current EXCEPT !.phase = phase])
       \/ phase = current.phase /\ Answer

PassGate ==
    /\ HasRun
    /\ current.phase \in {"preflight", "running", "awaiting_user"}
    /\ Persist(current) \/ Answer

\* _bind_once of one slot, or the answer that it is already bound so.
BindOnce(slot, v) ==
    \/ /\ ~Bound(current, slot)
       /\ Persist([current EXCEPT !.id[slot] = v])
    \/ /\ current.id[slot] = v
       /\ Answer

BindAuthority(v) ==
    /\ IsRunning
    /\ current.id["room"] \in {Unbound, v} /\ current.id["direction"] \in {Unbound, v}
    /\ IF Bound(current, "room") /\ Bound(current, "direction") THEN Answer
       ELSE Persist([current EXCEPT !.id["room"] = v, !.id["direction"] = v])

\* A direct run has its Switch role from the start.  When the authority names the
\* other role, _bind_once has bound the room before it refuses the role.
BindOtherRole(v) ==
    /\ IsRunning
    /\ current.mode = "direct"
    /\ ~Bound(current, "room")
    /\ current' = [current EXCEPT !.id["room"] = v]
    /\ UNCHANGED <<up, disk, pointer, saving, acked, faults>>

AcquireWrapper(v) ==
    /\ IsRunning
    /\ current.mode \in DirectModes \/ Bound(current, "room")
    /\ current.adapter
    /\ BindOnce("wrapper", v)

MarkP0Ready(wrapper, v) ==
    /\ IsRunning
    /\ Bound(current, "wrapper")
    /\ current.id["wrapper"] = wrapper
    /\ BindOnce("phy", v)

LockAttempt(v) ==
    /\ IsRunning
    /\ Bound(current, "room") /\ Bound(current, "phy")
    /\ BindOnce("attempt", v)

(* Mutant: a launch is reserved before the attempt is locked.              *)
MutantNoAttempt(v) ==
    /\ IsRunning
    /\ Bound(current, "phy")
    /\ BindOnce("nonce", v)

ReserveEndpointLaunch(v) ==
    /\ IsRunning
    /\ Bound(current, "phy")
    /\ current.mode \in DirectModes \/ Bound(current, "attempt")
    /\ BindOnce("nonce", v)

AcknowledgeEndpoint(nonce, v) ==
    /\ IsRunning
    /\ Bound(current, "nonce")
    /\ current.id["nonce"] = nonce
    /\ BindOnce("endpoint", v)

(* Mutant: the last outcome wins.                                          *)
MutantLastOutcome(r, outcome) == outcome

\* _set_functional: the first outcome stays.
SetFunctional(r, outcome) == IF r.functional = "pending" THEN outcome ELSE r.functional

ClosingPhase(r) == IF r.phase \in {"closing", "cleaning"} THEN r.phase ELSE "closing"

RequestCancel ==
    /\ HasRun
    /\ \/ /\ current.phase = "terminal" \/ current.canceled
          /\ Answer
       \/ /\ current.phase # "terminal" /\ ~current.canceled
          /\ Persist([current EXCEPT !.canceled = TRUE,
                                     !.functional = SetFunctional(current, "canceled"),
                                     !.phase = ClosingPhase(current)])

(* Mutant: an outcome is answered before it is saved.                       *)
MutantCloseNotSaved(outcome) ==
    /\ HasRun
    /\ current.phase # "terminal"
    /\ current' = [current EXCEPT !.functional = SetFunctional(current, outcome),
                                  !.phase = ClosingPhase(current)]
    /\ acked' = Told(current')
    /\ UNCHANGED <<up, disk, pointer, saving, faults>>

CloseRun(outcome) ==
    LET settled == \/ current.phase = "terminal"
                   \/ /\ current.functional # "pending"
                      /\ current.phase \in {"closing", "cleaning"}
    IN /\ HasRun
       /\ \/ settled /\ Answer
          \/ /\ ~settled
             /\ Persist([current EXCEPT !.functional = SetFunctional(current, outcome),
                                        !.phase = ClosingPhase(current)])

BeginCleanup ==
    /\ HasRun
    /\ \/ current.phase = "cleaning" /\ Answer
       \/ current.phase = "closing" /\ Persist([current EXCEPT !.phase = "cleaning"])

RetryCleanup ==
    /\ HasRun
    /\ \/ current.phase = "cleaning" /\ Answer
       \/ /\ current.phase = "terminal" /\ current.cleanup # "verified"
          /\ Persist([current EXCEPT !.phase = "cleaning", !.cleanup = "pending"])

(* Mutant: the cleanup status is taken from the other enumeration.          *)
MutantOutcomeAsStatus(verified) ==
    /\ HasRun
    /\ current.phase = "cleaning"
    /\ current.functional # "pending"
    /\ Persist([current EXCEPT !.cleanup = IF verified THEN "passed" ELSE "failed",
                               !.phase = "terminal"])

CompleteCleanup(verified) ==
    /\ HasRun
    /\ \/ /\ current.phase = "terminal"
          /\ verified <=> current.cleanup = "verified"
          /\ Answer
       \/ /\ current.phase = "cleaning"
          /\ current.functional # "pending"
          /\ Persist([current EXCEPT !.cleanup = IF verified THEN "verified" ELSE "failed",
                                     !.phase = "terminal"])

-----------------------------------------------------------------------------
(* The process.                                                             *)

\* The process dies, or close() ends it: what is on disk stays.
Crash ==
    /\ up
    /\ up' = FALSE
    /\ current' = NoRecord
    /\ saving' = FALSE
    /\ UNCHANGED <<disk, pointer, acked, faults>>

\* __init__ with _recover.  When the record cannot be written the constructor
\* raises and no process comes up.
Recover ==
    LET r == disk[pointer]
    IN /\ ~up
       /\ \/ /\ pointer = NoRun
             /\ up' = TRUE
             /\ UNCHANGED <<current, disk, pointer, saving>>
          \/ /\ pointer # NoRun
             /\ Resolved(r)
             /\ up' = TRUE
             /\ current' = r
             /\ pointer' = NoRun
             /\ UNCHANGED <<disk, saving>>
          \/ /\ pointer # NoRun
             /\ ~Resolved(r)
             /\ up' = TRUE
             /\ current' = [r EXCEPT !.functional = SetFunctional(r, "interrupted"),
                                     !.phase = "cleaning", !.cleanup = "pending"]
             /\ disk' = [disk EXCEPT ![pointer] = current']
             /\ saving' = TRUE
             /\ UNCHANGED pointer
       /\ UNCHANGED <<acked, faults>>

Next ==
    \/ \E r \in Runs, mode \in Modes, adapter \in BOOLEAN : Start(r, mode, adapter)
    \/ \E phase \in Phases : Transition(phase)
    \/ PassGate
    \/ \E v \in Values :
        \/ BindAuthority(v) \/ BindOtherRole(v) \/ AcquireWrapper(v)
        \/ LockAttempt(v) \/ ReserveEndpointLaunch(v)
        \/ \E w \in Values : MarkP0Ready(w, v) \/ AcknowledgeEndpoint(w, v)
    \/ RequestCancel
    \/ \E outcome \in Reported : CloseRun(outcome)
    \/ BeginCleanup \/ RetryCleanup
    \/ \E verified \in BOOLEAN : CompleteCleanup(verified)
    \/ SavePointer \/ Crash \/ Recover

Spec == Init /\ [][Next]_vars
-----------------------------------------------------------------------------
(* Properties.                                                              *)

TypeOK ==
    /\ up \in BOOLEAN
    /\ current \in Records \cup {NoRecord}
    /\ disk \in [Runs -> Records \cup {NoRecord}]
    /\ pointer \in Runs \cup {NoRun}
    /\ saving \in BOOLEAN
    /\ acked \in Records \cup {NoRecord}
    /\ faults \in 0..MaxFaults

\* A run that took the adapter's wrapper stays named by active-run.json until its
\* cleanup is verified, whenever the process dies (the guard _persist keeps and
\* _has_cleanup_guard and _recover read).
UnresolvedIsGuarded ==
    \A r \in Runs :
        disk[r] # NoRecord /\ Bound(disk[r], "wrapper") /\ ~Resolved(disk[r]) => pointer = r

\* A run is started only when every earlier run that took a wrapper has a verified
\* cleanup on disk: two runs never own the adapter (_cmd_start).
OneOwner ==
    [][\A r \in Runs : disk[r] = NoRecord /\ disk'[r] # NoRecord =>
          \A q \in Runs : disk[q] # NoRecord /\ Bound(disk[q], "wrapper") => Resolved(disk[q])]_vars

\* An endpoint is on record only with the launch nonce, radio and wrapper it was
\* launched for, and outside the direct modes with its room and attempt
\* (the prerequisites of the commands, on the record a recovery reads).
LaunchIsAuthorised ==
    \A r \in Runs : disk[r] # NoRecord /\ Bound(disk[r], "endpoint") =>
        /\ \A s \in {"nonce", "phy", "wrapper"} : Bound(disk[r], s)
        /\ disk[r].mode \notin DirectModes => Bound(disk[r], "room") /\ Bound(disk[r], "attempt")

\* What the record file says about a run's identity and outcome is never changed,
\* by no command, failure or recovery, and a verified run is never reopened
\* (_bind_once, _set_functional, _recover).
HistoryIsFinal ==
    [][\A r \in Runs : disk[r] # NoRecord =>
          /\ \A s \in Slots : Bound(disk[r], s) => disk'[r].id[s] = disk[r].id[s]
          /\ disk[r].functional # "pending" => disk'[r].functional = disk[r].functional
          /\ Resolved(disk[r]) => disk'[r] = disk[r]]_vars

\* What a caller was told is what the next process recovers: as long as no file
\* operation has failed, the wrapper, radio, attempt, nonce or endpoint and the
\* verified cleanup a command answered with are on disk.  (The room is left out:
\* BindOtherRole answers nothing and writes nothing, yet the next answer shows the
\* room it bound.)
AnswersAreDurable ==
    acked # NoRecord =>
        LET d == disk[acked.run] IN
        /\ d # NoRecord
        /\ \A s \in Slots \ {"room"} : Bound(acked, s) => d.id[s] = acked.id[s]
        /\ Resolved(acked) => Resolved(d)

\* As long as no file operation has failed, the outcome a caller was told is the one
\* the run keeps over a restart: recovery marks only a still-pending run as
\* interrupted (_recover, _set_functional).
OutcomeSurvives ==
    acked # NoRecord /\ acked.functional # "pending" =>
        LET d == disk[acked.run] IN
        d # NoRecord /\ d.functional = acked.functional

\* As long as no file operation has failed, a run whose cleanup a caller was told is
\* verified no longer holds the guard, so that the next run can start (_persist, _cmd_complete_cleanup).
VerifiedReleasesGuard ==
    acked # NoRecord /\ Resolved(acked) => pointer # acked.run

\* The three together, with the types: until a file operation fails, memory, files and
\* pointer tell one story, and it is the one the callers were told (_persist).
RecordsAreDurable == TypeOK /\ AnswersAreDurable /\ OutcomeSurvives /\ VerifiedReleasesGuard
=============================================================================
