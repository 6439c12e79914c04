--------------------------- MODULE ControlHardware ---------------------------
(***************************************************************************)
(* How the control service (src/switchtrade/control.py) moves the selected   *)
(* USB adapter between Windows and WSL: attach_selected_hardware and          *)
(* release_owned_hardware, called by request threads, by the diagnostic        *)
(* worker and by start-up and shut-down, in any interleaving.                  *)
(*                                                                         *)
(* One routine runs at a time under hardware_lock.  hardware-attachment.json   *)
(* and Runtime.owned_hardware are always written together, so one variable     *)
(* stands for both: the file survives a crash and is read back at the next     *)
(* start.  The selection names one adapter and does not change.                *)
(***************************************************************************)
CONSTANTS
    Threads,        \* the threads of the control process
    NoThread        \* a lock nobody holds

ASSUME ThreadsAssumption == NoThread \notin Threads

VARIABLES
    attached,       \* usbipd has the adapter attached to WSL
    ours,           \* ... by a command of this program
    owned,          \* hardware-attachment.json, and owned_hardware
    hardwareLock,   \* the holder of hardware_lock
    step,           \* where each thread is in the routine it called, or what it returned
    routine         \* which routine that is

hardwareVars == <<attached, ours, owned, hardwareLock, step, routine>>

\* "attach" cleans up after its own failure; "attachOnly" (the diagnostic) leaves that to
\* its caller's cleanup.
Routines == {"attach", "attachOnly", "release"}

Locked == {"inspect", "issue", "enumerate", "quiesce", "detach", "absent"}
Resting == {"idle", "ok", "failed"}

HardwareTypeOK ==
    /\ attached \in BOOLEAN /\ ours \in BOOLEAN /\ owned \in BOOLEAN
    /\ hardwareLock \in Threads \cup {NoThread}
    /\ step \in [Threads -> Locked \cup Resting \cup {"enter"}]
    /\ routine \in [Threads -> Routines]

\* The user may have attached the adapter before the service ever ran.
HardwareInit ==
    /\ attached \in BOOLEAN /\ ours = FALSE /\ owned = FALSE
    /\ hardwareLock = NoThread
    /\ step = [t \in Threads |-> "idle"]
    /\ routine = [t \in Threads |-> "release"]

-----------------------------------------------------------------------------
Calls(t, r) ==
    /\ step[t] \in Resting
    /\ step' = [step EXCEPT ![t] = "enter"]
    /\ routine' = [routine EXCEPT ![t] = r]
    /\ UNCHANGED <<attached, ours, owned, hardwareLock>>

Moves(t, s) == /\ step' = [step EXCEPT ![t] = s]
               /\ UNCHANGED <<hardwareLock, routine>>

\* Leaving the routine leaves hardware_lock.
Leaves(t, s) == /\ step' = [step EXCEPT ![t] = s]
                /\ hardwareLock' = NoThread
                /\ UNCHANGED routine

Returns(t) == IF routine[t] = "release" THEN "ok" ELSE "failed"

\* The adapter is there, authorised and not shadowed by an identical one, or the
\* request is refused; an adapter somebody attached already is used as it is.
EnterAttach(t) ==
    /\ step[t] = "enter" /\ routine[t] # "release" /\ hardwareLock = NoThread
    /\ hardwareLock' = t
    /\ step' = [step EXCEPT ![t] = "inspect"]
    /\ UNCHANGED <<attached, ours, owned, routine>>

(* Mutant: the ownership is recorded once usbipd has answered. *)
MutantRecord(t) == /\ step[t] = "inspect" /\ ~attached
                   /\ Moves(t, "issue") /\ UNCHANGED <<attached, ours, owned>>

\* The ownership is on disk before usbipd is asked.
Record(t) ==
    /\ step[t] = "inspect" /\ ~attached
    /\ owned' = TRUE
    /\ Moves(t, "issue") /\ UNCHANGED <<attached, ours>>

Inspect(t) ==
    /\ step[t] = "inspect"
    /\ \/ Leaves(t, "failed")
       \/ attached /\ Moves(t, "enumerate")
    /\ UNCHANGED <<attached, ours, owned>>

\* A failed attach is undone at once unless the caller keeps that for itself; the
\* later steps do so only when there is something of ours to undo.
GivesUp(t) ==
    IF routine[t] = "attach" /\ owned THEN Moves(t, "quiesce") ELSE Leaves(t, "failed")

\* usbipd attach, and the inventory that confirms it.  A command that failed or was cut
\* off may have attached the adapter all the same, and an inventory that cannot be read
\* ends the routine without a cleanup.
Issue(t) ==
    /\ step[t] = "issue"
    /\ \/ /\ attached' = TRUE /\ ours' = TRUE
          /\ Moves(t, "enumerate") \/ Leaves(t, "failed")
       \/ /\ \/ UNCHANGED <<attached, ours>>
             \/ attached' = TRUE /\ ours' = TRUE
          /\ GivesUp(t)
    /\ UNCHANGED owned

\* The radio shows up in Linux, or goes from it, with the adapter; a probe that cannot
\* tell, or the end of its time, is not an answer.
LinuxShows(present) == attached = present

\* Linux enumerates the adapter, its driver is prepared, the radio appears.
Enumerate(t) ==
    /\ step[t] = "enumerate"
    /\ \/ LinuxShows(TRUE) /\ Leaves(t, "ok")
       \/ GivesUp(t)
    /\ UNCHANGED <<attached, ours, owned>>

(* Mutant: whatever is attached is returned, recorded or not. *)
MutantReturnAny(t) ==
    /\ step[t] = "enter" /\ routine[t] = "release" /\ hardwareLock = NoThread
    /\ step' = [step EXCEPT ![t] = "quiesce"] /\ hardwareLock' = t
    /\ UNCHANGED <<attached, ours, owned, routine>>

\* Nothing is returned that this program did not attach.
EnterRelease(t) ==
    /\ step[t] = "enter" /\ routine[t] = "release"
    /\ IF owned
       THEN /\ hardwareLock = NoThread
            /\ step' = [step EXCEPT ![t] = "quiesce"] /\ hardwareLock' = t
       ELSE step' = [step EXCEPT ![t] = "ok"] /\ UNCHANGED hardwareLock
    /\ UNCHANGED <<attached, ours, owned, routine>>

\* The inventory and the unbinding of the Linux driver; either may fail.
Quiesce(t) ==
    /\ step[t] = "quiesce"
    /\ Moves(t, "detach") \/ Leaves(t, "failed")
    /\ UNCHANGED <<attached, ours, owned>>

Detach(t) ==
    /\ step[t] = "detach"
    /\ \/ attached' = FALSE /\ ours' = FALSE /\ Moves(t, "absent")
       \/ attached /\ UNCHANGED <<attached, ours>> /\ Leaves(t, "failed")
    /\ UNCHANGED owned

(* Mutant: the record goes although Windows still shows the adapter attached. *)
MutantAbsent(t) ==
    /\ step[t] = "absent"
    /\ owned' = FALSE /\ Leaves(t, Returns(t))
    /\ UNCHANGED <<attached, ours>>

\* Windows shows the adapter detached and Linux no radio of it: only then the record goes.
Absent(t) ==
    /\ step[t] = "absent"
    /\ \/ LinuxShows(FALSE) /\ owned' = FALSE /\ Leaves(t, Returns(t))
       \/ UNCHANGED owned /\ Leaves(t, "failed")
    /\ UNCHANGED <<attached, ours>>

\* The answer has been used.
Forgets(t) == /\ step[t] \in {"ok", "failed"} /\ Moves(t, "idle")
              /\ UNCHANGED <<attached, ours, owned>>

HardwareStep(t) ==
    \/ EnterAttach(t) \/ Record(t) \/ Inspect(t) \/ Issue(t) \/ Enumerate(t)
    \/ EnterRelease(t) \/ Quiesce(t) \/ Detach(t) \/ Absent(t)

\* The adapter is unplugged; plugged in again it is Windows's.
Unplug ==
    /\ attached' = FALSE /\ ours' = FALSE
    /\ UNCHANGED <<owned, hardwareLock, step, routine>>

\* The process dies: the file stays, and with it what the next process reads.
HardwareCrash ==
    /\ hardwareLock' = NoThread
    /\ step' = [t \in Threads |-> "idle"]
    /\ UNCHANGED <<attached, ours, owned, routine>>

HardwareNext ==
    \/ \E t \in Threads : HardwareStep(t) \/ Forgets(t) \/ \E r \in Routines : Calls(t, r)
    \/ Unplug \/ HardwareCrash

HardwareSpec == HardwareInit /\ [][HardwareNext]_hardwareVars

-----------------------------------------------------------------------------
(* An adapter this program attached to WSL is named by the attachment record   *)
(* at every moment, so that whatever process comes next can return it to       *)
(* Windows (_attach_selected_hardware writes the file before it asks usbipd,    *)
(* release_owned_hardware removes it last): across all threads and crashes.     *)
AdapterIsRecorded == ours => owned

(* An adapter that was attached when the service came to use it is not taken    *)
(* away from WSL by any release, after any failure or restart; only its cable    *)
(* does that (release_owned_hardware asks what is recorded, and                  *)
(* _attach_selected_hardware records nothing for an adapter it found attached).   *)
ForeignAdapterStays ==
    [][attached /\ ~ours /\ ~attached' => UNCHANGED step]_hardwareVars

(* Whose the adapter is, is known at every moment: what the service took is on  *)
(* record, and what it did not take it does not give away.                       *)
AdapterHasItsOwner == []AdapterIsRecorded /\ ForeignAdapterStays
=============================================================================
