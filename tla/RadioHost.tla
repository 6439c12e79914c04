----------------------------- MODULE RadioHost -----------------------------
(***************************************************************************)
(* The machine one connection run works on: the USB adapter usbipd attaches *)
(* to WSL, its network interface, the radio worker process, and the lease    *)
(* with which the run borrows the adapter (UsbLease in                       *)
(* src/switchtrade/connection/p0.py, radio_worker.py).                       *)
(*                                                                         *)
(* The control process and the worker are two processes: the worker can     *)
(* leave at any moment, and the adapter can be unplugged.  What the lease    *)
(* must know after a crash is in the recovery file.  Bus and Linux          *)
(* identities, the two or three stable samples and the profile checks are    *)
(* data: a probe either shows the state or is unknown, and then the step     *)
(* that asked fails.                                                        *)
(***************************************************************************)
EXTENDS Naturals

CONSTANTS
    MaxReplugs      \* how often the adapter is unplugged and comes back detached

VARIABLES
    prior,      \* the adapter was attached when P0a looked
    usb,        \* "detached" or "attached", as usbipd and Linux see it
    iface,      \* "down", or "up" when the base or a temporary interface is active
    worker,     \* the worker's process: it execs into the endpoint under the same PID
    out,        \* the events the worker has written to its pipe
    sideFile,   \* p0-side-ready.json exists
    usbFile,    \* p0-usb-recovery.json
    lease,      \* the UsbLease object in memory
    replugs

hostVars == <<prior, usb, iface, worker, out, sideFile, usbFile, lease, replugs>>

NoFile == [exists |-> FALSE, prior |-> FALSE, intent |-> FALSE]
NoLease == [held |-> FALSE, acquired |-> FALSE, active |-> FALSE]

Alive == worker \in {"starting", "ready", "launched", "endpoint", "failing"}

HostTypeOK ==
    /\ prior \in BOOLEAN
    /\ usb \in {"detached", "attached"} /\ iface \in {"down", "up"}
    /\ worker \in {"none", "starting", "ready", "launched", "endpoint", "failing", "exited"}
    /\ out \subseteq {"ready", "started", "failed", "done", "lost"}
    /\ sideFile \in BOOLEAN
    /\ usbFile \in [exists : BOOLEAN, prior : BOOLEAN, intent : BOOLEAN]
    /\ lease \in [held : BOOLEAN, acquired : BOOLEAN, active : BOOLEAN]
    /\ replugs \in 0..MaxReplugs

HostInit ==
    /\ prior \in BOOLEAN
    /\ usb = IF prior THEN "attached" ELSE "detached"
    /\ iface = "down" /\ worker = "none" /\ out = {} /\ sideFile = FALSE
    /\ usbFile = NoFile /\ lease = NoLease /\ replugs = 0

-----------------------------------------------------------------------------
(* What the probes show: usbipd's inventory, the Linux USB device, and the    *)
(* interfaces below it.                                                      *)

AdapterIs(state) == usb = state
InWsl == usb = "attached"
RadioDown == iface = "down"

\* PassiveValidator.validate: no endpoint of an earlier run is left.
PassivelyReady == ~Alive

-----------------------------------------------------------------------------
(* UsbLease.acquire, in the order of its effects.                           *)

\* The lease object exists before acquire; the file is written before any command.
PersistIntent ==
    /\ AdapterIs("attached") <=> prior
    /\ usbFile' = [exists |-> TRUE, prior |-> prior, intent |-> ~prior]

\* acquired_by_run is set between modprobe and the attach command, which may fail
\* with the adapter attached.
AttachCommand(ok) ==
    /\ lease' = [lease EXCEPT !.acquired = TRUE]
    /\ usb' \in IF ok THEN {"attached"} ELSE {usb, "attached"}

Activate ==
    /\ AdapterIs("attached") /\ InWsl
    /\ lease' = [lease EXCEPT !.active = TRUE]

-----------------------------------------------------------------------------
(* UsbLease.release, with from_recovery.                                     *)

(* Mutant: an attach intent alone lets the recovering process detach.       *)
MutantIntentAlone == [held |-> TRUE, acquired |-> usbFile.exists, active |-> TRUE]

LeaseFromRecovery ==
    [held |-> TRUE, acquired |-> usbFile.intent /\ ~usbFile.prior, active |-> TRUE]

NothingToReturn == ~usbFile.exists /\ ~lease.active

(* Mutant: the interface is not looked at before the detach command.        *)
MutantDetachUnseen == lease.acquired /\ AdapterIs("attached")

\* Radio quiescence is proved before the adapter is detached.
MayDetach == lease.acquired /\ AdapterIs("attached") /\ RadioDown

\* What release accepts as the prior state: detached and gone from Linux when the
\* run attached it, otherwise still attached with its interface down.
PriorStateSeen ==
    IF lease.acquired THEN AdapterIs("detached") /\ ~InWsl
    ELSE AdapterIs("attached") /\ RadioDown

-----------------------------------------------------------------------------
(* The worker process (radio_worker.serve) and what the machine does.        *)

\* build_side_ready, the report file and the event; or an error, after which the
\* worker quiesces the radio if it can.
WorkerReady ==
    /\ worker = "starting"
    /\ \/ /\ usb = "attached"
          /\ worker' = "ready" /\ sideFile' = TRUE /\ out' = out \cup {"ready"}
          /\ iface' \in {"down", "up"}
       \/ /\ worker' = "exited" /\ iface' \in {iface, "down"}
          /\ out' = out \cup {"lost"}
          /\ UNCHANGED sideFile
    /\ UNCHANGED <<prior, usb, usbFile, lease, replugs>>

\* The launch ticket makes the worker exec the endpoint, which reports itself.
EndpointStarts ==
    /\ worker = "launched"
    /\ worker' = "endpoint" /\ out' = out \cup {"started"}
    /\ iface' \in IF usb = "attached" THEN {iface, "up"} ELSE {iface}
    /\ UNCHANGED <<prior, usb, sideFile, usbFile, lease, replugs>>

\* A ticket that does not name this run, process and radio ends the worker.
TicketRefused ==
    /\ worker = "launched"
    /\ worker' = "exited" /\ iface' \in {iface, "down"} /\ out' = out \cup {"lost"}
    /\ UNCHANGED <<prior, usb, sideFile, usbFile, lease, replugs>>

\* The process leaves: by itself or on a stop command it first takes the interface
\* down if it can; killed, or signalled when its parent died, it does not.
WorkerLeaves ==
    /\ Alive
    /\ worker' = "exited" /\ iface' \in {iface, "down"} /\ out' = out \cup {"lost"}
    /\ UNCHANGED <<prior, usb, sideFile, usbFile, lease, replugs>>

\* The adapter is unplugged; plugged in again it is detached.
Replug ==
    /\ replugs < MaxReplugs
    /\ usb = "attached"
    /\ usb' = "detached" /\ iface' = "down" /\ replugs' = replugs + 1
    /\ UNCHANGED <<prior, worker, out, sideFile, usbFile, lease>>
=============================================================================
