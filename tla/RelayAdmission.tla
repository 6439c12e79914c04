--------------------------- MODULE RelayAdmission ---------------------------
(***************************************************************************)
(* The v2 HTTP layer of the relay (relay/server.py) over the room store.   *)
(*                                                                         *)
(* A v2 attempt is "admitted": the relay keeps, in process memory only,    *)
(* which members proved their local preflight (P0) and which endpoint      *)
(* launch each of them bound to the attempt.  The store survives a relay   *)
(* restart, the admission does not, and a terminal attempt's admission is  *)
(* retired only after its sockets have been closed, which awaits.          *)
(*                                                                         *)
(* A handler runs without yielding up to its first await, so the part of   *)
(* it before the await is one action: a store action of RoomAuthority      *)
(* together with what the handler does to the admission.  The routes that  *)
(* do not touch the admission are the store's own actions.                 *)
(***************************************************************************)
EXTENDS RoomAuthority

CONSTANT SlowClose   \* closing a peer's socket may take time

ASSUME SlowCloseAssumption == SlowClose \in BOOLEAN

VARIABLES
  proofs,    \* keys of V2Admission.proofs in v2_pending_admissions[room]
  launches,  \* V2Admission.launches: the attempt a member's launch was made for
  admitted,  \* V2Admission.attempt_id, as an attempt number; 0 is None
  bound,     \* attempts with a key in v2_attempt_admissions
  sessions,  \* attempts with a key in v2_sessions
  retiring   \* _disconnect_v2_room calls that await closing sockets;
             \* 0 stands for attempt_id=None, "every attempt of the room"

admissionVars == <<proofs, launches, admitted, bound>>
socketVars    == <<sessions, retiring>>
allVars       == <<vars, admissionVars, socketVars>>

NoLaunches == [m \in Members |-> 0]

AdmissionInit ==
  /\ Init
  /\ proofs = {} /\ launches = NoLaunches /\ admitted = 0 /\ bound = {}
  /\ sessions = {} /\ retiring = {}

(* _retire_v2_admission: the pending admission goes with the attempt only  *)
(* while it still belongs to it.                                           *)
Retire(n) ==
  /\ bound' = IF n = 0 THEN {} ELSE bound \ {n}
  /\ IF n = 0 \/ admitted = n
     THEN proofs' = {} /\ launches' = NoLaunches /\ admitted' = 0
     ELSE UNCHANGED <<proofs, launches, admitted>>

Targets(n) == IF n = 0 THEN sessions ELSE sessions \cap {n}

(* _disconnect_v2_room: the sessions leave the table at once; with a socket *)
(* to close it awaits before it retires the admission.                     *)
DisconnectRoom(n) ==
  /\ sessions' = sessions \ Targets(n)
  /\ \/ Retire(n) /\ UNCHANGED retiring
     \/ /\ SlowClose /\ Targets(n) # {}
        /\ retiring' = retiring \cup {n}
        /\ UNCHANGED admissionVars

FinishDisconnect(n) ==
  /\ n \in retiring
  /\ retiring' = retiring \ {n}
  /\ Retire(n)
  /\ UNCHANGED <<vars, sessions>>

-----------------------------------------------------------------------------
(* Mutant: an attempt is admitted by the member that completed it.         *)
MutantAdmitUnproved(m, r) ==
  /\ AttemptActive => admitted = number
  /\ Ready(m, r)
  /\ proofs' = proofs \cup {m}
  /\ IF AttemptActive' THEN admitted' = number' /\ bound' = bound \cup {number'}
                       ELSE UNCHANGED <<admitted, bound>>
  /\ UNCHANGED <<launches, socketVars>>

(* ready_trade_room_v2.  The store commits before the proofs are compared: *)
(* when they do not cover both members the caller gets 409, but the        *)
(* attempt has started.                                                    *)
ReadyV2(m, r) ==
  /\ AttemptActive => admitted = number
  /\ Ready(m, r)
  /\ proofs' = proofs \cup {m}
  /\ IF AttemptActive' /\ proofs' = Present
     THEN admitted' = number' /\ bound' = bound \cup {number'}
     ELSE UNCHANGED <<admitted, bound>>
  /\ UNCHANGED <<launches, socketVars>>

NotReadyV2(m) == NotReady(m) /\ Retire(0) /\ UNCHANGED socketVars

(* Mutant: the launch is filed under the attempt after this one.           *)
MutantLaunchOfNextAttempt(m) ==
  /\ Authenticated(m) /\ AttemptActive
  /\ number \in bound /\ m \in proofs
  /\ launches[m] \in {0, number}
  /\ launches' = [launches EXCEPT ![m] = number + 1]
  /\ sessions' = sessions \cup {number}
  /\ UNCHANGED <<vars, proofs, admitted, bound, retiring>>

(* ws_attempt_v2 up to the accepted socket: the first launch a member      *)
(* presents for an admission is the only one it may ever present.          *)
OpenTunnel(m) ==
  /\ Authenticated(m) /\ AttemptActive
  /\ number \in bound /\ m \in proofs
  /\ launches[m] \in {0, number}
  /\ launches' = [launches EXCEPT ![m] = number]
  /\ sessions' = sessions \cup {number}
  /\ UNCHANGED <<vars, proofs, admitted, bound, retiring>>

(* begin_distributed_d: an exact retry changes nothing and is no step.     *)
BeginDistributedD(m, o) ==
  /\ number \in bound /\ m \in proofs
  /\ BeginDClosing(m, o)
  /\ UNCHANGED <<admissionVars, socketVars>>

AcknowledgeDistributedD(m, e) ==
  /\ number \in bound /\ launches[m] = number /\ number # 0
  /\ AcknowledgeDQuiescent(m, e)
  /\ IF phase' \in TerminalPhases THEN DisconnectRoom(number)
                                  ELSE UNCHANGED <<admissionVars, socketVars>>

(* set_attempt_phase: a repeated terminal phase changes no document, but   *)
(* still disconnects the room.                                             *)
SetAttemptPhase(m, p, code) ==
  /\ \/ Phase(m, p, code)
     \/ p = "failed" /\ RefineFailure(m, code)
     \/ Authenticated(m) /\ number # 0 /\ p = phase /\ UNCHANGED vars
  /\ IF p \in TerminalPhases THEN DisconnectRoom(number)
                             ELSE UNCHANGED <<admissionVars, socketVars>>

LeaveTradeRoom(m)      == Leave(m) /\ DisconnectRoom(0)
RemoveOfflineMember(m) == RemoveOffline(m) /\ DisconnectRoom(0)
CloseTradeRoom         == Close /\ DisconnectRoom(0)

(* Mutant: losing a peer during the D close tail drops the launch binding. *)
MutantLostPeerRetires(n) ==
  /\ n \in sessions /\ sessions' = sessions \ {n}
  /\ IF n = number /\ Open /\ AttemptActive
     THEN (FailTransport \/ (phase = "closing" /\ UNCHANGED vars)) /\ Retire(n)
     ELSE UNCHANGED <<vars, admissionVars>>
  /\ UNCHANGED retiring

(* _expire_v2_peer and a fatal frame: a peer of a session was lost.  Only  *)
(* an attempt this fails loses its admission; the session ends in any case. *)
PeerLost(n) ==
  /\ n \in sessions /\ sessions' = sessions \ {n}
  /\ IF n = number /\ Open /\ AttemptActive /\ phase # "closing"
     THEN FailTransport /\ Retire(n)
     ELSE UNCHANGED <<vars, admissionVars>>
  /\ UNCHANGED retiring

(* The sweep in front of every request; only a D timeout tears transports  *)
(* down.                                                                   *)
SweepRequest(late, dLate) ==
  /\ Sweep(late, dLate)
  /\ IF DExpired(dLate) THEN DisconnectRoom(number)
                        ELSE UNCHANGED <<admissionVars, socketVars>>

(* The relay process restarts: the store fails the active attempt, the     *)
(* admission is gone.                                                      *)
Restart ==
  /\ \/ RelayRestart
     \/ ~(Open /\ AttemptActive) /\ UNCHANGED vars
  /\ proofs' = {} /\ launches' = NoLaunches /\ admitted' = 0 /\ bound' = {}
  /\ sessions' = {} /\ retiring' = {}

(* Routes that leave the admission alone.                                  *)
OtherRoute ==
  /\ \/ Create
     \/ \E g \in Guests : Join(g) \/ JoinPublic(g)
     \/ \E m \in Members : Heartbeat(m) \/ Reconnect(m)
     \/ Expire
  /\ UNCHANGED <<admissionVars, socketVars>>

ServeNext ==
  \/ OtherRoute
  \/ \E m \in Members, r \in {"creator", "finder"} : ReadyV2(m, r)
  \/ \E m \in Members : NotReadyV2(m)
  \/ \E m \in Members : OpenTunnel(m)
  \/ \E m \in Members, o \in TerminalPhases : BeginDistributedD(m, o)
  \/ \E m \in Members, e \in {"clean", "dirty"} : AcknowledgeDistributedD(m, e)
  \/ \E m \in Members, p \in Phases, code \in FailCodes : SetAttemptPhase(m, p, code)
  \/ \E m \in Members : LeaveTradeRoom(m)
  \/ \E m \in Members : RemoveOfflineMember(m)
  \/ CloseTradeRoom
  \/ \E n \in 1..MaxAttempts : PeerLost(n)
  \/ \E late \in SUBSET Members, dLate \in BOOLEAN : SweepRequest(late, dLate)
  \/ \E n \in 0..MaxAttempts : FinishDisconnect(n)

AdmissionNext == ServeNext \/ Restart

AdmissionSpec == AdmissionInit /\ [][AdmissionNext]_allVars

(* The same relay, never restarted.                                        *)
SteadySpec == AdmissionInit /\ [][ServeNext]_allVars

-----------------------------------------------------------------------------
(* The process-local admission is well formed.                             *)
AdmissionTypeOK ==
  /\ proofs \subseteq Members
  /\ launches \in [Members -> 0..MaxAttempts]
  /\ admitted \in 0..MaxAttempts /\ bound \subseteq 1..MaxAttempts
  /\ retiring \subseteq 0..MaxAttempts /\ sessions \subseteq 1..MaxAttempts

(* An attempt endpoints may connect to was proved by both members: its     *)
(* admission is the pending one and covers exactly the room's members.     *)
BoundMeansBothProved ==
  Open /\ AttemptActive /\ number \in bound => admitted = number /\ proofs = Present

(* The admission beside the store is well formed and vouches for the       *)
(* attempt it is bound to (ready_trade_room_v2, _retire_v2_admission).     *)
AdmissionIsProved == AdmissionTypeOK /\ BoundMeansBothProved

Closing == Open /\ phase = "closing" /\ intent # "none"

(* D keeps its launch binding: while an attempt is closing with a recorded *)
(* intent, neither a lost peer nor the late disconnect of an earlier       *)
(* attempt takes away the admission the acknowledgements need; only the    *)
(* late disconnect of a whole room does, after a leave or a removal.       *)
ClosingKeepsAdmission ==
  [][Closing /\ number \in bound /\ Closing' /\ number \notin bound'
       => 0 \in retiring \ retiring']_allVars

(* docs/88: two P0 attestations are required before a v2 attempt exists.   *)
(* The code does not meet it: README, section 3; AdmissionProofs.cfg.       *)
ProofsBeforeAttempt == Open /\ AttemptActive => proofs = Present
=============================================================================
