----------------------------- MODULE RelayTunnel -----------------------------
(***************************************************************************)
(* The relay's v2 transport of one attempt: V2Session and the websocket    *)
(* handler ws_attempt_v2 of relay/server.py after admission.               *)
(*                                                                         *)
(* Each seat's socket has a handler coroutine.  A handler first takes a    *)
(* frame off its socket and then waits for the session lock, so the frame  *)
(* it holds may be processed after another handler has reset the session.  *)
(* What happens under the lock is one action.  A reset (either socket      *)
(* ends) revokes both slots: both clients must connect again.              *)
(*                                                                         *)
(* The endpoints are open here: AnyEndpoint lets an admitted endpoint send *)
(* any kind of frame, correctly numbered.  TunnelSession closes the system *)
(* with the real clients.                                                  *)
(***************************************************************************)
EXTENDS SequenceGate, Sequences, FiniteSets

CONSTANTS
  MaxSequence,      \* bound on the frames of an arbitrary endpoint's epoch
  MaxLosses,        \* bound on the sockets lost to the network
  ReplayMayFail,    \* sending the retained frames to a new socket may fail
  RetainedFrames    \* V2_RETAINED_FRAMES

ASSUME TunnelAssumption ==
  /\ MaxSequence \in Nat /\ MaxLosses \in Nat
  /\ ReplayMayFail \in BOOLEAN /\ RetainedFrames \in Nat \ {0}

VARIABLES
  session,     \* "live" while v2_sessions holds the session, then "ended"
  peers,       \* V2Session.peers: the seat's slot is owned by its socket
  generations, \* V2Session.generations
  gates,       \* V2Session.gates
  retained,    \* V2Session.retained
  sideReady,   \* V2Session.side_ready_epochs, 0 for None
  advertised,  \* V2Session.advertisement_hash is set
  handlers,    \* "none", "serving", or "failing" (its peer could not be sent to)
  pending,     \* the frame a handler holds while it waits for the lock
  expiries,    \* _expire_v2_peer tasks, <<seat, generation>>
  up, down,    \* frames between a client and its handler
  losses

sessionVars == <<session, peers, generations, gates, retained, sideReady, advertised, expiries>>
relayVars   == <<sessionVars, handlers, pending, up, down, losses>>

Seats   == {"A", "B"}
Peer(s) == IF s = "A" THEN "B" ELSE "A"
Each(v) == [s \in Seats |-> v]
NoFrame == Frame(0, 0, "NONE", 0)

RelayInit ==
  /\ session = "live" /\ peers = Each(FALSE) /\ generations = Each(0)
  /\ gates = Each(NewGate) /\ retained = Each(<<>>) /\ sideReady = Each(0)
  /\ advertised = FALSE /\ handlers = Each("none") /\ pending = Each(NoFrame)
  /\ expiries = {} /\ up = Each(<<>>) /\ down = Each(<<>>) /\ losses = 0

-----------------------------------------------------------------------------
(* The seat's slot is free.  A handler whose slot was revoked queued for   *)
(* the FIFO lock before a new handshake could: it has handed in its frame. *)
SlotFree(s) ==
  /\ session = "live" /\ handlers[s] = "none" /\ ~peers[s]
  /\ \A x \in Seats : ~peers[x] => pending[x] = NoFrame

(* ws_attempt_v2 takes the seat's slot and replays what the peer retained. *)
Accept(s, first) ==
  /\ SlotFree(s)
  /\ generations' = [generations EXCEPT ![s] = @ + 1]
  /\ peers' = [peers EXCEPT ![s] = TRUE]
  /\ handlers' = [handlers EXCEPT ![s] = "serving"]
  /\ down' = [down EXCEPT ![s] = retained[Peer(s)]]
  /\ up' = [up EXCEPT ![s] = <<first>>]
  /\ UNCHANGED <<session, gates, retained, sideReady, advertised, expiries, pending, losses>>

(* The replay times out: the slot is freed again, the generation stays.    *)
ReplayFails(s) ==
  /\ ReplayMayFail /\ losses < MaxLosses
  /\ SlotFree(s) /\ retained[Peer(s)] # <<>>
  /\ generations' = [generations EXCEPT ![s] = @ + 1]
  /\ losses' = losses + 1
  /\ UNCHANGED <<session, peers, gates, retained, sideReady, advertised, expiries,
                 handlers, pending, up, down>>

(* _receive_v2_or_reset returns a frame.                                   *)
Take(s) ==
  /\ handlers[s] = "serving" /\ peers[s] /\ pending[s] = NoFrame /\ up[s] # <<>>
  /\ pending' = [pending EXCEPT ![s] = Head(up[s])]
  /\ up' = [up EXCEPT ![s] = Tail(@)]
  /\ UNCHANGED <<sessionVars, handlers, down, losses>>

(* Mutant: PEER_READY is not kept for a peer that connects later.          *)
MutantRetainsAdvertisementOnly == {"ADVERTISEMENT"}

Retainable == {"PEER_READY", "ADVERTISEMENT"}

(* Retained frames of the seat's epoch; a new epoch starts afresh.         *)
RetainedBefore(s, f) == IF f.epoch = gates[s].epoch THEN retained[s] ELSE <<>>

(* Mutant: frames to replay are retained without a bound.                  *)
MutantRetainsEverything(s, f) ==
  IF GateError(gates[s], f) # "" THEN GateError(gates[s], f)
  ELSE CASE f.kind = "SIDE_READY" /\ ~advertised -> "C_SIDE_READY_ADVERTISEMENT"
         [] f.kind = "SIDE_READY" /\ sideReady[s] = f.epoch -> "C_SIDE_READY_DUPLICATE"
         [] f.kind = "RFU" /\ (\E x \in Seats :
              sideReady[x] # (IF x = s THEN f.epoch ELSE gates[x].epoch)) -> "C_BRIDGE_NOT_READY"
         [] OTHER -> ""

(* The error a frame of the seat raises.  The bindings SIDE_READY repeats  *)
(* (attempt, seat, role, launch) are those of an admitted endpoint.        *)
FrameError(s, f) ==
  IF GateError(gates[s], f) # "" THEN GateError(gates[s], f)
  ELSE CASE f.kind = "SIDE_READY" /\ ~advertised -> "C_SIDE_READY_ADVERTISEMENT"
         [] f.kind = "SIDE_READY" /\ sideReady[s] = f.epoch -> "C_SIDE_READY_DUPLICATE"
         [] f.kind = "RFU" /\ (\E x \in Seats :
              sideReady[x] # (IF x = s THEN f.epoch ELSE gates[x].epoch)) -> "C_BRIDGE_NOT_READY"
         [] f.kind \in Retainable /\ Len(RetainedBefore(s, f)) >= RetainedFrames
              -> "C_RETENTION_OVERFLOW"
         [] OTHER -> ""

(* _disconnect_v2_session: the session leaves v2_sessions, both slots are  *)
(* revoked.                                                                *)
EndSession ==
  /\ session' = "ended" /\ peers' = Each(FALSE) /\ retained' = Each(<<>>)
  /\ UNCHANGED <<generations, gates, sideReady, advertised, expiries>>

(* A frame that raises fails the attempt (fail_transport_attempt).         *)
Reject(s) ==
  /\ pending[s] # NoFrame /\ FrameError(s, pending[s]) # ""
  /\ EndSession
  /\ handlers' = [handlers EXCEPT ![s] = "none"]
  /\ pending' = [pending EXCEPT ![s] = NoFrame]
  /\ up' = [up EXCEPT ![s] = <<>>]
  /\ UNCHANGED <<down, losses>>

(* Mutant: a new epoch inherits the readiness of the one before it.        *)
MutantReadinessOutlivesEpoch(s, f) ==
  sideReady' = [sideReady EXCEPT ![s] = IF f.kind = "SIDE_READY" THEN f.epoch ELSE @]

(* Readiness belongs to an epoch.                                          *)
RecordReadiness(s, f) ==
  sideReady' = [sideReady EXCEPT ![s] =
                  IF f.kind = "SIDE_READY" THEN f.epoch
                  ELSE IF f.epoch # gates[s].epoch THEN 0 ELSE @]

(* A frame is recorded and forwarded.  The handler may have lost its slot  *)
(* while it waited for the lock; nothing checks that.  A send that times   *)
(* out has left its frame in the socket's buffer; one to a dead socket     *)
(* goes nowhere.  Either way the handler gives up its own socket.          *)
Process(s) ==
  LET f == pending[s] IN
  /\ f # NoFrame /\ FrameError(s, f) = ""
  /\ gates' = [gates EXCEPT ![s] = Accepted(@, f)]
  /\ retained' = [retained EXCEPT ![s] = RetainedBefore(s, f) \o
                    (IF f.kind \in Retainable THEN <<f>> ELSE <<>>)]
  /\ RecordReadiness(s, f)
  /\ advertised' = (advertised \/ f.kind = "ADVERTISEMENT")
  /\ pending' = [pending EXCEPT ![s] = NoFrame]
  /\ down' = IF peers[Peer(s)] THEN [down EXCEPT ![Peer(s)] = Append(@, f)] ELSE down
  /\ \/ UNCHANGED <<handlers, losses>>
     \/ /\ peers[Peer(s)] /\ losses < MaxLosses
        /\ losses' = losses + 1
        /\ handlers' = [handlers EXCEPT ![s] = "failing"]
  /\ UNCHANGED <<session, peers, generations, expiries, up>>

(* The reconnect deadlines a reset starts.                                 *)
ExpireTargets(s) == {<<x, generations[x]>> : x \in {s} \cup {y \in {Peer(s)} : peers[y]}}

(* The finally block of a handler that still owns its slot.                *)
Reset(s) ==
  /\ handlers[s] \in {"serving", "failing"} /\ peers[s] /\ pending[s] = NoFrame
  /\ handlers' = [handlers EXCEPT ![s] = "none"]
  /\ up' = [up EXCEPT ![s] = <<>>]
  /\ peers' = Each(FALSE) /\ retained' = Each(<<>>) /\ sideReady' = Each(0)
  /\ expiries' = expiries \cup ExpireTargets(s)
  /\ LET close == Frame(gates[s].epoch, gates[s].next, "PEER_CLOSE", 0) IN
     IF peers[Peer(s)] /\ gates[s].epoch # 0
     THEN /\ gates' = [gates EXCEPT ![s] = Accepted(@, close)]
          /\ down' = [down EXCEPT ![Peer(s)] = Append(@, close)]
     ELSE UNCHANGED <<gates, down>>
  /\ UNCHANGED <<session, generations, advertised, pending>>

(* Mutant: revoking a slot does not wake its handler.                      *)
MutantRevokedHangs(s) == FALSE /\ UNCHANGED relayVars

(* The handler of a revoked slot sees its reset event and ends.            *)
RevokedEnds(s) ==
  /\ handlers[s] # "none" /\ ~peers[s] /\ pending[s] = NoFrame
  /\ handlers' = [handlers EXCEPT ![s] = "none"]
  /\ up' = [up EXCEPT ![s] = <<>>]
  /\ UNCHANGED <<sessionVars, pending, down, losses>>

(* Mutant: an old deadline also fires for a later connection of its seat.  *)
MutantStaleDeadlineFires(s, g) == ~peers[s]

(* A deadline only counts for the connection it was started for.           *)
StillLost(s, g) == ~peers[s] /\ generations[s] = g

(* _expire_v2_peer: the seat did not come back in time.  A task that finds *)
(* it back does nothing, and is no step.                                   *)
ExpirePeer(s, g) ==
  /\ <<s, g>> \in expiries /\ session = "live" /\ StillLost(s, g)
  /\ session' = "ended" /\ peers' = Each(FALSE) /\ retained' = Each(<<>>)
  /\ expiries' = expiries \ {<<s, g>>}
  /\ UNCHANGED <<generations, gates, sideReady, advertised, handlers, pending, up, down, losses>>

RelayStep(s) == Take(s) \/ Process(s) \/ Reject(s) \/ RevokedEnds(s)

-----------------------------------------------------------------------------
(* An admitted endpoint that may send any frame next, correctly numbered.  *)
AnyKinds == {"ADVERTISEMENT", "SIDE_READY", "RFU"}

AnySends(s) ==
  /\ handlers[s] = "serving" /\ peers[s] /\ pending[s] = NoFrame /\ up[s] = <<>>
  /\ gates[s].epoch # 0 /\ gates[s].next < MaxSequence
  /\ \E k \in AnyKinds : up' = [up EXCEPT ![s] = <<Frame(gates[s].epoch, gates[s].next, k, 0)>>]
  /\ UNCHANGED <<sessionVars, handlers, pending, down, losses>>

AnyReads(s) ==
  /\ down[s] # <<>>
  /\ down' = [down EXCEPT ![s] = Tail(@)]
  /\ UNCHANGED <<sessionVars, handlers, pending, up, losses>>

AnyLost(s) ==
  /\ losses < MaxLosses /\ Reset(s) /\ losses' = losses + 1

AnyEndpointNext ==
  \E s \in Seats :
    \/ Accept(s, Frame(generations[s] + 1, 0, "PEER_READY", 0))
    \/ AnySends(s) \/ AnyReads(s) \/ AnyLost(s)
    \/ handlers[s] = "failing" /\ Reset(s) /\ UNCHANGED losses
    \/ RelayStep(s) \/ ReplayFails(s)
    \/ \E g \in {e[2] : e \in expiries} : ExpirePeer(s, g)

AnyEndpointSpec == RelayInit /\ [][AnyEndpointNext]_relayVars

-----------------------------------------------------------------------------
(* The relay's session is well formed.                                     *)
RelayTypeOK ==
  /\ session \in {"live", "ended"} /\ peers \in [Seats -> BOOLEAN]
  /\ handlers \in [Seats -> {"none", "serving", "failing"}]
  /\ generations \in [Seats -> Nat] /\ sideReady \in [Seats -> Nat]
  /\ advertised \in BOOLEAN /\ expiries \subseteq Seats \X Nat
  /\ \A s \in Seats : Len(retained[s]) <= RetainedFrames

(* Readiness the relay holds for a seat is of the seat's current epoch,    *)
(* even when a frame that outlived a reset recorded it.                    *)
ReadinessIsCurrent == \A s \in Seats : sideReady[s] \in {0, gates[s].epoch}

(* The session's invariant: no field outlives the connection it is about   *)
(* (reset_connection, _process_v2_frame).                                  *)
RelayIsConsistent == RelayTypeOK /\ ReadinessIsCurrent

(* docs/89: RFU is rejected until both current source epochs have accepted *)
(* readiness.  Checked when the relay is about to pass an RFU frame on.    *)
(* The code does not meet it: README, section 3; RelayTunnelRfu.cfg.        *)
RfuNeedsBothReady ==
  \A s \in Seats :
    pending[s].kind = "RFU" /\ FrameError(s, pending[s]) = "" =>
      \A x \in Seats : sideReady[x] # 0

(* docs/89: a reset starts the bounded reconnect deadline.  A seat that    *)
(* had a working connection and has none now has a deadline that counts.   *)
(* The code does not meet it: README, section 3; RelayTunnelReplay.cfg.     *)
LostSeatHasDeadline ==
  session = "live" =>
    \A s \in Seats : gates[s].epoch # 0 /\ ~peers[s] => <<s, generations[s]>> \in expiries

(* A deadline ends the session only for a seat that has not come back      *)
(* since the deadline was started.                                         *)
DeadlineIsForTheLostConnection ==
  [][session = "live" /\ session' = "ended" /\ expiries' # expiries =>
       \E s \in Seats : <<s, generations[s]>> \in expiries \ expiries']_relayVars
=============================================================================
