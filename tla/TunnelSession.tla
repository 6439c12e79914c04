---------------------------- MODULE TunnelSession ----------------------------
(***************************************************************************)
(* One attempt end to end: the relay's session with the two endpoints that *)
(* really use it.  Seat "A" joins the Switch room and publishes its        *)
(* advertisement, seat "B" hosts it.                                       *)
(*                                                                         *)
(* An endpoint has two threads that share the client's queues and flags:   *)
(*   - the tunnel thread (tunnel_client_v2.py): connect, prove the data    *)
(*     plane in both directions, send the outbox, fill the inbox;          *)
(*   - the main thread (c_stage.py, c2.py, distributed_endpoint.py): wait  *)
(*     for the proof, exchange the advertisement, then pump the C2 bridge. *)
(* A pump reads the proof, sends SIDE_READY, polls the inbox and flushes   *)
(* RFU in that order; the tunnel thread may run between any two of these.  *)
(***************************************************************************)
EXTENDS RelayTunnel

CONSTANTS
  Capacity,   \* of the client's inbox
  MaxEpochs,  \* bound on the epochs of a client that restarts its proof
  RfuOfA,     \* RFU frames seat A's Switch produces
  RfuOfB      \* and seat B's

ASSUME SessionAssumption == 
  Capacity \in Nat \ {0} /\ MaxEpochs \in Nat /\ RfuOfA \in Nat /\ RfuOfB \in Nat

VARIABLES
  client,   \* per seat: the tunnel thread's state
  outbox, inbox,
  stage,    \* where the main thread is
  bridge,   \* per seat: C2Bridge
  batch,    \* frames of the current poll not yet handled
  unsent,   \* C2Bridge._pending_local: numbers of RFU frames
  offered,  \* RFU frames the local Switch has produced
  received  \* numbers of the RFU frames handed to the local Switch

clientVars == <<client, outbox, inbox>>
bridgeVars == <<stage, bridge, batch, unsent, offered, received>>
tunnelVars == <<relayVars, clientVars, bridgeVars>>

MaxRfu(s)   == IF s = "A" THEN RfuOfA ELSE RfuOfB
NoChallenge == <<0, 0>>

NewClient ==
  [up |-> FALSE, epoch |-> 0, seq |-> 0, gate |-> NewGate, challenge |-> NoChallenge,
   returned |-> FALSE, answered |-> FALSE, proven |-> FALSE, proof |-> 0,
   advertisement |-> FALSE, sideSent |-> 0, error |-> ""]

NewBridge ==
  [pc |-> "sync", proof |-> 0, localSent |-> 0, peerKey |-> <<0, 0>>, connected |-> FALSE,
   rfuActive |-> FALSE, tx |-> 0, rx |-> 0, failure |-> ""]

SessionInit ==
  /\ RelayInit
  /\ client = Each(NewClient) /\ outbox = Each(<<>>) /\ inbox = Each(<<>>)
  /\ stage = Each("connecting") /\ bridge = Each(NewBridge) /\ batch = Each(<<>>)
  /\ unsent = Each(<<>>) /\ offered = Each(0) /\ received = Each(<<>>)

-----------------------------------------------------------------------------
(* Tunnel thread                                                           *)

(* A connection starts: a fresh epoch, empty queues, PEER_READY first.     *)
Connect(s) ==
  /\ ~client[s].up /\ client[s].error = ""
  /\ Accept(s, Frame(client[s].epoch + 1, 0, "PEER_READY", 0))
  /\ client' = [client EXCEPT ![s] = [client[s] EXCEPT
        !.up = TRUE, !.epoch = @ + 1, !.seq = 1, !.gate = NewGate, !.challenge = NoChallenge,
        !.returned = FALSE, !.answered = FALSE, !.proven = FALSE]]
  /\ outbox' = [outbox EXCEPT ![s] = <<>>] /\ inbox' = [inbox EXCEPT ![s] = <<>>]
  /\ UNCHANGED bridgeVars

(* The attempt is over at the relay: the client stops for good.            *)
Refused(s) ==
  /\ ~client[s].up /\ client[s].error = "" /\ session = "ended"
  /\ client' = [client EXCEPT ![s].error = "C_AUTHENTICATION_FAILED"]
  /\ UNCHANGED <<relayVars, outbox, inbox, bridgeVars>>

(* The client's socket is gone: readiness is cleared, the queues are left. *)
Disconnected(s, error) ==
  client' = [client EXCEPT ![s] = [@ EXCEPT !.up = FALSE, !.proven = FALSE, !.error = error]]

(* The client notices a closed socket, or its pings time out.              *)
ClientLost(s) ==
  /\ client[s].up
  /\ \/ handlers[s] = "none" /\ UNCHANGED losses
     \/ handlers[s] # "none" /\ losses < MaxLosses /\ losses' = losses + 1
  /\ Disconnected(s, "")
  /\ down' = [down EXCEPT ![s] = <<>>]
  /\ UNCHANGED <<sessionVars, handlers, pending, up, outbox, inbox, bridgeVars>>

(* The handler's socket is gone: the client closed it, the network lost    *)
(* it, or the handler gave up after a failed send.                         *)
HandlerLost(s) ==
  /\ Reset(s)
  /\ \/ (handlers[s] = "failing" \/ ~client[s].up) /\ UNCHANGED losses
     \/ /\ handlers[s] = "serving" /\ client[s].up
        /\ losses < MaxLosses /\ losses' = losses + 1
  /\ UNCHANGED <<clientVars, bridgeVars>>

(* What the client writes reaches its handler unless the socket is gone.   *)
Sent(s, frames) ==
  IF handlers[s] = "serving" THEN [up EXCEPT ![s] = @ \o frames] ELSE up

SendPending(s) ==
  /\ client[s].up /\ outbox[s] # <<>>
  /\ up' = Sent(s, <<Frame(client[s].epoch, client[s].seq, Head(outbox[s]).kind,
                           Head(outbox[s]).body)>>)
  /\ client' = [client EXCEPT ![s].seq = @ + 1]
  /\ outbox' = [outbox EXCEPT ![s] = Tail(@)]
  /\ UNCHANGED <<sessionVars, handlers, pending, down, losses, inbox, bridgeVars>>

(* The client's state after an accepted frame, before it answers.          *)
Gated(s, f) == [client[s] EXCEPT !.gate = Accepted(@, f)]

(* Mutant: answering the peer's challenge is enough.                       *)
MutantOneWayProof(c) ==
  IF c.answered /\ ~c.proven THEN [c EXCEPT !.proven = TRUE, !.proof = @ + 1] ELSE c

(* Both directions are proven once the own challenge came back and the     *)
(* peer's was answered.                                                    *)
Proved(c) ==
  IF c.returned /\ c.answered /\ ~c.proven
  THEN [c EXCEPT !.proven = TRUE, !.proof = @ + 1] ELSE c

(* A PEER_READY of a new epoch inside one connection restarts the proof    *)
(* and this side's own epoch.                                              *)
OnPeerReady(s, f) ==
  LET again == client[s].gate.epoch \notin {0, f.epoch}
      c0 == Gated(s, f)
      c1 == IF again THEN [c0 EXCEPT !.epoch = @ + 1, !.seq = 1, !.proven = FALSE,
                             !.returned = FALSE, !.answered = FALSE] ELSE c0
      probe == <<c1.epoch, f.epoch>>
  IN /\ again => client[s].epoch < MaxEpochs
     /\ client' = [client EXCEPT ![s] = Proved([c1 EXCEPT !.challenge = probe, !.seq = @ + 1])]
     /\ up' = Sent(s, (IF again THEN <<Frame(c1.epoch, 0, "PEER_READY", 0)>> ELSE <<>>) \o
                      <<Frame(c1.epoch, c1.seq, "PROBE_CHALLENGE", probe)>>)
     /\ UNCHANGED inbox

OnChallenge(s, f) ==
  /\ client' = [client EXCEPT ![s] =
                  Proved([Gated(s, f) EXCEPT !.answered = TRUE, !.seq = @ + 1])]
  /\ up' = Sent(s, <<Frame(client[s].epoch, client[s].seq, "PROBE_RESPONSE", f.body)>>)
  /\ UNCHANGED inbox

OnResponse(s, f) ==
  /\ IF f.body = client[s].challenge /\ f.body # NoChallenge
     THEN client' = [client EXCEPT ![s] = Proved([Gated(s, f) EXCEPT !.returned = TRUE])]
     ELSE Disconnected(s, "C_PROBE_MISMATCH")
  /\ UNCHANGED <<up, inbox>>

(* The first advertisement is delivered, its replays are only counted.     *)
OnAdvertisement(s, f) ==
  /\ CASE ~client[s].proven -> Disconnected(s, "C_ADVERTISEMENT_EARLY") /\ UNCHANGED inbox
       [] client[s].proven /\ client[s].advertisement ->
            client' = [client EXCEPT ![s] = Gated(s, f)] /\ UNCHANGED inbox
       [] OTHER ->
            /\ client' = [client EXCEPT ![s] = [Gated(s, f) EXCEPT !.advertisement = TRUE]]
            /\ inbox' = [inbox EXCEPT ![s] = Append(@, f)]
  /\ UNCHANGED up

(* Mutant: the inbox is not bounded.                                       *)
MutantInboxUnbounded(s, f) ==
  /\ client' = [client EXCEPT ![s] = Gated(s, f)]
  /\ inbox' = [inbox EXCEPT ![s] = Append(@, f)]
  /\ UNCHANGED up

(* SIDE_READY and RFU go to the inbox; a full inbox drops the connection.  *)
OnBridgeFrame(s, f) ==
  /\ IF Len(inbox[s]) < Capacity
     THEN /\ client' = [client EXCEPT ![s] = Gated(s, f)]
          /\ inbox' = [inbox EXCEPT ![s] = Append(@, f)]
     ELSE Disconnected(s, "") /\ UNCHANGED inbox
  /\ UNCHANGED up

(* A connection dropped for a full inbox counts as a lost one for the      *)
(* bound MaxLosses.                                                        *)
Overflows(s, f) ==
  /\ GateError(client[s].gate, f) = "" /\ f.kind \in {"SIDE_READY", "RFU"}
  /\ Len(inbox[s]) >= Capacity

(* TunnelClientV2._session: one received frame.                            *)
Receive(s) ==
  /\ client[s].up /\ down[s] # <<>>
  /\ IF Overflows(s, Head(down[s])) THEN losses < MaxLosses /\ losses' = losses + 1
                                    ELSE UNCHANGED losses
  /\ LET f == Head(down[s]) error == GateError(client[s].gate, f) IN
     CASE error # "" -> Disconnected(s, error) /\ UNCHANGED <<up, inbox>>
       [] error = "" /\ f.kind = "PEER_READY"      -> OnPeerReady(s, f)
       [] error = "" /\ f.kind = "PROBE_CHALLENGE" -> OnChallenge(s, f)
       [] error = "" /\ f.kind = "PROBE_RESPONSE"  -> OnResponse(s, f)
       [] error = "" /\ f.kind = "ADVERTISEMENT"   -> OnAdvertisement(s, f)
       [] error = "" /\ f.kind = "PEER_CLOSE"      -> Disconnected(s, "") /\ UNCHANGED <<up, inbox>>
       [] OTHER -> OnBridgeFrame(s, f)
  /\ down' = [down EXCEPT ![s] = IF client'[s].up THEN Tail(@) ELSE <<>>]
  /\ UNCHANGED <<sessionVars, handlers, pending, outbox, bridgeVars>>

-----------------------------------------------------------------------------
(* Main thread                                                             *)

Pending(kind, body) == [kind |-> kind, body |-> body]

(* CStage.connect: the data plane is proven; A then prepares its room, B   *)
(* waits for the advertisement.                                            *)
ConnectStage(s) ==
  /\ stage[s] = "connecting"
  /\ \/ client[s].proven /\ stage' = [stage EXCEPT ![s] = "advertisement"]
     \/ client[s].error # "" /\ stage' = [stage EXCEPT ![s] = "failed"]
  /\ UNCHANGED <<relayVars, clientVars, bridge, batch, unsent, offered, received>>

(* CStage.publish_advertisement: needs the plane to be proven right then.  *)
Publish ==
  /\ stage["A"] = "advertisement"
  /\ IF client["A"].proven
     THEN /\ outbox' = [outbox EXCEPT !["A"] = Append(@, Pending("ADVERTISEMENT", 1))]
          /\ stage' = [stage EXCEPT !["A"] = "bridge"]
     ELSE stage' = [stage EXCEPT !["A"] = "failed"] /\ UNCHANGED outbox
  /\ UNCHANGED <<relayVars, client, inbox, bridge, batch, unsent, offered, received>>

IsAdvertisement(f) == f.kind = "ADVERTISEMENT"

(* CStage.receive_advertisement_payload: everything polled together with   *)
(* the advertisement is dropped.                                           *)
AwaitAdvertisement ==
  /\ stage["B"] = "advertisement"
  /\ \/ /\ inbox["B"] # <<>>
        /\ stage' = IF \E i \in 1..Len(inbox["B"]) : IsAdvertisement(inbox["B"][i])
                    THEN [stage EXCEPT !["B"] = "bridge"] ELSE stage
        /\ inbox' = [inbox EXCEPT !["B"] = <<>>]
     \/ /\ inbox["B"] = <<>> /\ client["B"].error # ""
        /\ stage' = [stage EXCEPT !["B"] = "failed"] /\ UNCHANGED inbox
  /\ UNCHANGED <<relayVars, client, outbox, bridge, batch, unsent, offered, received>>

(* C2Bridge._fail: the first failure ends the bridge.                      *)
Fail(s, code) ==
  /\ bridge' = [bridge EXCEPT ![s] = [@ EXCEPT !.failure = code, !.connected = FALSE,
                                               !.rfuActive = FALSE]]
  /\ stage' = [stage EXCEPT ![s] = "failed"]

At(s, pc) == stage[s] = "bridge" /\ bridge[s].pc = pc

(* Mutant: an invalidation keeps the peer's readiness.                     *)
MutantKeepsPeerReady(b) ==
  [b EXCEPT !.connected = FALSE, !.rfuActive = FALSE, !.localSent = 0, !.tx = 0, !.rx = 0]

(* C2Bridge._invalidate                                                    *)
Invalidated(b) ==
  [b EXCEPT !.connected = FALSE, !.rfuActive = FALSE, !.peerKey = <<0, 0>>,
            !.localSent = 0, !.tx = 0, !.rx = 0]

(* C2Bridge._sync_proof up to the comparison.  (_pending_remote is handed  *)
(* to the Switch as it arrives; what an invalidation clears of it is lost  *)
(* the same way as frames on the wire.)                                    *)
SyncProof(s) ==
  LET proof == IF client[s].proven THEN client[s].proof ELSE 0
      b == IF proof # bridge[s].proof THEN [Invalidated(bridge[s]) EXCEPT !.proof = proof]
                                      ELSE bridge[s]
  IN /\ At(s, "sync")
     /\ IF client[s].error # "" THEN Fail(s, client[s].error)
        ELSE /\ bridge' = [bridge EXCEPT ![s] = [b EXCEPT !.pc =
                             IF b.proof \in {0, b.localSent} THEN "poll" ELSE "ready"]]
             /\ UNCHANGED stage
     /\ UNCHANGED <<relayVars, clientVars, batch, unsent, offered, received>>

(* The rest of _sync_proof: SIDE_READY once per proof.                     *)
SendSideReady(s) ==
  /\ At(s, "ready")
  /\ IF ~client[s].proven \/ client[s].sideSent = client[s].proof
     THEN Fail(s, "C_SIDE_READY_SEND_FAILED") /\ UNCHANGED <<client, outbox>>
     ELSE /\ outbox' = [outbox EXCEPT ![s] = Append(@, Pending("SIDE_READY", bridge[s].proof))]
          /\ client' = [client EXCEPT ![s].sideSent = client[s].proof]
          /\ bridge' = [bridge EXCEPT ![s] = [@ EXCEPT !.localSent = bridge[s].proof, !.pc = "poll"]]
          /\ UNCHANGED stage
  /\ UNCHANGED <<relayVars, inbox, batch, unsent, offered, received>>

Poll(s) ==
  /\ At(s, "poll") /\ inbox[s] # <<>>
  /\ batch' = [batch EXCEPT ![s] = inbox[s]] /\ inbox' = [inbox EXCEPT ![s] = <<>>]
  /\ bridge' = [bridge EXCEPT ![s].pc = "drain"]
  /\ UNCHANGED <<relayVars, client, outbox, stage, unsent, offered, received>>

(* C2Bridge._maybe_activate: C_BRIDGE_READY.                               *)
Activated(s, b) ==
  IF /\ b.localSent = b.proof /\ b.proof # 0 /\ b.peerKey # <<0, 0>>
     /\ client[s].proven
  THEN [b EXCEPT !.connected = TRUE] ELSE b

(* One frame of the poll.                                                  *)
Drain(s) ==
  LET f == Head(batch[s]) key == <<f.epoch, f.body>> IN
  /\ At(s, "drain") /\ batch[s] # <<>>
  /\ batch' = [batch EXCEPT ![s] = Tail(@)]
  /\ CASE f.kind = "SIDE_READY" /\ bridge[s].peerKey = key ->
            Fail(s, "C_SIDE_READY_DUPLICATE") /\ UNCHANGED received
       [] f.kind = "SIDE_READY" /\ bridge[s].peerKey # key ->
            /\ bridge' = [bridge EXCEPT ![s] = Activated(s, [@ EXCEPT !.peerKey = key])]
            /\ UNCHANGED <<stage, received>>
       [] f.kind = "RFU" /\ ~bridge[s].connected ->
            Fail(s, "C_RFU_EARLY") /\ UNCHANGED received
       [] f.kind = "RFU" /\ bridge[s].connected ->
            /\ bridge' = [bridge EXCEPT ![s].rx = @ + 1]
            /\ received' = [received EXCEPT ![s] = Append(@, f.body)]
            /\ UNCHANGED stage
       [] OTHER -> UNCHANGED <<bridge, stage, received>>
  /\ UNCHANGED <<relayVars, clientVars, unsent, offered>>

(* Mutant: a frame stays queued after it was sent.                         *)
MutantResends(q) == q

(* popleft                                                                 *)
AfterSend(q) == Tail(q)

(* The end of a pump: activate, flush local RFU, note RFU in both ways.    *)
Flush(s) ==
  LET b == Activated(s, bridge[s]) IN
  /\ \/ At(s, "poll") /\ inbox[s] = <<>>
     \/ At(s, "drain") /\ batch[s] = <<>>
  /\ IF b.connected /\ unsent[s] # <<>>
     THEN IF client[s].proven
          THEN /\ outbox' = [outbox EXCEPT ![s] = Append(@, Pending("RFU", Head(unsent[s])))]
               /\ unsent' = [unsent EXCEPT ![s] = AfterSend(@)]
               /\ bridge' = [bridge EXCEPT ![s] = [b EXCEPT !.tx = @ + 1]]
               /\ UNCHANGED stage
          ELSE Fail(s, "C_RFU_BACKPRESSURE") /\ UNCHANGED <<outbox, unsent>>
     ELSE /\ bridge' = [bridge EXCEPT ![s] = [b EXCEPT !.pc = "sync",
                          !.rfuActive = b.connected /\ (@ \/ (b.tx > 0 /\ b.rx > 0))]]
          /\ UNCHANGED <<outbox, unsent, stage>>
  /\ UNCHANGED <<relayVars, client, inbox, batch, offered, received>>

(* C2Bridge.send_rfu: the frame joins the queue that its own pump flushes. *)
SendRfu(s) ==
  /\ At(s, "sync") /\ offered[s] < MaxRfu(s)
  /\ offered' = [offered EXCEPT ![s] = @ + 1]
  /\ unsent' = [unsent EXCEPT ![s] = Append(@, offered[s] + 1)]
  /\ UNCHANGED <<relayVars, clientVars, stage, bridge, batch, received>>

-----------------------------------------------------------------------------
RelayServes(s) == RelayStep(s) /\ UNCHANGED <<clientVars, bridgeVars>>
Expires(s)     == (\E g \in {e[2] : e \in expiries} : ExpirePeer(s, g))
                    /\ UNCHANGED <<clientVars, bridgeVars>>
ReplayLost(s)  == ~client[s].up /\ client[s].error = "" /\ ReplayFails(s)
                    /\ UNCHANGED <<clientVars, bridgeVars>>

TunnelThread(s) == Connect(s) \/ Refused(s) \/ SendPending(s) \/ Receive(s)

Pump(s) == SyncProof(s) \/ SendSideReady(s) \/ Poll(s) \/ Drain(s) \/ Flush(s)

MainThread(s) ==
  \/ ConnectStage(s)
  \/ s = "A" /\ Publish
  \/ s = "B" /\ AwaitAdvertisement
  \/ Pump(s)

SessionNext ==
  \E s \in Seats :
    \/ TunnelThread(s) \/ MainThread(s) \/ SendRfu(s)
    \/ RelayServes(s) \/ ReplayLost(s) \/ Expires(s)
    \/ ClientLost(s) \/ HandlerLost(s)

SessionSpec == SessionInit /\ [][SessionNext]_tunnelVars

(* The same system when no reset finds a frame waiting for the session     *)
(* lock.                                                                   *)
QuietNext == SessionNext /\ (peers' = Each(FALSE) => pending' = Each(NoFrame))
QuietSpec == SessionInit /\ [][QuietNext]_tunnelVars

(* Both threads and the relay keep running, and a socket closed at one end *)
(* is noticed at the other (the ping timeout).  Nothing makes the network  *)
(* lose sockets, or the reconnect deadline strike.                         *)
LiveSession ==
  /\ QuietSpec
  /\ \A s \in Seats :
       /\ WF_tunnelVars(TunnelThread(s)) /\ WF_tunnelVars(MainThread(s))
       /\ WF_tunnelVars(RelayServes(s))
       /\ WF_tunnelVars(ClientLost(s) /\ UNCHANGED losses)
       /\ WF_tunnelVars(HandlerLost(s) /\ UNCHANGED losses)

-----------------------------------------------------------------------------
(* The endpoints' state is well formed: a client's error is one the code   *)
(* knows, a bridge fails with one of its own codes or its client's.        *)
SessionTypeOK ==
  /\ stage \in [Seats -> {"connecting", "advertisement", "bridge", "failed"}]
  /\ \A s \in Seats :
       /\ Len(inbox[s]) <= Capacity
       /\ client[s].epoch \in Nat /\ client[s].proof \in 0..client[s].epoch
       /\ offered[s] \in 0..MaxRfu(s)

(* C_BRIDGE_READY requires both current readiness records: while a bridge  *)
(* is connected under the proof its client has now, the readiness it       *)
(* counts was sent by the peer in the peer's stream of this connection,    *)
(* and its own has been sent under this proof.                             *)
ActivationIsCurrent ==
  \A s \in Seats :
    LET b == bridge[s] c == client[s] IN
    b.connected /\ c.proven /\ b.proof = c.proof /\ b.pc = "sync" =>
      b.peerKey[1] = c.gate.epoch /\ c.sideSent = c.proof

(* The endpoints' invariant: queues within their bounds, and no bridge     *)
(* active on what an earlier connection said (C2Bridge.pump).              *)
SessionIsConsistent == SessionTypeOK /\ ActivationIsCurrent

(* The data plane is proven in both directions: one side is only proven    *)
(* when the peer has answered it in the epoch it proves.                   *)
ProofIsMutual ==
  \A s \in Seats :
    client[s].proven => LET p == client[Peer(s)] IN
      p.epoch = client[s].gate.epoch => p.answered

(* RFU reaches the other Switch in the order sent and never twice, across  *)
(* every reset.                                                            *)
RfuInOrder ==
  \A s \in Seats : \A i, j \in 1..Len(received[s]) : i < j => received[s][i] < received[s][j]

(* A reset is not a failure (docs/89: both clients reconnect and prove     *)
(* afresh): a client never meets a protocol error.                         *)
ResetIsNotFatal ==
  \A s \in Seats : client[s].error \in {"", "C_AUTHENTICATION_FAILED"}

(* docs/89: RFU is rejected until both sides are ready, so no bridge ever  *)
(* sees RFU before its own C_BRIDGE_READY.                                 *)
(* The code does not meet it: README, section 3; SessionEarly.cfg.          *)
NoEarlyRfu == \A s \in Seats : bridge[s].failure # "C_RFU_EARLY"

(* As long as the session is not given up, a client that is not proven     *)
(* gets proven (again).                                                    *)
AlwaysReproven ==
  \A s \in Seats : (session = "live" /\ ~client[s].proven) ~>
    (client[s].proven \/ session = "ended" \/ \E x \in Seats : client[x].error # "")
=============================================================================
