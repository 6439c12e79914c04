----------------------------- MODULE TunnelLink -----------------------------
(***************************************************************************)
(* The last hop of a trade: the tunnel simulation                          *)
(* (src/bridge/frlgsim/tunnel.py on sim.py and reliable.py) between the    *)
(* Pia Reliable stream of one Switch and the bridge to the other side.     *)
(* Frames of the Switch are handed to the bridge as they arrive; frames of *)
(* the bridge are queued into a Reliable stream of the program's own.  The *)
(* radio loses frames and acknowledgements, delivers them in any order,    *)
(* and late copies arrive again.  The bridge (modelled in TunnelSession)   *)
(* and the Switch are external.                                            *)
(***************************************************************************)
EXTENDS PiaConnection, ReliableLink

CONSTANTS
  Window,       \* frames of ours in flight (MAX_INFLIGHT, 6)
  SwitchWindow, \* frames of the Switch in flight
  ChildDupNacks, ChildLimit,    \* DUP_NACK_THRESHOLD (3) and RTX_GAP_LIMIT (1)
  ParentDupNacks, ParentLimit,  \* the parent's threshold (1) and PARENT_RTX_LIMIT (6)
  MaxPending,   \* MAX_PENDING_REMOTE (256)
  PollLimit,    \* frames one poll of the bridge returns (32)
  InboxLimit,   \* frames the bridge keeps for the simulation
  MaxResets,    \* how often the bridge loses its proof
  Lifetime,     \* a frame and what acknowledges it are off the air once this many later ids are in use
  Loads         \* the traffic of a run, as [in, out]

(* A copy that outlives the duplicate filter would be taken for a new frame, *)
(* and an acknowledgement that outlives half the ids for one of later frames.*)
ASSUME LifetimeAssumption ==
  /\ Window \in 1..MaskBits /\ SwitchWindow \in 1..MaskBits
  /\ Lifetime \in Nat /\ Window <= Lifetime /\ SwitchWindow <= Lifetime
  /\ Lifetime + SwitchWindow <= DedupLimit + 1
ASSUME LimitAssumption ==
  MaxPending \in Nat /\ PollLimit \in Nat /\ InboxLimit \in Nat /\ MaxResets \in Nat

VARIABLES
  load,       \* how many frames each side has for the other
  rel,        \* our send half (ReliableLink)
  rcv,        \* our receive half, counting ids only
  filter,     \* the duplicate filter (_seen_in, last_in_seq)
  ackOwed,    \* _ack_owed
  pending,    \* _pending_remote of the simulation
  myGen,      \* _tunnel_generation
  bridge,     \* [up, gen, inbox, next]: C2Bridge as the simulation uses it
  failed,     \* the simulation raised
  swSend, swRcv,  \* the two halves of the Switch's stream
  wire,       \* Reliable frames and acknowledgements in flight
  offered, forwarded,  \* frames of the Switch: sent by it, handed to the bridge
  queued, shown        \* frames of the bridge: queued into the stream, shown to the Switch

simVars == <<rel, rcv, filter, ackOwed, pending, myGen, failed>>
swVars == <<swSend, swRcv>>
history == <<offered, forwarded, queued, shown>>
linkVars == <<simVars, swVars, history, bridge, wire, load>>
vars == <<piaVars, linkVars>>

LinkInit ==
  /\ PiaInit
  /\ load \in Loads
  /\ rel = NewSender /\ swSend = NewSender /\ rcv = NewReceiver /\ swRcv = NewReceiver
  /\ filter = NewFilter /\ ackOwed = FALSE
  /\ pending = <<>> /\ myGen = 0 /\ failed = FALSE
  /\ bridge = [up |-> TRUE, gen |-> 0, inbox |-> <<>>, next |-> 1]
  /\ wire = {}
  /\ offered = <<>> /\ forwarded = <<>> /\ queued = <<>> /\ shown = <<>>

Data(to, q, body) == [to |-> to, kind |-> "data", seq |-> q, body |-> body, mask |-> {}]
Ack(to, r) ==
  [to |-> to, kind |-> "ack", seq |-> AckPayload(r).ack, body |-> <<>>, mask |-> AckPayload(r).mask]

(* What is still in flight once the stream to `to` has reached id `out`: its *)
(* frames, and the acknowledgements that come back for them.                 *)
OfStream(p, to) == (p.to = to) <=> (p.kind = "data")
Alive(packets, to, out) == {p \in packets : OfStream(p, to) => Ahead(p.seq, out) <= Lifetime}

DupNacks == IF role = "child" THEN ChildDupNacks ELSE ParentDupNacks
Limit == IF role = "child" THEN ChildLimit ELSE ParentLimit

----------------------------------------------------------------------------
(* The bridge: frames of the other side, and a proof that may be lost.  The *)
(* loss is noticed in a pump, of the main loop or inside send_rfu or poll.  *)
BridgeFrame ==
  /\ bridge.up /\ bridge.next <= load.out /\ Len(bridge.inbox) < InboxLimit
  /\ bridge' = [bridge EXCEPT !.inbox = Append(@, <<bridge.next, bridge.gen>>), !.next = @ + 1]
  /\ UNCHANGED <<piaVars, simVars, swVars, history, wire, load>>

Invalidated(b) == [b EXCEPT !.up = FALSE, !.gen = @ + 1, !.inbox = <<>>]

BridgeReset ==
  /\ bridge.up /\ bridge.gen < MaxResets
  /\ bridge' = Invalidated(bridge)
  /\ UNCHANGED <<piaVars, simVars, swVars, history, wire, load>>

BridgeUp ==
  /\ ~bridge.up
  /\ bridge' = [bridge EXCEPT !.up = TRUE]
  /\ UNCHANGED <<piaVars, simVars, swVars, history, wire, load>>

----------------------------------------------------------------------------
(* Sim.process_datagram, live: an application frame is handed on as it     *)
(* arrives, once, and counted for the acknowledgement.                     *)
(* Mutant: an acknowledgement is owed for a new frame only. *)
MutantOwes(q) == ackOwed \/ Fresh(filter, q)
Owes(q) == TRUE

ReceiveData(p) ==
  /\ p \in wire /\ p.to = "sim" /\ p.kind = "data" /\ ~failed
  /\ ackOwed' = Owes(p.seq)
  /\ IF Fresh(filter, p.seq)
     THEN filter' = NoteInSeq(filter, p.seq) /\ forwarded' = Append(forwarded, p.body)
     ELSE UNCHANGED <<filter, forwarded>>
  /\ rcv' = NoteReceived(rcv, p.seq, p.body)
  /\ wire' = wire \ {p}
  /\ UNCHANGED <<piaVars, swVars, rel, pending, myGen, failed, bridge, load, offered, queued, shown>>

ReceiveAck(p) ==
  /\ p \in wire /\ p.to = "sim" /\ p.kind = "ack" /\ ~failed
  /\ rel' = OnAck(rel, p.seq, p.mask, DupNacks)
  /\ wire' = wire \ {p}
  /\ UNCHANGED <<piaVars, swVars, rcv, filter, ackOwed, pending, myGen, failed, bridge, load, history>>

(* TunnelSim._drain_tunnel: what is pending before the bridge is polled. *)
(* Mutant: a new generation keeps what the old one left. *)
MutantKeepsBacklog == IF bridge.up THEN pending ELSE <<>>
Backlog == IF bridge.up /\ bridge.gen = myGen THEN pending ELSE <<>>

FirstOf(s, n) == SubSeq(s, 1, Min({n, Len(s)}))
After(s, n) == SubSeq(s, n + 1, Len(s))

(* One poll of the bridge; `lost`: its pump finds the proof lost and drops the inbox. *)
Polled(lost) ==
  IF ~bridge.up \/ lost THEN <<>> ELSE FirstOf(bridge.inbox, PollLimit)

(* Mutant: the window is not reduced by what is in flight. *)
MutantRoom == Window
Room == Window - Inflight(rel)

(* TunnelSim._drive_tunnel_reliable, once per video frame while Pia is up: *)
(* drain the bridge, retransmit, fill the window, acknowledge.  `elapsed`  *)
(* are the frames whose timeout has run out, `period` says that the        *)
(* acknowledgement interval of the child has.                              *)
Drive(elapsed, period, lost) ==
  LET resends == DueRetransmits(rel, elapsed, Limit, DupNacks)
      backlog == Backlog \o Polled(lost)
      new == FirstOf(backlog, Room)
      acks == (role = "parent" \/ period) /\ (ackOwed \/ rcv.held # <<>>)
  IN  /\ PiaUp /\ ~failed
      /\ lost => bridge.up /\ bridge.gen < MaxResets
      /\ myGen' = IF bridge.up THEN bridge.gen ELSE myGen
      /\ bridge' = IF lost THEN Invalidated(bridge)
                   ELSE IF bridge.up
                   THEN [bridge EXCEPT !.inbox = After(@, PollLimit)]
                   ELSE bridge
      /\ IF Len(backlog) > MaxPending
         THEN /\ failed' = TRUE
              /\ pending' = FirstOf(backlog, MaxPending)
              /\ UNCHANGED <<rel, ackOwed, queued, wire>>
         ELSE /\ rel' = Queue(Resent(rel, resends), new)
              /\ queued' = queued \o new
              /\ pending' = After(backlog, Len(new))
              /\ ackOwed' = (ackOwed /\ ~acks)
              /\ wire' = Alive(wire, "switch", rel'.out)
                           \cup {Data("switch", q, rel'.unacked[q].body) :
                                   q \in resends \cup (Slots(rel') \ Slots(rel))}
                           \cup (IF acks THEN {Ack("switch", rcv)} ELSE {})
              /\ UNCHANGED failed
      /\ UNCHANGED <<piaVars, swVars, rcv, filter, load, offered, forwarded, shown>>

Timeouts == SUBSET Slots(rel)

----------------------------------------------------------------------------
(* The Switch, external: a window of the same protocol that keeps the order *)
(* and acknowledges what it receives at once.                               *)
SwitchSends ==
  /\ switch = "final" /\ Len(offered) < load.in /\ Inflight(swSend) < SwitchWindow
  /\ LET n == <<Len(offered) + 1, 0>> IN
     /\ swSend' = Queue(swSend, <<n>>)
     /\ offered' = Append(offered, n)
     /\ wire' = Alive(wire, "sim", swSend'.out) \cup {Data("sim", swSend.out, n)}
  /\ UNCHANGED <<piaVars, simVars, swRcv, bridge, load, forwarded, queued, shown>>

SwitchResends(q) ==
  /\ q \in Slots(swSend) \ Acked(swSend)
  /\ wire' = wire \cup {Data("sim", q, swSend.unacked[q].body)}
  /\ UNCHANGED <<piaVars, simVars, swVars, bridge, load, history>>

SwitchReceivesData(p) ==
  /\ p \in wire /\ p.to = "switch" /\ p.kind = "data"
  /\ shown' = shown \o OnData(swRcv, p.seq, p.body)
  /\ swRcv' = NoteReceived(swRcv, p.seq, p.body)
  /\ wire' = (wire \ {p}) \cup {Ack("sim", swRcv')}
  /\ UNCHANGED <<piaVars, simVars, swSend, bridge, load, offered, forwarded, queued>>

SwitchReceivesAck(p) ==
  /\ p \in wire /\ p.to = "switch" /\ p.kind = "ack"
  /\ swSend' = OnAck(swSend, p.seq, p.mask, 1)
  /\ wire' = wire \ {p}
  /\ UNCHANGED <<piaVars, simVars, swRcv, bridge, load, history>>

LoseFrame ==
  \E p \in wire :
    /\ losses < MaxLosses
    /\ losses' = losses + 1 /\ wire' = wire \ {p}
    /\ UNCHANGED <<role, conn, switch, air, simVars, swVars, bridge, load, history>>

PiaStep == PiaNext /\ UNCHANGED linkVars
DriveStep == \E elapsed \in Timeouts, period, lost \in BOOLEAN : Drive(elapsed, period, lost)
SwitchResendStep == \E q \in Slots(swSend) : SwitchResends(q)

LinkNext ==
  \/ PiaStep
  \/ BridgeFrame \/ BridgeReset \/ BridgeUp
  \/ DriveStep \/ SwitchSends \/ SwitchResendStep
  \/ \E p \in wire : \/ ReceiveData(p) \/ ReceiveAck(p)
                     \/ SwitchReceivesData(p) \/ SwitchReceivesAck(p)
  \/ LoseFrame

LinkSpec == LinkInit /\ [][LinkNext]_vars

(* The radio loses finitely much, the simulation is driven once per video    *)
(* frame, timeouts run out, and the Switch repeats what is not acknowledged. *)
(* The bridge owes nothing: it may stay down.                                *)
Ids == {Plus(Start, k - 1) : k \in UNION {1..Max({l.in, l.out}) : l \in Loads}}
Fairness ==
  /\ WF_vars(OnPiaMessage /\ UNCHANGED linkVars) /\ WF_vars(Poll /\ UNCHANGED linkVars)
  /\ WF_vars(SwitchRepeats /\ UNCHANGED linkVars) /\ WF_vars(SwitchReceives /\ UNCHANGED linkVars)
  /\ WF_vars(Drive(Slots(rel), TRUE, FALSE)) /\ WF_vars(SwitchSends)
  /\ WF_vars(\E p \in wire : ReceiveAck(p)) /\ WF_vars(\E p \in wire : SwitchReceivesAck(p))
  /\ \A q \in Ids :
       /\ WF_vars(\E p \in wire : p.seq = q /\ ReceiveData(p))
       /\ WF_vars(\E p \in wire : p.seq = q /\ SwitchReceivesData(p))
       /\ WF_vars(SwitchResends(q))

FairLink == LinkSpec /\ Fairness

----------------------------------------------------------------------------
(* The state is well formed, no window is overrun and the backlog stays    *)
(* within its bound (MAX_INFLIGHT, MAX_PENDING_REMOTE).                    *)
LinkTypeOK ==
  /\ PiaTypeOK
  /\ \A s \in {rel, swSend} : /\ s.out \in SeqId /\ s.lo \in SeqId /\ Slots(s) \subseteq SeqId
                            /\ s.gap \in SeqId \cup {NoSeq}
                            /\ Inflight(s) = Ahead(s.lo, s.out)
  /\ Inflight(rel) <= Window /\ Inflight(swSend) <= SwitchWindow
  /\ \A r \in {rcv, swRcv} : r.next \in SeqId /\ DOMAIN r.held \subseteq SeqId \ {r.next}
  /\ filter.last \in SeqId \cup {NoSeq} /\ Len(filter.seen) <= DedupLimit
  /\ ackOwed \in BOOLEAN /\ failed \in BOOLEAN
  /\ Len(pending) <= MaxPending /\ myGen \in 0..MaxResets
  /\ bridge.up \in BOOLEAN /\ bridge.gen \in 0..MaxResets /\ Len(bridge.inbox) <= InboxLimit

(* A frame counts as acknowledged only when the other end has it, in both  *)
(* streams: otherwise its slot is freed and nobody sends it again          *)
(* (ReliableLink.on_ack against note_received, on_data and ack_payload).   *)
Given(s, sent) == {sent[n] : n \in 1..(Len(sent) - Inflight(s))} \cup {s.unacked[q].body : q \in Acked(s)}
Held(r) == {r.held[q] : q \in DOMAIN r.held}
NoFalseAck ==
  /\ Given(rel, queued) \subseteq ToSet(shown) \cup Held(swRcv)
  /\ Given(swSend, offered) \subseteq ToSet(forwarded)

(* Both ends agree on the connection and on what has arrived               *)
(* (Sim.process_datagram, ConnectionManager.on_message).                   *)
LinkIsConsistent == LinkTypeOK /\ NoFalseAck /\ UpMeansFinalized

(* Live, the frames of the Switch reach the bridge at most once each,      *)
(* whatever is resent and however late a copy arrives (Sim.process_datagram*)
(* with _note_in_seq).  Their order is not kept.                           *)
FromSwitch == INSTANCE FrameChannel WITH
  Frame <- Nat \X Nat, Ordered <- FALSE, accepted <- offered, delivered <- forwarded
OnceToBridge == FromSwitch!ChannelSpec

(* The Switch sees the frames of the bridge in the order the simulation    *)
(* queued them, none twice and none left out (ReliableLink, send half).    *)
ToTheSwitch == INSTANCE FrameChannel WITH
  Frame <- Nat \X Nat, Ordered <- TRUE, accepted <- queued, delivered <- shown
InOrderToSwitch == ToTheSwitch!ChannelSpec

(* What was left over from an earlier connection of the bridge never enters *)
(* the stream once the new generation is known (TunnelSim._drain_tunnel).   *)
StaleFramesDropped ==
  [][\A n \in (Len(queued) + 1)..Len(queued') : queued'[n][2] = bridge.gen]_vars

(* Every frame of the Switch reaches the bridge and every frame queued for  *)
(* the Switch is shown, and both windows drain, although frames and         *)
(* acknowledgements are lost (due_retransmits, _ack_owed).                  *)
EveryFrameArrives ==
  []<>(failed \/ (/\ Len(offered) = load.in /\ Len(forwarded) = load.in
                  /\ Len(shown) = Len(queued) /\ Inflight(rel) = 0 /\ Inflight(swSend) = 0))
=============================================================================
