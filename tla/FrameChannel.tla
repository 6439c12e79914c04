---------------------------- MODULE FrameChannel ----------------------------
(***************************************************************************)
(* What one direction of a Pia Reliable stream promises its user, whatever *)
(* the radio loses, repeats or reorders: every frame that comes out went   *)
(* in, none comes out twice and, when the receiver keeps the order, the    *)
(* frames that came out are the first ones that went in.                   *)
(* src/bridge/frlgsim/reliable.py states it for the in-order receiver      *)
(* ("delivers data frames to the app IN ORDER"); the live receiver of      *)
(* src/bridge/frlgsim/sim.py promises the rest of it only.                 *)
(***************************************************************************)
EXTENDS Naturals, Sequences, SequencesExt

CONSTANTS
  Frame,     \* what the channel carries; no frame is offered twice
  Ordered    \* TRUE: frames come out in the order they went in

VARIABLES
  accepted,  \* the frames offered so far, in order
  delivered  \* the frames handed out so far, in order

channelVars == <<accepted, delivered>>

ChannelInit == accepted = <<>> /\ delivered = <<>>

Keeps(in, out) ==
  IF Ordered THEN IsPrefix(out, in) ELSE IsInjective(out) /\ ToSet(out) \subseteq ToSet(in)

(* Some frames not offered before go in. *)
AcceptFrames ==
  /\ Len(accepted') > Len(accepted)
  /\ IsPrefix(accepted, accepted') /\ IsInjective(accepted') /\ ToSet(accepted') \subseteq Frame
  /\ UNCHANGED delivered

(* Some accepted frames that are not out yet come out, at once when a late *)
(* frame fills the gap in front of the others.                             *)
DeliverFrames ==
  /\ Len(delivered') > Len(delivered)
  /\ IsPrefix(delivered, delivered')
  /\ Keeps(accepted, delivered')
  /\ UNCHANGED accepted

ChannelSpec == ChannelInit /\ [][AcceptFrames \/ DeliverFrames]_channelVars
=============================================================================
