---------------------------- MODULE SequenceGate ----------------------------
(***************************************************************************)
(* SequenceGate of rfu_tunnel_v2.py: accept exactly one contiguous stream  *)
(* from a seat.  The relay keeps one gate per seat for the whole attempt,  *)
(* a client one for its peer per connection.                               *)
(*                                                                         *)
(* A frame is [epoch, seq, kind, body].  An epoch is 64 random bits in the *)
(* code and a never reused positive number here; 0 stands for None.  The   *)
(* body is what the kind needs to be told apart by: a challenge, the proof *)
(* generation of a SIDE_READY, the number of an RFU frame.                 *)
(***************************************************************************)
EXTENDS Integers

Frame(epoch, seq, kind, body) ==
  [epoch |-> epoch, seq |-> seq, kind |-> kind, body |-> body]

NewGate == [epoch |-> 0, next |-> 0, retired |-> {}]

(* Where the gate stands once the frame's epoch is the current one.        *)
ExpectedSeq(gate, f) == IF f.epoch = gate.epoch THEN gate.next ELSE 0

(* SequenceGate.accept: the error it raises, or "".                        *)
GateError(gate, f) ==
  CASE f.epoch \in gate.retired -> "C_EPOCH_STALE"
    [] f.epoch # gate.epoch /\ (f.seq # 0 \/ f.kind # "PEER_READY") -> "C_EPOCH_START_INVALID"
    [] f.seq < ExpectedSeq(gate, f) -> "C_SEQUENCE_DUPLICATE"
    [] f.seq > ExpectedSeq(gate, f) -> "C_SEQUENCE_GAP"
    [] f.kind = "PEER_READY" /\ f.seq # 0 -> "C_PEER_READY_DUPLICATE"
    [] OTHER -> ""

(* SequenceGate.accept: the gate after a frame it raises nothing for.      *)
Accepted(gate, f) ==
  [epoch   |-> f.epoch,
   next    |-> ExpectedSeq(gate, f) + 1,
   retired |-> IF f.epoch # gate.epoch /\ gate.epoch # 0
               THEN gate.retired \cup {gate.epoch} ELSE gate.retired]
=============================================================================
