---------------------------- MODULE ReliableLink ----------------------------
(***************************************************************************)
(* The two halves of the Pia Reliable sliding window                       *)
(* (src/bridge/frlgsim/reliable.py, class ReliableLink) and the duplicate  *)
(* filter of the live receiver (Sim._note_in_seq in sim.py), as functions  *)
(* on their state.  Sequence ids wrap, as 16-bit ids do.  A send half is   *)
(* [out, lo, unacked, gap, nacks], a receive half [next, held] and the     *)
(* filter [seen, last].  Time is left out: the frames whose retransmission *)
(* timeout has elapsed are a parameter.                                    *)
(***************************************************************************)
EXTENDS Integers, Sequences, FiniteSets, SequencesExt, FiniteSetsExt

CONSTANTS
  SeqSpace,   \* number of sequence ids (0x10000)
  Start,      \* the first sequence id of a stream (0xFFF0: it soon wraps)
  MaskBits,   \* width of the selective mask (128)
  DedupLimit  \* sequence ids the duplicate filter remembers (4096)

ASSUME SpaceAssumption ==
  /\ SeqSpace \in Nat /\ SeqSpace % 2 = 0 /\ Start \in 0..(SeqSpace - 1)
  /\ MaskBits \in Nat \ {0} /\ DedupLimit \in Nat \ {0} /\ DedupLimit < SeqSpace \div 2

SeqId == 0..(SeqSpace - 1)
NoSeq == -1

Plus(q, n) == (q + n) % SeqSpace

(* How many ids lie from q forward to p. *)
Ahead(q, p) == (p + SeqSpace - q) % SeqSpace

SeqLt(q, p) == Ahead(q, p) \in 1..(SeqSpace \div 2 - 1)

(* How far S runs on from q without a hole. *)
Run(q, S) ==
  CHOOSE n \in 0..Cardinality(S) :
    /\ \A k \in 0..(n - 1) : Plus(q, k) \in S
    /\ Plus(q, n) \notin S

----------------------------------------------------------------------------
(* The send half. *)
NewSender == [out |-> Start, lo |-> Start, unacked |-> <<>>, gap |-> NoSeq, nacks |-> 0]

Slots(s) == DOMAIN s.unacked
Inflight(s) == Cardinality(Slots(s))
Acked(s) == {q \in Slots(s) : s.unacked[q].acked}

(* The frames join the stream one after the other. *)
Queue(s, frames) ==
  LET new == {Plus(s.out, k) : k \in 0..(Len(frames) - 1)} IN
  [s EXCEPT !.out = Plus(@, Len(frames)),
            !.unacked = [q \in DOMAIN @ \cup new |->
               IF q \in new THEN [body |-> frames[Ahead(s.out, q) + 1], resent |-> FALSE, acked |-> FALSE]
               ELSE @[q]]]

(* Mutant: bit i of the mask read as id ack + i. *)
MutantMaskShifted(q, ack, mask) == SeqLt(q, ack) \/ (mask # {} /\ Ahead(ack, q) \in mask)
Arrived(q, ack, mask) == SeqLt(q, ack) \/ (mask # {} /\ Ahead(Plus(ack, 1), q) \in mask)

(* The window base only moves over the contiguous acknowledged run. *)
FreeRun(s) ==
  LET n == Run(s.lo, Acked(s)) IN
  [s EXCEPT !.lo = Plus(@, n),
            !.unacked = [q \in Slots(s) \ {Plus(s.lo, k) : k \in 0..(n - 1)} |-> s.unacked[q]]]

(* The hole the peer reports, and how many acknowledgements in a row report it; *)
(* `most` is where counting stops to matter.                                    *)
NoteGap(s, ack, mask, most) ==
  IF mask # {} /\ ack \in Slots(s) \ Acked(s)
  THEN [s EXCEPT !.gap = ack,
                 !.nacks = IF ack = s.gap THEN IF @ < most THEN @ + 1 ELSE @ ELSE 1]
  ELSE [s EXCEPT !.gap = NoSeq, !.nacks = 0]

OnAck(s, ack, mask, most) ==
  LET slots == [q \in Slots(s) |-> [s.unacked[q] EXCEPT !.acked = @ \/ Arrived(q, ack, mask)]]
  IN  NoteGap(FreeRun([s EXCEPT !.unacked = slots]), ack, mask, most)

(* Due: the confirmed hole, once, or a frame whose timeout elapsed. *)
Due(s, q, elapsed, dupNacks) ==
  \/ q = s.gap /\ ~s.unacked[q].resent /\ s.nacks >= dupNacks
  \/ q \in elapsed

(* The oldest frames still missing, at most limit, up to the first that is not due. *)
DueRetransmits(s, elapsed, limit, dupNacks) ==
  LET missing == Slots(s) \ Acked(s)
      before(q) == {p \in missing : Ahead(s.lo, p) < Ahead(s.lo, q)} IN
  {q \in missing : Cardinality(before(q)) < limit
                   /\ \A p \in before(q) \cup {q} : Due(s, p, elapsed, dupNacks)}

Resent(s, qs) ==
  LET slots == [q \in Slots(s) |-> [s.unacked[q] EXCEPT !.resent = @ \/ q \in qs]]
  IN  [s EXCEPT !.unacked = slots]

----------------------------------------------------------------------------
(* The receive half: `held` are the ids beyond a gap, with their frames. *)
NewReceiver == [next |-> Start, held |-> <<>>]

Without(f, S) == [q \in DOMAIN f \ S |-> f[q]]

(* The live path counts the id and leaves the delivery to its caller. *)
NoteReceived(r, q, body) ==
  IF q = r.next
  THEN LET n == Run(Plus(q, 1), DOMAIN r.held) IN
       [next |-> Plus(q, n + 1), held |-> Without(r.held, {Plus(q, k) : k \in 1..n})]
  ELSE IF SeqLt(r.next, q) THEN [r EXCEPT !.held = [p \in DOMAIN @ \cup {q} |-> IF p = q THEN body ELSE @[p]]]
  ELSE r

(* The in-order path: what this frame lets out.  Mutant: a frame beyond the gap *)
(* comes out as it arrives.                                                     *)
MutantEager(r, q, body) == IF q = r.next \/ SeqLt(r.next, q) THEN <<body>> ELSE <<>>
OnData(r, q, body) ==
  IF q # r.next THEN <<>>
  ELSE LET n == Run(Plus(q, 1), DOMAIN r.held) IN
       <<body>> \o [k \in 1..n |-> r.held[Plus(q, k)]]

(* The bulk acknowledgement: the next id expected and which later ones are held. *)
AckPayload(r) ==
  [ack |-> r.next, mask |-> {Ahead(Plus(r.next, 1), q) : q \in DOMAIN r.held} \cap 0..(MaskBits - 1)]

----------------------------------------------------------------------------
(* The duplicate filter of the live path. *)
NewFilter == [seen |-> <<>>, last |-> NoSeq]

(* An id so far behind the newest that the filter may have forgotten it. *)
Stale(f, q) ==
  f.last # NoSeq /\ Ahead(f.last, q) >= SeqSpace \div 2 /\ Ahead(q, f.last) >= DedupLimit

(* Mutant: a frame is compared with the newest one only. *)
MutantNewestOnly(f, q) == q # f.last /\ ~Stale(f, q)
Fresh(f, q) == q \notin ToSet(f.seen) /\ ~Stale(f, q)

NoteInSeq(f, q) ==
  LET seen == Append(f.seen, q) IN
  [seen |-> IF Len(seen) > DedupLimit THEN Tail(seen) ELSE seen,
   last |-> IF f.last = NoSeq \/ Ahead(f.last, q) < SeqSpace \div 2 THEN q ELSE f.last]
=============================================================================
