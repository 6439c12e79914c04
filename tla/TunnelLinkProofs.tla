-------------------------- MODULE TunnelLinkProofs --------------------------
(***************************************************************************)
(* Proofs about TunnelLink, for every window, id space and load: what is   *)
(* acknowledged has arrived, both streams implement FrameChannel, and no   *)
(* frame of an old proof enters the stream.                                *)
(*                                                                         *)
(* Ids wrap, so the proofs count frames instead: Nth(k) is the id of the   *)
(* k-th frame of a stream, from 0.  Two frames that can meet are always    *)
(* less than half the ids apart, and for such ids the comparisons of the   *)
(* code say what they say of the numbers (NthAhead, NthBefore).            *)
(***************************************************************************)
EXTENDS TunnelLink, FiniteSetTheorems, SequenceTheorems, WellFoundedInduction, TLAPS

Nth(k) == Plus(Start, k)
Half == SeqSpace \div 2
Bodies == Nat \X Nat

-----------------------------------------------------------------------------
(* Ids.                                                                    *)

(* What the assumptions say of the sizes. *)
LEMMA Sizes ==
  /\ SeqSpace \in Nat /\ SeqSpace > 0 /\ Half \in Nat /\ SeqSpace = 2 * Half
  /\ Start \in Nat /\ Start < SeqSpace
  /\ DedupLimit \in Nat /\ DedupLimit > 0 /\ DedupLimit < Half
  /\ Lifetime \in Nat /\ Lifetime <= DedupLimit
  /\ MaskBits \in Nat
  /\ Window \in Nat /\ Window > 0 /\ Window <= Lifetime /\ Window <= MaskBits
  /\ SwitchWindow \in Nat /\ SwitchWindow > 0 /\ SwitchWindow <= Lifetime /\ SwitchWindow <= MaskBits
  /\ Lifetime + SwitchWindow <= DedupLimit + 1
<1>1. SeqSpace \in Nat /\ SeqSpace > 0 /\ Half \in Nat /\ SeqSpace = 2 * Half
  BY SpaceAssumption DEF Half
<1>2. Start \in Nat /\ Start < SeqSpace
  BY SpaceAssumption
<1>3. DedupLimit \in Nat /\ DedupLimit > 0 /\ DedupLimit < Half /\ MaskBits \in Nat
  BY SpaceAssumption DEF Half
<1>4. /\ Lifetime \in Nat
      /\ Window \in Nat /\ Window > 0 /\ Window <= Lifetime /\ Window <= MaskBits
      /\ SwitchWindow \in Nat /\ SwitchWindow > 0 /\ SwitchWindow <= Lifetime /\ SwitchWindow <= MaskBits
      /\ Lifetime + SwitchWindow <= DedupLimit + 1
  BY <1>3, LifetimeAssumption
<1> QED BY <1>1, <1>2, <1>3, <1>4

(* A remainder is what is left below SeqSpace, however often it fits. *)
LEMMA RemainderOf ==
  ASSUME NEW q \in Int, NEW r \in 0..(SeqSpace - 1) PROVE (SeqSpace * q + r) % SeqSpace = r
  BY Sizes

LEMMA Quotient ==
  ASSUME NEW x \in Nat
  PROVE  /\ x % SeqSpace \in 0..(SeqSpace - 1) /\ x \div SeqSpace \in Nat
         /\ x = (SeqSpace * (x \div SeqSpace)) + (x % SeqSpace)
  BY Sizes

LEMMA Whole ==
  ASSUME NEW q \in Int, NEW m \in Nat PROVE (SeqSpace * q + m) % SeqSpace = m % SeqSpace
<1> DEFINE d == m \div SeqSpace  r == m % SeqSpace
<1>1. d \in Nat /\ r \in 0..(SeqSpace - 1) /\ m = SeqSpace * d + r BY Quotient
<1> HIDE DEF d, r
<1>2. SeqSpace * q + m = SeqSpace * (q + d) + r BY <1>1, Sizes
<1>3. (SeqSpace * (q + d) + r) % SeqSpace = r BY <1>1, RemainderOf
<1> QED BY <1>2, <1>3 DEF r

LEMMA RemainderAdds ==
  ASSUME NEW a \in Nat, NEW n \in Nat PROVE ((a % SeqSpace) + n) % SeqSpace = (a + n) % SeqSpace
<1> DEFINE d == a \div SeqSpace  r == a % SeqSpace
<1>1. d \in Nat /\ r \in 0..(SeqSpace - 1) /\ a = SeqSpace * d + r BY Quotient
<1> HIDE DEF d, r
<1>2. a + n = SeqSpace * d + (r + n) BY <1>1, Sizes
<1>3. (SeqSpace * d + (r + n)) % SeqSpace = (r + n) % SeqSpace BY <1>1, Whole
<1> QED BY <1>2, <1>3 DEF r

(* Steps along the ids count frames. *)
LEMMA NthPlus ==
  ASSUME NEW k \in Nat, NEW n \in Nat PROVE Plus(Nth(k), n) = Nth(k + n) /\ Nth(k) \in SeqId
<1>1. Start + k \in Nat /\ (Start + k) + n = Start + (k + n) BY Sizes
<1>2. ((Start + k) % SeqSpace) + n = Nth(k) + n BY DEF Plus, Nth
<1>3. ((Start + k) + n) % SeqSpace = Nth(k + n) BY <1>1 DEF Plus, Nth
<1>4. Nth(k) \in SeqId BY <1>1, Quotient DEF Plus, Nth, SeqId
<1> QED BY <1>1, <1>2, <1>3, <1>4, RemainderAdds DEF Plus

LEMMA AheadPlus ==
  ASSUME NEW i \in SeqId, NEW d \in 0..(SeqSpace - 1)
  PROVE  Ahead(i, Plus(i, d)) = d /\ Ahead(Plus(i, d), i) = IF d = 0 THEN 0 ELSE SeqSpace - d
<1> USE Sizes DEF SeqId
<1>1. CASE i + d < SeqSpace
  <2>1. (i + d) % SeqSpace = i + d BY <1>1
  <2>2. (i + d + SeqSpace - i) % SeqSpace = d BY <1>1
  <2>3. (i + SeqSpace - (i + d)) % SeqSpace = IF d = 0 THEN 0 ELSE SeqSpace - d BY <1>1
  <2> QED BY <2>1, <2>2, <2>3 DEF Ahead, Plus
<1>2. CASE i + d >= SeqSpace
  <2>1. (i + d) % SeqSpace = i + d - SeqSpace BY <1>2
  <2>2. ((i + d - SeqSpace) + SeqSpace - i) % SeqSpace = d BY <1>2
  <2>3. (i + SeqSpace - (i + d - SeqSpace)) % SeqSpace = SeqSpace - d BY <1>2
  <2> QED BY <1>2, <2>1, <2>2, <2>3 DEF Ahead, Plus
<1> QED BY <1>1, <1>2

(* How far apart two ids are says how far apart their frames are. *)
LEMMA NthAhead ==
  ASSUME NEW a \in Nat, NEW b \in Nat, a <= b, b - a < SeqSpace
  PROVE  /\ Ahead(Nth(a), Nth(b)) = b - a
         /\ Ahead(Nth(b), Nth(a)) = IF a = b THEN 0 ELSE SeqSpace - (b - a)
<1>1. b - a \in 0..(SeqSpace - 1) /\ b - a \in Nat /\ a + (b - a) = b BY Sizes
<1>2. Nth(b) = Plus(Nth(a), b - a) /\ Nth(a) \in SeqId BY <1>1, NthPlus
<1>3. /\ Ahead(Nth(a), Plus(Nth(a), b - a)) = b - a
      /\ Ahead(Plus(Nth(a), b - a), Nth(a)) = IF b - a = 0 THEN 0 ELSE SeqSpace - (b - a)
  BY <1>1, <1>2, AheadPlus
<1> QED BY <1>2, <1>3

LEMMA NthInjective ==
  ASSUME NEW a \in Nat, NEW b \in Nat, a - b < SeqSpace, b - a < SeqSpace, Nth(a) = Nth(b)
  PROVE  a = b
<1>1. CASE a <= b
  <2>1. Ahead(Nth(a), Nth(a)) = a - a BY NthAhead, Sizes
  <2> QED BY <1>1, <2>1, NthAhead, Sizes
<1>2. CASE b <= a
  <2>1. Ahead(Nth(b), Nth(b)) = b - b BY NthAhead, Sizes
  <2> QED BY <1>2, <2>1, NthAhead, Sizes
<1> QED BY <1>1, <1>2

(* _seq_lt compares frames that are less than half the ids apart. *)
LEMMA NthBefore ==
  ASSUME NEW a \in Nat, NEW b \in Nat, a - b < Half, b - a < Half
  PROVE  SeqLt(Nth(a), Nth(b)) <=> a < b
<1>1. Half \in Nat /\ SeqSpace = 2 * Half BY Sizes
<1>2. CASE a <= b
  <2>1. Ahead(Nth(a), Nth(b)) = b - a BY <1>1, <1>2, NthAhead
  <2> QED BY <1>1, <1>2, <2>1 DEF SeqLt, Half
<1>3. CASE b < a
  <2>1. Ahead(Nth(a), Nth(b)) = SeqSpace - (a - b) BY <1>1, <1>3, NthAhead
  <2> QED BY <1>1, <1>3, <2>1 DEF SeqLt, Half
<1> QED BY <1>2, <1>3

-----------------------------------------------------------------------------
(* Least numbers and runs.                                                 *)

Smaller == {p \in Nat \X Nat : p[1] < p[2]}

LEMMA SmallerWellFounded == IsWellFoundedOn(Smaller, Nat)
  BY NatLessThanWellFounded DEF OpToRel, Smaller

LEMMA LeastNumber ==
  ASSUME NEW T \in SUBSET Nat, T # {} PROVE \E m \in T : \A k \in T : m <= k
<1>1. \E x \in T : \A y \in T : ~(<<y, x>> \in Smaller)
  BY SmallerWellFounded, WFMin
<1>2. \A x, y \in T : <<y, x>> \in Smaller <=> y < x
  BY DEF Smaller
<1>3. \A x, y \in T : ~(y < x) => x <= y
  OBVIOUS
<1> QED BY <1>1, <1>2, <1>3

IdsOf(K) == {Nth(k) : k \in K}

(* As many ids as frames, while they are fewer than the ids. *)
LEMMA IdsCount ==
  ASSUME NEW a \in Nat, NEW b \in Nat, b - a < SeqSpace, NEW K \in SUBSET (a..(b - 1))
  PROVE  /\ IsFiniteSet(K) /\ IsFiniteSet(IdsOf(K)) /\ Cardinality(IdsOf(K)) = Cardinality(K)
         /\ Cardinality(K) \in Nat /\ (a <= b => Cardinality(K) <= b - a)
         /\ \A k \in a..(b - 1) : Nth(k) \in IdsOf(K) => k \in K
<1>1. IsFiniteSet(a..(b - 1)) /\ Cardinality(a..(b - 1)) = IF a > b - 1 THEN 0 ELSE (b - 1) - a + 1
  BY FS_Interval
<1>2. IsFiniteSet(K) /\ Cardinality(K) <= Cardinality(a..(b - 1)) /\ Cardinality(K) \in Nat
  BY <1>1, FS_Subset, FS_CardinalityType
<1>3. \A j, k \in a..(b - 1) : Nth(j) = Nth(k) => j = k
  BY NthInjective, Sizes
<1> DEFINE f == [k \in K |-> Nth(k)]
<1>4. f \in Bijection(K, IdsOf(K))
  <2>1. f \in [K -> IdsOf(K)] BY DEF IdsOf
  <2>2. \A j, k \in K : f[j] = f[k] => j = k BY <1>3
  <2>3. \A t \in IdsOf(K) : \E k \in K : f[k] = t BY DEF IdsOf
  <2> HIDE DEF f
  <2> QED BY <2>1, <2>2, <2>3 DEF Bijection, Injection, Surjection, IsInjective
<1>5. IsFiniteSet(IdsOf(K)) /\ Cardinality(IdsOf(K)) = Cardinality(K)
  BY <1>2, <1>4, FS_Bijection DEF ExistsBijection
<1>6. \A k \in a..(b - 1) : Nth(k) \in IdsOf(K) => k \in K
  BY <1>3 DEF IdsOf
<1> QED BY <1>1, <1>2, <1>5, <1>6

(* Run finds the first frame that is missing. *)
LEMMA RunOf ==
  ASSUME NEW a \in Nat, NEW b \in Nat, a <= b, b - a < SeqSpace, NEW K \in SUBSET (a..(b - 1)),
         NEW n, n = Run(Nth(a), IdsOf(K))
  PROVE  n \in Nat /\ a + n <= b /\ (a..(a + n - 1)) \subseteq K /\ a + n \notin K
<1> DEFINE S == IdsOf(K)
           Good(m) == /\ \A k \in 0..(m - 1) : Plus(Nth(a), k) \in S
                      /\ Plus(Nth(a), m) \notin S
<1>1. /\ IsFiniteSet(K) /\ IsFiniteSet(S) /\ Cardinality(S) = Cardinality(K) /\ Cardinality(K) \in Nat
      /\ Cardinality(K) <= b - a
  BY IdsCount
<1>2. \A k \in a..b : Nth(k) \in S => k \in K
  <2> SUFFICES ASSUME NEW k \in a..b, Nth(k) \in S PROVE k \in K OBVIOUS
  <2>1. PICK j \in K : Nth(k) = Nth(j) BY DEF IdsOf
  <2>2. k \in Nat /\ j \in Nat /\ k - j < SeqSpace /\ j - k < SeqSpace BY Sizes
  <2>3. k = j BY <2>1, <2>2, NthInjective
  <2> QED BY <2>3
<1>3. \A k \in K : Nth(k) \in S BY DEF IdsOf
<1>4. \A k \in Nat : Plus(Nth(a), k) = Nth(a + k) BY NthPlus
<1>5. \A m \in 0..(b - a) : Good(m) <=> (a..(a + m - 1)) \subseteq K /\ a + m \notin K
  <2> SUFFICES ASSUME NEW m \in 0..(b - a) PROVE Good(m) <=> (a..(a + m - 1)) \subseteq K /\ a + m \notin K
    OBVIOUS
  <2>1. Plus(Nth(a), m) \notin S <=> a + m \notin K
    <3>1. m \in Nat /\ a + m \in a..b OBVIOUS
    <3> QED BY <3>1, <1>2, <1>3, <1>4
  <2>2. \A k \in 0..(m - 1) : Plus(Nth(a), k) \in S <=> a + k \in K
    <3> SUFFICES ASSUME NEW k \in 0..(m - 1) PROVE Plus(Nth(a), k) \in S <=> a + k \in K OBVIOUS
    <3>1. k \in Nat /\ a + k \in a..b OBVIOUS
    <3> QED BY <3>1, <1>2, <1>3, <1>4
  <2>3. (\A k \in 0..(m - 1) : a + k \in K) <=> (a..(a + m - 1)) \subseteq K
    <3>1. ASSUME \A k \in 0..(m - 1) : a + k \in K, NEW j \in a..(a + m - 1) PROVE j \in K
      <4>1. j - a \in 0..(m - 1) /\ a + (j - a) = j OBVIOUS
      <4> QED BY <3>1, <4>1
    <3>2. ASSUME (a..(a + m - 1)) \subseteq K, NEW k \in 0..(m - 1) PROVE a + k \in K
      BY <3>2
    <3> QED BY <3>1, <3>2
  <2> QED BY <2>1, <2>2, <2>3
<1>6. \E m \in 0..Cardinality(S) : Good(m)
  <2> DEFINE T == {m \in Nat : a + m \notin K}
  <2>1. b - a \in T OBVIOUS
  <2>2. PICK m \in T : \A k \in T : m <= k BY <2>1, LeastNumber
  <2>3. m \in 0..(b - a) /\ a + m \notin K BY <2>1, <2>2
  <2>4. (a..(a + m - 1)) \subseteq K
    <3> SUFFICES ASSUME NEW j \in a..(a + m - 1) PROVE j \in K OBVIOUS
    <3>1. j - a \in Nat /\ ~(m <= j - a) /\ a + (j - a) = j BY <2>3
    <3> QED BY <2>2, <3>1
  <2>5. Cardinality(a..(a + m - 1)) = m BY <2>3, FS_Interval
  <2>6. m <= Cardinality(K) BY <1>1, <2>4, <2>5, FS_Subset
  <2>7. Good(m) BY <1>5, <2>3, <2>4
  <2> HIDE DEF Good
  <2> QED BY <1>1, <2>3, <2>6, <2>7
<1>7. n \in 0..Cardinality(S) /\ Good(n)
  BY <1>6 DEF Run
<1> HIDE DEF Good
<1> QED BY <1>1, <1>5, <1>7

-----------------------------------------------------------------------------
(* Beginnings and rests of sequences.                                      *)

LEMMA MinOf ==
  ASSUME NEW a \in Int, NEW b \in Int PROVE Min({a, b}) = IF a <= b THEN a ELSE b
<1>1. CASE a <= b
  <2>1. \A x \in {a, b} : (\A y \in {a, b} : x =< y) <=> x = a BY <1>1
  <2>2. Min({a, b}) = a BY <2>1 DEF Min
  <2> QED BY <1>1, <2>2
<1>2. CASE b < a
  <2>1. \A x \in {a, b} : (\A y \in {a, b} : x =< y) <=> x = b BY <1>2
  <2>2. Min({a, b}) = b BY <2>1 DEF Min
  <2> QED BY <1>2, <2>2
<1> QED BY <1>1, <1>2

LEMMA FirstOfIs ==
  ASSUME NEW S, NEW s \in Seq(S), NEW n \in Nat
  PROVE  /\ FirstOf(s, n) \in Seq(S)
         /\ Len(FirstOf(s, n)) = IF n <= Len(s) THEN n ELSE Len(s)
         /\ \A i \in 1..Len(FirstOf(s, n)) : FirstOf(s, n)[i] = s[i]
<1>1. Min({n, Len(s)}) = IF n <= Len(s) THEN n ELSE Len(s)
  BY MinOf
<1> DEFINE m == Min({n, Len(s)})
<1>2. m \in Nat /\ m <= Len(s) BY <1>1
<1> HIDE DEF m
<1>3. SubSeq(s, 1, m) \in Seq(S) /\ Len(SubSeq(s, 1, m)) = m /\ \A i \in 1..m : SubSeq(s, 1, m)[i] = s[i]
  BY <1>2
<1> QED BY <1>1, <1>3 DEF FirstOf, m

LEMMA AfterIs ==
  ASSUME NEW S, NEW s \in Seq(S), NEW n \in Nat
  PROVE  /\ After(s, n) \in Seq(S)
         /\ Len(After(s, n)) = IF n <= Len(s) THEN Len(s) - n ELSE 0
         /\ \A i \in 1..Len(After(s, n)) : After(s, n)[i] = s[n + i]
<1>1. CASE n < Len(s)
  <2>1. n + 1 \in 1..Len(s) /\ Len(s) \in n..Len(s) BY <1>1
  <2>2. /\ SubSeq(s, n + 1, Len(s)) \in Seq(S)
        /\ Len(SubSeq(s, n + 1, Len(s))) = Len(s) - n
        /\ \A i \in 1..(Len(s) - n) : SubSeq(s, n + 1, Len(s))[i] = s[n + i]
    BY <1>1, <2>1
  <2> QED BY <1>1, <2>2 DEF After
<1>2. CASE n >= Len(s)
  <2>1. SubSeq(s, n + 1, Len(s)) = <<>> BY <1>2
  <2> QED BY <1>2, <2>1 DEF After
<1> QED BY <1>1, <1>2

LEMMA JoinIs ==
  ASSUME NEW S, NEW s \in Seq(S), NEW t \in Seq(S)
  PROVE  /\ s \o t \in Seq(S) /\ Len(s \o t) = Len(s) + Len(t)
         /\ \A i \in 1..Len(s) : (s \o t)[i] = s[i]
         /\ \A i \in 1..Len(t) : (s \o t)[Len(s) + i] = t[i]
         /\ \A i \in 1..(Len(s) + Len(t)) : i \in 1..Len(s) \/ (i - Len(s) \in 1..Len(t) /\ i = Len(s) + (i - Len(s)))
         /\ SubSeq(s \o t, 1, Len(s)) = s
<1>1. s \o t \in Seq(S) /\ Len(s \o t) = Len(s) + Len(t) OBVIOUS
<1>2. \A i \in 1..Len(s) : (s \o t)[i] = s[i] OBVIOUS
<1>3. \A i \in 1..Len(t) : (s \o t)[Len(s) + i] = t[i] OBVIOUS
<1>4. SubSeq(s \o t, 1, Len(s)) = s
  <2>1. SubSeq(s \o t, 1, Len(s)) \in Seq(S) /\ Len(SubSeq(s \o t, 1, Len(s))) = Len(s) BY <1>1
  <2>2. \A i \in 1..Len(s) : SubSeq(s \o t, 1, Len(s))[i] = s[i] BY <1>1, <1>2
  <2> QED BY <2>1, <2>2, SeqEqual
<1> QED BY <1>1, <1>2, <1>3, <1>4

-----------------------------------------------------------------------------
(* The send half in terms of the frames it has sent: it has freed those    *)
(* below lo and holds the others.                                          *)
Slot == [body : Bodies, resent : BOOLEAN, acked : BOOLEAN]

Sends(s, sent, W, lo) ==
  /\ lo \in Nat /\ lo <= Len(sent) /\ Len(sent) - lo <= W
  /\ s = [out |-> Nth(Len(sent)), lo |-> Nth(lo), unacked |-> s.unacked, gap |-> s.gap, nacks |-> s.nacks]
  /\ s.gap \in SeqId \cup {NoSeq}
  /\ s.unacked \in [IdsOf(lo..(Len(sent) - 1)) -> Slot]
  /\ \A k \in lo..(Len(sent) - 1) : s.unacked[Nth(k)].body = sent[k + 1]

(* The receive half: every frame below next has come, and of the later ones H. *)
Got(next, H) == (0..(next - 1)) \cup H

Receives(r, sent, next, H) ==
  /\ next \in Nat /\ next <= Len(sent) /\ H \subseteq ((next + 1)..(Len(sent) - 1))
  /\ r = [next |-> Nth(next), held |-> r.held]
  /\ r.held \in [IdsOf(H) -> Bodies]
  /\ \A k \in H : r.held[Nth(k)] = sent[k + 1]

(* Only what has come is acknowledged. *)
Confirms(s, sent, lo, next, H) ==
  /\ lo <= next
  /\ \A k \in lo..(Len(sent) - 1) : s.unacked[Nth(k)].acked => k \in Got(next, H)

(* What is in the air is a frame sent lately, or says what had come. *)
FrameAt(p, sent) ==
  \E k \in 0..(Len(sent) - 1) :
    Len(sent) - k <= Lifetime /\ p.seq = Nth(k) /\ p.body = sent[k + 1]

Masked(a, next, H) == {k - a - 1 : k \in {j \in Got(next, H) : j > a}}

AckAt(p, sent, next, H) ==
  \E a \in 0..next :
    Len(sent) - a <= Lifetime /\ p.seq = Nth(a) /\ p.mask \subseteq Masked(a, next, H)

OnAir(packets, to, sent, next, H) ==
  \A p \in packets :
    /\ p.to = to /\ p.kind = "data" => FrameAt(p, sent)
    /\ p.to # to /\ p.kind # "data" => AckAt(p, sent, next, H)

SentFacts(sent, W) == sent \in Seq(Bodies) /\ W \in Nat /\ W <= Lifetime /\ W <= MaskBits

LEMMA SendsCount ==
  ASSUME NEW s, NEW sent, NEW W, NEW lo, SentFacts(sent, W), Sends(s, sent, W, lo)
  PROVE  /\ Slots(s) = IdsOf(lo..(Len(sent) - 1)) /\ Inflight(s) = Len(sent) - lo
         /\ Ahead(s.lo, s.out) = Len(sent) - lo
         /\ \A j, k \in lo..(Len(sent) - 1) : Nth(j) = Nth(k) => j = k
<1>1. Len(sent) \in Nat /\ lo \in Nat /\ lo <= Len(sent) /\ Len(sent) - lo < SeqSpace
  <2>1. Len(sent) \in Nat BY DEF SentFacts
  <2>2. lo \in Nat /\ lo <= Len(sent) /\ Len(sent) - lo <= W BY DEF Sends
  <2>3. W \in Nat /\ W < SeqSpace BY Sizes DEF SentFacts
  <2> QED BY <2>1, <2>2, <2>3, Sizes
<1>2. Slots(s) = IdsOf(lo..(Len(sent) - 1))
  BY DEF Sends, Slots
<1>3. Cardinality(IdsOf(lo..(Len(sent) - 1))) = Cardinality(lo..(Len(sent) - 1))
  BY <1>1, IdsCount
<1>4. Cardinality(lo..(Len(sent) - 1)) = Len(sent) - lo
  <2>1. lo \in Int /\ Len(sent) - 1 \in Int BY <1>1
  <2>2. Cardinality(lo..(Len(sent) - 1)) = IF lo > Len(sent) - 1 THEN 0 ELSE (Len(sent) - 1) - lo + 1
    BY <2>1, FS_Interval
  <2> QED BY <1>1, <2>2
<1>5. Ahead(s.lo, s.out) = Len(sent) - lo
  BY <1>1, NthAhead DEF Sends
<1>6. \A j, k \in lo..(Len(sent) - 1) : Nth(j) = Nth(k) => j = k
  <2> SUFFICES ASSUME NEW j \in lo..(Len(sent) - 1), NEW k \in lo..(Len(sent) - 1), Nth(j) = Nth(k)
               PROVE j = k
    OBVIOUS
  <2>1. j \in Nat /\ k \in Nat /\ j - k < SeqSpace /\ k - j < SeqSpace BY <1>1, Sizes
  <2> QED BY <2>1, NthInjective
<1> QED BY <1>2, <1>3, <1>4, <1>5, <1>6 DEF Inflight

LEMMA ResentSends ==
  ASSUME NEW s, NEW sent, NEW W, NEW lo, NEW qs, NEW next, NEW H, SentFacts(sent, W),
         Sends(s, sent, W, lo), Confirms(s, sent, lo, next, H)
  PROVE  /\ Sends(Resent(s, qs), sent, W, lo) /\ Confirms(Resent(s, qs), sent, lo, next, H)
         /\ Slots(Resent(s, qs)) = Slots(s)
<1> DEFINE t == Resent(s, qs)
           K == lo..(Len(sent) - 1)
<1>1. s.unacked \in [IdsOf(K) -> Slot] BY DEF Sends
<1>2. t = [s EXCEPT !.unacked = [q \in DOMAIN s.unacked |->
             [s.unacked[q] EXCEPT !.resent = s.unacked[q].resent \/ q \in qs]]]
  BY DEF Resent, Slots
<1>3. /\ t.out = s.out /\ t.lo = s.lo /\ t.gap = s.gap /\ t.nacks = s.nacks
      /\ t.unacked = [q \in IdsOf(K) |-> [s.unacked[q] EXCEPT !.resent = s.unacked[q].resent \/ q \in qs]]
      /\ t = [out |-> t.out, lo |-> t.lo, unacked |-> t.unacked, gap |-> t.gap, nacks |-> t.nacks]
  BY <1>1, <1>2 DEF Sends
<1> HIDE DEF t
<1>4. \A q \in IdsOf(K) : /\ t.unacked[q] \in Slot /\ t.unacked[q].body = s.unacked[q].body
                         /\ t.unacked[q].acked = s.unacked[q].acked
  <2> SUFFICES ASSUME NEW q \in IdsOf(K)
               PROVE /\ t.unacked[q] \in Slot /\ t.unacked[q].body = s.unacked[q].body
                     /\ t.unacked[q].acked = s.unacked[q].acked
    OBVIOUS
  <2>1. s.unacked[q] \in Slot BY <1>1
  <2>2. t.unacked[q] = [s.unacked[q] EXCEPT !.resent = s.unacked[q].resent \/ q \in qs] BY <1>3
  <2> QED BY <2>1, <2>2 DEF Slot
<1>5. \A k \in K : Nth(k) \in IdsOf(K) BY DEF IdsOf
<1>6. t.unacked \in [IdsOf(K) -> Slot] BY <1>3, <1>4
<1>7. Sends(t, sent, W, lo)
  <2>1. lo \in Nat /\ lo <= Len(sent) /\ Len(sent) - lo <= W BY DEF Sends
  <2>2. t = [out |-> Nth(Len(sent)), lo |-> Nth(lo), unacked |-> t.unacked, gap |-> t.gap, nacks |-> t.nacks]
        /\ t.gap \in SeqId \cup {NoSeq}
    BY <1>3 DEF Sends
  <2>3. \A k \in K : t.unacked[Nth(k)].body = sent[k + 1] BY <1>4, <1>5 DEF Sends
  <2> QED BY <1>6, <2>1, <2>2, <2>3 DEF Sends
<1>8. Confirms(t, sent, lo, next, H) BY <1>4, <1>5 DEF Confirms
<1>9. Slots(t) = Slots(s) BY <1>1, <1>3 DEF Slots
<1> QED BY <1>7, <1>8, <1>9 DEF t

LEMMA QueueSends ==
  ASSUME NEW s, NEW sent, NEW W, NEW lo, NEW frames \in Seq(Bodies), NEW next, NEW H, SentFacts(sent, W),
         Sends(s, sent, W, lo), Confirms(s, sent, lo, next, H),
         Len(sent) + Len(frames) - lo <= W
  PROVE  /\ Sends(Queue(s, frames), sent \o frames, W, lo)
         /\ Confirms(Queue(s, frames), sent \o frames, lo, next, H)
         /\ Slots(Queue(s, frames)) = IdsOf(lo..(Len(sent) + Len(frames) - 1))
         /\ Queue(s, frames).out = Nth(Len(sent) + Len(frames))
<1> DEFINE t == Queue(s, frames)
           N == Len(sent)
           n == Len(frames)
           K == lo..(N - 1)
           M == N..(N + n - 1)
           all == sent \o frames
<1>1. /\ N \in Nat /\ n \in Nat /\ lo \in Nat /\ lo <= N /\ N + n - lo < Half /\ W \in Nat
      /\ all \in Seq(Bodies) /\ Len(all) = N + n
      /\ \A i \in 1..N : all[i] = sent[i]
      /\ \A i \in 1..n : all[N + i] = frames[i]
      /\ s.unacked \in [IdsOf(K) -> Slot] /\ s.out = Nth(N) /\ Half \in Nat /\ SeqSpace = 2 * Half
  <2>1. sent \in Seq(Bodies) /\ W \in Nat /\ W < Half /\ Half \in Nat /\ SeqSpace = 2 * Half
    BY Sizes DEF SentFacts
  <2>2. /\ lo \in Nat /\ lo <= N /\ s.unacked \in [IdsOf(K) -> Slot] /\ s.out = Nth(N)
    BY DEF Sends
  <2>3. N \in Nat /\ n \in Nat /\ N + n - lo < Half BY <2>1, <2>2
  <2>4. /\ all \in Seq(Bodies) /\ Len(all) = N + n
        /\ \A i \in 1..N : all[i] = sent[i]
        /\ \A i \in 1..n : all[N + i] = frames[i]
    BY <2>1, JoinIs
  <2> QED BY <2>1, <2>2, <2>3, <2>4
<1>a. N \in Nat /\ n \in Nat /\ lo \in Nat /\ lo <= N /\ N + n - lo < Half /\ Half \in Nat /\ SeqSpace = 2 * Half
  BY <1>1
<1>b. /\ s.gap \in SeqId \cup {NoSeq} /\ s.lo = Nth(lo) /\ \A k \in K : s.unacked[Nth(k)].body = sent[k + 1]
      /\ N + n - lo <= W /\ Len(all) = N + n
  BY <1>1 DEF Sends
<1>d. lo..(Len(all) - 1) = lo..(N + n - 1) BY <1>b
<1> HIDE DEF N, n, all
<1>2. {Plus(s.out, k) : k \in 0..(n - 1)} = IdsOf(M)
  <2>1. \A k \in 0..(n - 1) : Plus(s.out, k) = Nth(N + k) /\ N + k \in M
    <3>1. \A k \in Nat : Plus(Nth(N), k) = Nth(N + k) BY <1>a, NthPlus
    <3>2. \A k \in 0..(n - 1) : k \in Nat /\ N + k \in M BY <1>a
    <3>3. s.out = Nth(N) BY <1>1
    <3> QED BY <3>1, <3>2, <3>3
  <2>2. \A k \in M : k - N \in 0..(n - 1) /\ N + (k - N) = k BY <1>a
  <2> QED BY <2>1, <2>2 DEF IdsOf
<1> DEFINE u == [q \in DOMAIN s.unacked \cup IdsOf(M) |->
                   IF q \in IdsOf(M) THEN [body |-> frames[Ahead(s.out, q) + 1], resent |-> FALSE, acked |-> FALSE]
                   ELSE s.unacked[q]]
<1>3. t = [s EXCEPT !.out = Plus(s.out, n), !.unacked = u]
  BY <1>2 DEF Queue, n
<1>4. IdsOf(K) \cup IdsOf(M) = IdsOf(lo..(N + n - 1))
  <2>1. K \cup M = lo..(N + n - 1) BY <1>1
  <2> QED BY <2>1 DEF IdsOf
<1>c. /\ DOMAIN u = IdsOf(lo..(N + n - 1)) /\ u = [q \in DOMAIN u |-> u[q]]
      /\ \A q \in DOMAIN u : q \notin IdsOf(M) => u[q] = s.unacked[q]
      /\ \A q \in IdsOf(M) :
           u[q] = [body |-> frames[Ahead(s.out, q) + 1], resent |-> FALSE, acked |-> FALSE]
  <2>1. DOMAIN s.unacked = IdsOf(K) BY <1>1
  <2> QED BY <1>4, <2>1
<1> HIDE DEF u
<1>5. /\ t.out = Nth(N + n) /\ t.lo = s.lo /\ t.gap = s.gap /\ t.nacks = s.nacks /\ t.unacked = u
      /\ t = [out |-> t.out, lo |-> t.lo, unacked |-> t.unacked, gap |-> t.gap, nacks |-> t.nacks]
  <2>1. Plus(s.out, n) = Nth(N + n) BY <1>1, NthPlus
  <2>2. s = [out |-> s.out, lo |-> s.lo, unacked |-> s.unacked, gap |-> s.gap, nacks |-> s.nacks] BY DEF Sends
  <2>3. t = [out |-> Nth(N + n), lo |-> s.lo, unacked |-> u, gap |-> s.gap, nacks |-> s.nacks]
    BY <1>3, <2>1, <2>2
  <2> QED BY <2>3
<1> HIDE DEF t
<1>6. \A k \in M : /\ Nth(k) \in IdsOf(M) /\ Nth(k) \in IdsOf(lo..(N + n - 1))
                   /\ t.unacked[Nth(k)] = [body |-> all[k + 1], resent |-> FALSE, acked |-> FALSE]
                   /\ all[k + 1] \in Bodies
  <2> SUFFICES ASSUME NEW k \in M
               PROVE /\ Nth(k) \in IdsOf(M) /\ Nth(k) \in IdsOf(lo..(N + n - 1))
                     /\ t.unacked[Nth(k)] = [body |-> all[k + 1], resent |-> FALSE, acked |-> FALSE]
                     /\ all[k + 1] \in Bodies
    OBVIOUS
  <2>1. k \in Nat /\ N <= k /\ k - N < SeqSpace /\ k \in lo..(N + n - 1) BY <1>a
  <2>2. Nth(k) \in IdsOf(M) /\ Nth(k) \in IdsOf(lo..(N + n - 1)) BY <2>1 DEF IdsOf
  <2>3. Ahead(s.out, Nth(k)) = k - N BY <1>1, <2>1, NthAhead
  <2>4. k - N + 1 \in 1..n /\ N + (k - N + 1) = k + 1 BY <1>a
  <2>5. all[k + 1] = frames[k - N + 1] /\ frames[k - N + 1] \in Bodies BY <1>1, <2>4 DEF n
  <2>6. frames[Ahead(s.out, Nth(k)) + 1] = all[k + 1] BY <2>3, <2>5
  <2>7. u[Nth(k)] = [body |-> all[k + 1], resent |-> FALSE, acked |-> FALSE] BY <1>c, <2>2, <2>6
  <2> QED BY <1>5, <2>2, <2>5, <2>7
<1>7. \A k \in K : /\ Nth(k) \in IdsOf(K) /\ Nth(k) \in IdsOf(lo..(N + n - 1))
                   /\ t.unacked[Nth(k)] = s.unacked[Nth(k)]
                   /\ s.unacked[Nth(k)].body = all[k + 1]
  <2> SUFFICES ASSUME NEW k \in K
               PROVE /\ Nth(k) \in IdsOf(K) /\ Nth(k) \in IdsOf(lo..(N + n - 1))
                     /\ t.unacked[Nth(k)] = s.unacked[Nth(k)]
                     /\ s.unacked[Nth(k)].body = all[k + 1]
    OBVIOUS
  <2>1. k \in Nat /\ k \in lo..(N + n - 1) /\ k < N BY <1>1
  <2>2. Nth(k) \in IdsOf(K) /\ Nth(k) \in IdsOf(lo..(N + n - 1)) BY <2>1 DEF IdsOf
  <2>3. Nth(k) \notin IdsOf(M)
    <3> SUFFICES ASSUME NEW j \in M, Nth(k) = Nth(j) PROVE FALSE BY DEF IdsOf
    <3>1. j \in Nat /\ N <= j /\ j <= N + n - 1 /\ lo <= k BY <1>a, <2>1
    <3>2. j - k < SeqSpace /\ k - j < SeqSpace /\ j # k BY <1>a, <2>1, <3>1
    <3> QED BY <2>1, <3>1, <3>2, NthInjective
  <2>4. s.unacked[Nth(k)].body = sent[k + 1] /\ k + 1 \in 1..N BY <1>a, <1>b, <2>1
  <2> QED BY <1>1, <1>c, <1>5, <2>2, <2>3, <2>4
<1>8. K \cup M = lo..(N + n - 1) BY <1>1
<1>9. \A q \in IdsOf(lo..(N + n - 1)) : t.unacked[q] \in Slot
  <2> SUFFICES ASSUME NEW k \in lo..(N + n - 1) PROVE t.unacked[Nth(k)] \in Slot BY DEF IdsOf
  <2>1. CASE k \in K BY <1>1, <1>7, <2>1
  <2>2. CASE k \in M
    <3>1. all[k + 1] \in Bodies /\ t.unacked[Nth(k)] = [body |-> all[k + 1], resent |-> FALSE, acked |-> FALSE]
      BY <1>6, <2>2
    <3> QED BY <3>1 DEF Slot
  <2> QED BY <1>8, <2>1, <2>2
<1>10. t.unacked \in [IdsOf(lo..(N + n - 1)) -> Slot] BY <1>c, <1>5, <1>9
<1>11. \A k \in lo..(N + n - 1) : t.unacked[Nth(k)].body = all[k + 1]
  <2> SUFFICES ASSUME NEW k \in lo..(N + n - 1) PROVE t.unacked[Nth(k)].body = all[k + 1] OBVIOUS
  <2>1. CASE k \in K BY <1>7, <2>1
  <2>2. CASE k \in M
    <3>1. t.unacked[Nth(k)] = [body |-> all[k + 1], resent |-> FALSE, acked |-> FALSE] BY <1>6, <2>2
    <3> QED BY <3>1
  <2> QED BY <1>8, <2>1, <2>2
<1>12. Sends(t, all, W, lo)
  <2>1. lo \in Nat /\ lo <= Len(all) /\ Len(all) - lo <= W BY <1>a, <1>b
  <2>2. t = [out |-> Nth(Len(all)), lo |-> Nth(lo), unacked |-> t.unacked, gap |-> t.gap, nacks |-> t.nacks]
        /\ t.gap \in SeqId \cup {NoSeq}
    BY <1>b, <1>5
  <2>3. /\ t.unacked \in [IdsOf(lo..(Len(all) - 1)) -> Slot]
        /\ \A k \in lo..(Len(all) - 1) : t.unacked[Nth(k)].body = all[k + 1]
    BY <1>d, <1>10, <1>11
  <2> QED BY <2>1, <2>2, <2>3 DEF Sends
<1>13. Confirms(t, all, lo, next, H)
  <2>1. \A k \in K : s.unacked[Nth(k)].acked => k \in Got(next, H) BY DEF Confirms, N
  <2>2. ASSUME NEW k \in M PROVE ~t.unacked[Nth(k)].acked
    <3>1. t.unacked[Nth(k)] = [body |-> all[k + 1], resent |-> FALSE, acked |-> FALSE] BY <1>6
    <3>2. t.unacked[Nth(k)].acked = FALSE BY <3>1
    <3> QED BY <3>2
  <2>3. lo <= next BY DEF Confirms
  <2>4. \A k \in lo..(N + n - 1) : t.unacked[Nth(k)].acked => k \in Got(next, H)
    BY <1>7, <1>8, <2>1, <2>2
  <2>5. \A k \in lo..(Len(all) - 1) : t.unacked[Nth(k)].acked => k \in Got(next, H)
    BY <1>d, <2>4
  <2> QED BY <2>3, <2>5 DEF Confirms
<1>14. Slots(t) = IdsOf(lo..(N + n - 1)) BY <1>c, <1>5 DEF Slots
<1> QED BY <1>5, <1>12, <1>13, <1>14 DEF t, all, N, n

(* Distinct frames of a window have distinct ids, so ids and frames can be *)
(* taken away alike.                                                       *)
Among(K, a, b) == K \subseteq (a..(b - 1))

LEMMA IdsMinus ==
  ASSUME NEW K, NEW L, NEW a \in Nat, NEW b \in Nat, b - a < SeqSpace, Among(K, a, b), Among(L, a, b)
  PROVE  IdsOf(K) \ IdsOf(L) = IdsOf(K \ L)
<1>1. \A k \in L : \A j \in K : Nth(j) = Nth(k) => j = k
  <2> SUFFICES ASSUME NEW k \in L, NEW j \in K, Nth(j) = Nth(k) PROVE j = k OBVIOUS
  <2>1. j \in a..(b - 1) /\ k \in a..(b - 1) BY DEF Among
  <2>2. j \in Nat /\ k \in Nat /\ j - k < SeqSpace /\ k - j < SeqSpace BY <2>1, Sizes
  <2> QED BY <2>2, NthInjective
<1> QED BY <1>1 DEF IdsOf

LEMMA IdsRange ==
  ASSUME NEW a \in Nat, NEW n \in Nat
  PROVE  /\ {Plus(Nth(a), k) : k \in 0..(n - 1)} = IdsOf(a..(a + n - 1))
         /\ {Plus(Nth(a), k) : k \in 1..n} = IdsOf((a + 1)..(a + n))
<1>1. \A k \in 0..n : Plus(Nth(a), k) = Nth(a + k) BY NthPlus
<1>2. \A k \in 0..(n - 1) : k \in 0..n /\ a + k \in a..(a + n - 1) OBVIOUS
<1>3. \A k \in 1..n : k \in 0..n /\ a + k \in (a + 1)..(a + n) OBVIOUS
<1>4. \A k \in a..(a + n - 1) : k - a \in 0..(n - 1) /\ a + (k - a) = k OBVIOUS
<1>5. \A k \in (a + 1)..(a + n) : k - a \in 1..n /\ a + (k - a) = k OBVIOUS
<1>6. {Plus(Nth(a), k) : k \in 0..(n - 1)} = IdsOf(a..(a + n - 1)) BY <1>1, <1>2, <1>4 DEF IdsOf
<1>7. {Plus(Nth(a), k) : k \in 1..n} = IdsOf((a + 1)..(a + n)) BY <1>1, <1>3, <1>5 DEF IdsOf
<1> QED BY <1>6, <1>7

(* What an acknowledgement in the air marks has come. *)
LEMMA ArrivedIsGot ==
  ASSUME NEW N \in Nat, NEW next \in Nat, next <= N, NEW H \in SUBSET ((next + 1)..(N - 1)),
         NEW a \in 0..next, N - a <= Lifetime, NEW mask, mask \subseteq Masked(a, next, H),
         NEW k \in Nat, k < N, N - k <= Lifetime, Arrived(Nth(k), Nth(a), mask)
  PROVE  k \in Got(next, H)
<1>1. a \in Nat /\ a <= next /\ k - a < Half /\ a - k < Half /\ a + 1 - k <= Half
  BY Sizes
<1>2. CASE SeqLt(Nth(k), Nth(a))
  <2>1. k < a BY <1>1, <1>2, NthBefore
  <2>2. k \in 0..(next - 1) BY <1>1, <2>1
  <2> QED BY <2>2 DEF Got
<1>3. CASE Ahead(Plus(Nth(a), 1), Nth(k)) \in mask
  <2> DEFINE d == Ahead(Plus(Nth(a), 1), Nth(k))
  <2>1. Plus(Nth(a), 1) = Nth(a + 1) BY <1>1, NthPlus
  <2>2. PICK j \in Got(next, H) : j > a /\ d = j - a - 1 BY <1>3 DEF Masked
  <2>3. j \in Nat /\ j < N BY <2>2 DEF Got
  <2>4. CASE k >= a + 1
    <3>1. a + 1 \in Nat /\ a + 1 <= k /\ k - (a + 1) < SeqSpace BY <1>1, <2>4, Sizes
    <3>2. d = k - (a + 1) BY <2>1, <3>1, NthAhead
    <3>3. j = k BY <1>1, <2>2, <2>3, <3>2
    <3> QED BY <2>2, <3>3
  <2>5. CASE k < a + 1
    <3>1. a + 1 \in Nat /\ k <= a + 1 /\ (a + 1) - k < SeqSpace /\ k # a + 1 BY <1>1, <2>5, Sizes
    <3>2. d = SeqSpace - ((a + 1) - k) BY <2>1, <3>1, NthAhead
    <3>3. d >= Half BY <1>1, <3>1, <3>2, Sizes
    <3>4. d < Half BY <1>1, <2>2, <2>3, Sizes
    <3>5. d \in Int /\ Half \in Nat BY <1>1, <3>2, Sizes
    <3> QED BY <3>3, <3>4, <3>5
  <2> QED BY <1>1, <2>4, <2>5
<1> QED BY <1>2, <1>3 DEF Arrived

(* Freeing the run at the base of the window. *)
LEMMA FreeRunSends ==
  ASSUME NEW s, NEW sent, NEW W, NEW lo, NEW next, NEW H, SentFacts(sent, W),
         Sends(s, sent, W, lo), Confirms(s, sent, lo, next, H),
         next \in Nat, next <= Len(sent), H \subseteq ((next + 1)..(Len(sent) - 1))
  PROVE  \E lo2 \in Nat : /\ lo <= lo2 /\ Sends(FreeRun(s), sent, W, lo2)
                          /\ Confirms(FreeRun(s), sent, lo2, next, H)
<1> DEFINE N == Len(sent)
           K == lo..(N - 1)
           A == {k \in K : s.unacked[Nth(k)].acked}
           n == Run(s.lo, Acked(s))
           t == FreeRun(s)
           K2 == (lo + n)..(N - 1)
<1>1. /\ N \in Nat /\ lo \in Nat /\ lo <= N /\ N - lo <= W /\ N - lo < SeqSpace /\ s.lo = Nth(lo)
      /\ lo <= next
  <2>1. N \in Nat BY DEF SentFacts
  <2>2. lo \in Nat /\ lo <= N /\ N - lo <= W /\ s.lo = Nth(lo) BY DEF Sends
  <2>3. W \in Nat /\ W < SeqSpace /\ SeqSpace \in Nat BY Sizes DEF SentFacts
  <2>4. lo <= next BY DEF Confirms
  <2> QED BY <2>1, <2>2, <2>3, <2>4
<1>2. Slots(s) = IdsOf(K) /\ s.unacked \in [IdsOf(K) -> Slot] BY DEF Sends, Slots
<1>3. Acked(s) = IdsOf(A) BY <1>2 DEF Acked, IdsOf
<1>4. n \in Nat /\ lo + n <= N /\ (lo..(lo + n - 1)) \subseteq A /\ lo + n \notin A
  <2>1. A \in SUBSET (lo..(N - 1)) OBVIOUS
  <2>2. n = Run(Nth(lo), IdsOf(A)) BY <1>1, <1>3
  <2> HIDE DEF N, A, n
  <2> QED BY <1>1, <2>1, <2>2, RunOf
<1>5. lo + n <= next
  <2> SUFFICES ASSUME lo + n > next PROVE FALSE BY <1>1, <1>4
  <2>1. next \in lo..(lo + n - 1) BY <1>1, <1>4
  <2>2. next \in A BY <1>4, <2>1
  <2>3. next \in Got(next, H) BY <2>2 DEF Confirms
  <2> QED BY <2>3 DEF Got
<1>6. IdsOf(K) \ IdsOf(lo..(lo + n - 1)) = IdsOf(K2)
  <2>1. (lo..(lo + n - 1)) \in SUBSET K /\ K \in SUBSET K BY <1>1, <1>4
  <2>2. K \ (lo..(lo + n - 1)) = K2 BY <1>1, <1>4
  <2>3. IdsOf(K) \ IdsOf(lo..(lo + n - 1)) = IdsOf(K \ (lo..(lo + n - 1)))
    <3> DEFINE G == lo..(lo + n - 1)
    <3>1. Among(G, lo, N) /\ Among(K, lo, N) BY <2>1 DEF Among
    <3> HIDE DEF N, n, K, G
    <3>2. lo \in Nat /\ N \in Nat /\ N - lo < SeqSpace BY <1>1
    <3>3. IdsOf(K) \ IdsOf(G) = IdsOf(K \ G) BY <3>1, <3>2, IdsMinus
    <3> QED BY <3>3 DEF G
  <2> QED BY <2>2, <2>3
<1> DEFINE u == [q \in IdsOf(K2) |-> s.unacked[q]]
<1>7. t = [s EXCEPT !.lo = Plus(s.lo, n), !.unacked = u]
  <2>1. {Plus(s.lo, k) : k \in 0..(n - 1)} = IdsOf(lo..(lo + n - 1))
    <3> HIDE DEF N, n
    <3> QED BY <1>1, <1>4, IdsRange
  <2>2. Slots(s) \ {Plus(s.lo, k) : k \in 0..(n - 1)} = IdsOf(K2) BY <1>2, <1>6, <2>1
  <2> QED BY <2>2 DEF FreeRun
<1>8. \A q \in IdsOf(K2) : q \in IdsOf(K) BY <1>6
<1>9. DOMAIN u = IdsOf(K2) /\ u \in [IdsOf(K2) -> Slot] /\ \A q \in IdsOf(K2) : u[q] = s.unacked[q]
  BY <1>2, <1>8
<1> HIDE DEF u, n
<1>10. /\ t.out = s.out /\ t.lo = Nth(lo + n) /\ t.gap = s.gap /\ t.nacks = s.nacks /\ t.unacked = u
       /\ t = [out |-> t.out, lo |-> t.lo, unacked |-> t.unacked, gap |-> t.gap, nacks |-> t.nacks]
  <2>1. Plus(s.lo, n) = Nth(lo + n) BY <1>1, <1>4, NthPlus
  <2>2. s = [out |-> s.out, lo |-> s.lo, unacked |-> s.unacked, gap |-> s.gap, nacks |-> s.nacks] BY DEF Sends
  <2>3. t = [out |-> s.out, lo |-> Nth(lo + n), unacked |-> u, gap |-> s.gap, nacks |-> s.nacks]
    BY <1>7, <2>1, <2>2
  <2> QED BY <2>3
<1> HIDE DEF t
<1>11. \A k \in K2 : k \in K /\ Nth(k) \in IdsOf(K2) BY <1>1, <1>4 DEF IdsOf
<1>12. Sends(t, sent, W, lo + n)
  <2>1. lo + n \in Nat /\ lo + n <= Len(sent) /\ Len(sent) - (lo + n) <= W
    <3>1. W \in Nat BY DEF SentFacts
    <3> QED BY <1>1, <1>4, <3>1
  <2>2. t = [out |-> Nth(Len(sent)), lo |-> Nth(lo + n), unacked |-> t.unacked, gap |-> t.gap, nacks |-> t.nacks]
        /\ t.gap \in SeqId \cup {NoSeq}
    BY <1>10 DEF Sends
  <2>3. \A k \in K2 : t.unacked[Nth(k)].body = sent[k + 1] BY <1>9, <1>10, <1>11 DEF Sends
  <2> QED BY <1>9, <1>10, <2>1, <2>2, <2>3 DEF Sends
<1>13. Confirms(t, sent, lo + n, next, H)
  BY <1>5, <1>9, <1>10, <1>11 DEF Confirms
<1> QED BY <1>1, <1>4, <1>12, <1>13 DEF t

LEMMA OnAckSends ==
  ASSUME NEW s, NEW sent, NEW W, NEW lo, NEW next, NEW H, SentFacts(sent, W),
         Sends(s, sent, W, lo), Confirms(s, sent, lo, next, H),
         next \in Nat, next <= Len(sent), H \subseteq ((next + 1)..(Len(sent) - 1)),
         NEW a \in 0..next, Len(sent) - a <= Lifetime, NEW mask, mask \subseteq Masked(a, next, H), NEW most
  PROVE  \E lo2 \in Nat : /\ lo <= lo2 /\ Sends(OnAck(s, Nth(a), mask, most), sent, W, lo2)
                          /\ Confirms(OnAck(s, Nth(a), mask, most), sent, lo2, next, H)
<1> DEFINE N == Len(sent)
           K == lo..(N - 1)
           u == [q \in Slots(s) |-> [s.unacked[q] EXCEPT !.acked = s.unacked[q].acked \/ Arrived(q, Nth(a), mask)]]
           m == [s EXCEPT !.unacked = u]
           f == FreeRun(m)
           t == NoteGap(f, Nth(a), mask, most)
<1>1. OnAck(s, Nth(a), mask, most) = t BY DEF OnAck
<1>2. s.unacked \in [IdsOf(K) -> Slot] /\ Slots(s) = IdsOf(K) BY DEF Sends, Slots
<1>3. \A q \in IdsOf(K) :
        /\ u[q] = [s.unacked[q] EXCEPT !.acked = s.unacked[q].acked \/ Arrived(q, Nth(a), mask)]
        /\ s.unacked[q] \in Slot
  BY <1>2
<1>4. DOMAIN u = IdsOf(K) /\ u = [q \in DOMAIN u |-> u[q]] BY <1>2
<1> HIDE DEF u
<1>5. \A q \in IdsOf(K) : /\ u[q] \in Slot /\ u[q].body = s.unacked[q].body
                          /\ u[q].acked => s.unacked[q].acked \/ Arrived(q, Nth(a), mask)
  <2> SUFFICES ASSUME NEW q \in IdsOf(K)
               PROVE  /\ u[q] \in Slot /\ u[q].body = s.unacked[q].body
                      /\ u[q].acked => s.unacked[q].acked \/ Arrived(q, Nth(a), mask)
    OBVIOUS
  <2> DEFINE b == s.unacked[q].acked \/ Arrived(q, Nth(a), mask)
  <2>1. b \in BOOLEAN OBVIOUS
  <2>2. s.unacked[q] \in Slot /\ u[q] = [s.unacked[q] EXCEPT !.acked = b] BY <1>3
  <2>3. b => s.unacked[q].acked \/ Arrived(q, Nth(a), mask) OBVIOUS
  <2> HIDE DEF b
  <2>4. u[q] \in Slot /\ u[q].body = s.unacked[q].body BY <2>1, <2>2 DEF Slot
  <2>5. u[q].acked = b BY <2>1, <2>2 DEF Slot
  <2> QED BY <2>3, <2>4, <2>5
<1>6. u \in [IdsOf(K) -> Slot] BY <1>4, <1>5
<1>7. /\ m.out = s.out /\ m.lo = s.lo /\ m.gap = s.gap /\ m.nacks = s.nacks /\ m.unacked = u
      /\ m = [out |-> m.out, lo |-> m.lo, unacked |-> m.unacked, gap |-> m.gap, nacks |-> m.nacks]
  <2>1. s = [out |-> s.out, lo |-> s.lo, unacked |-> s.unacked, gap |-> s.gap, nacks |-> s.nacks] BY DEF Sends
  <2>2. m = [out |-> s.out, lo |-> s.lo, unacked |-> u, gap |-> s.gap, nacks |-> s.nacks] BY <2>1
  <2> QED BY <2>2
<1> HIDE DEF m
<1>8. \A k \in K : Nth(k) \in IdsOf(K) BY DEF IdsOf
<1>9. Sends(m, sent, W, lo)
  <2>1. lo \in Nat /\ lo <= Len(sent) /\ Len(sent) - lo <= W BY DEF Sends
  <2>2. m = [out |-> Nth(Len(sent)), lo |-> Nth(lo), unacked |-> m.unacked, gap |-> m.gap, nacks |-> m.nacks]
        /\ m.gap \in SeqId \cup {NoSeq}
    BY <1>7 DEF Sends
  <2>3. \A k \in K : m.unacked[Nth(k)].body = sent[k + 1] BY <1>5, <1>7, <1>8 DEF Sends
  <2> QED BY <1>6, <1>7, <2>1, <2>2, <2>3 DEF Sends
<1>10. Confirms(m, sent, lo, next, H)
  <2>1. lo <= next BY DEF Confirms
  <2>2. ASSUME NEW k \in K, m.unacked[Nth(k)].acked PROVE k \in Got(next, H)
    <3>1. s.unacked[Nth(k)].acked \/ Arrived(Nth(k), Nth(a), mask) BY <1>5, <1>7, <1>8, <2>2
    <3>2. CASE s.unacked[Nth(k)].acked BY <3>2 DEF Confirms
    <3>3. CASE Arrived(Nth(k), Nth(a), mask)
      <4>1. N \in Nat /\ W \in Nat /\ W <= Lifetime BY DEF SentFacts
      <4>2. lo \in Nat /\ N - lo <= W BY DEF Sends
      <4>3. k \in Nat /\ k < N /\ N - k <= Lifetime BY <4>1, <4>2, Sizes
      <4>4. H \in SUBSET ((next + 1)..(N - 1)) OBVIOUS
      <4> HIDE DEF N
      <4>5. N - a <= Lifetime /\ next <= N BY DEF N
      <4> QED BY <3>3, <4>1, <4>3, <4>4, <4>5, ArrivedIsGot
    <3> QED BY <3>1, <3>2, <3>3
  <2> QED BY <2>1, <2>2 DEF Confirms
<1>11. PICK lo2 \in Nat : lo <= lo2 /\ Sends(f, sent, W, lo2) /\ Confirms(f, sent, lo2, next, H)
  BY <1>9, <1>10, FreeRunSends
<1> HIDE DEF f
<1>12. /\ t.out = f.out /\ t.lo = f.lo /\ t.unacked = f.unacked /\ t.gap \in SeqId \cup {NoSeq}
       /\ t = [out |-> t.out, lo |-> t.lo, unacked |-> t.unacked, gap |-> t.gap, nacks |-> t.nacks]
  <2> DEFINE g == IF Nth(a) = f.gap THEN IF f.nacks < most THEN f.nacks + 1 ELSE f.nacks ELSE 1
  <2>1. Nth(a) \in SeqId BY NthPlus
  <2>2. f = [out |-> f.out, lo |-> f.lo, unacked |-> f.unacked, gap |-> f.gap, nacks |-> f.nacks]
    BY <1>11 DEF Sends
  <2>3. t = [f EXCEPT !.gap = Nth(a), !.nacks = g] \/ t = [f EXCEPT !.gap = NoSeq, !.nacks = 0]
    BY DEF NoteGap
  <2> HIDE DEF g, t
  <2>4. \/ t = [out |-> f.out, lo |-> f.lo, unacked |-> f.unacked, gap |-> Nth(a), nacks |-> g]
        \/ t = [out |-> f.out, lo |-> f.lo, unacked |-> f.unacked, gap |-> NoSeq, nacks |-> 0]
    BY <2>2, <2>3
  <2> QED BY <2>1, <2>4
<1> HIDE DEF t
<1>13. Sends(t, sent, W, lo2)
  <2>1. lo2 <= Len(sent) /\ Len(sent) - lo2 <= W BY <1>11 DEF Sends
  <2>2. t = [out |-> Nth(Len(sent)), lo |-> Nth(lo2), unacked |-> t.unacked, gap |-> t.gap, nacks |-> t.nacks]
    BY <1>11, <1>12 DEF Sends
  <2>3. /\ t.unacked \in [IdsOf(lo2..(Len(sent) - 1)) -> Slot]
        /\ \A k \in lo2..(Len(sent) - 1) : t.unacked[Nth(k)].body = sent[k + 1]
    BY <1>11, <1>12 DEF Sends
  <2> QED BY <1>12, <2>1, <2>2, <2>3 DEF Sends
<1>14. Confirms(t, sent, lo2, next, H) BY <1>11, <1>12 DEF Confirms
<1> QED BY <1>1, <1>11, <1>13, <1>14

(* NoteReceived counts the frame, and OnData hands out what it makes whole. *)
GetsMore(t, out, sent, k, next, H, next2, H2) ==
  /\ next2 \in Nat /\ H2 \subseteq Nat
  /\ next <= next2 /\ Got(next2, H2) = Got(next, H) \cup {k}
  /\ Receives(t, sent, next2, H2)
  /\ out = SubSeq(sent, next + 1, next2)

LEMMA NoteReceivedGets ==
  ASSUME NEW r, NEW sent, NEW W, NEW next, NEW H, SentFacts(sent, W),
         Receives(r, sent, next, H), Len(sent) - next <= W,
         NEW k \in 0..(Len(sent) - 1), Len(sent) - k <= Lifetime
  PROVE  \E next2, H2 :
           GetsMore(NoteReceived(r, Nth(k), sent[k + 1]), OnData(r, Nth(k), sent[k + 1]),
                    sent, k, next, H, next2, H2)
<1> DEFINE N == Len(sent)
           body == sent[k + 1]
           t == NoteReceived(r, Nth(k), body)
           d == OnData(r, Nth(k), body)
<1>1. /\ N \in Nat /\ next \in Nat /\ next <= N /\ k \in Nat /\ k < N /\ k - next < Half /\ next - k < Half
      /\ H \in SUBSET ((next + 1)..(N - 1)) /\ Half \in Nat /\ SeqSpace = 2 * Half /\ N - next < SeqSpace
      /\ body \in Bodies
  <2>1. N \in Nat /\ sent \in Seq(Bodies) /\ W \in Nat /\ W < Half /\ Half \in Nat /\ SeqSpace = 2 * Half
    BY Sizes DEF SentFacts
  <2>2. next \in Nat /\ next <= N /\ H \in SUBSET ((next + 1)..(N - 1)) BY DEF Receives
  <2>3. Lifetime \in Nat /\ Lifetime < Half /\ N - k <= Lifetime /\ N - next <= W BY Sizes
  <2>4. k \in Nat /\ k < N /\ k + 1 \in 1..N BY <2>1
  <2>5. body \in Bodies BY <2>1, <2>4
  <2> HIDE DEF N
  <2> QED BY <2>1, <2>2, <2>3, <2>4, <2>5
<1>2. /\ r = [next |-> Nth(next), held |-> r.held] /\ r.next = Nth(next) /\ r.held \in [IdsOf(H) -> Bodies]
      /\ DOMAIN r.held = IdsOf(H) /\ \A j \in H : r.held[Nth(j)] = sent[j + 1] /\ Nth(j) \in IdsOf(H)
  BY DEF Receives, IdsOf
<1>3. Nth(k) = Nth(next) <=> k = next
  <2>1. k - next < SeqSpace /\ next - k < SeqSpace BY <1>1
  <2> QED BY <1>1, <2>1, NthInjective
<1>4. SeqLt(Nth(next), Nth(k)) <=> next < k
  BY <1>1, NthBefore
<1>5. \A x \in Nat : x <= N => SubSeq(sent, x + 1, x) = <<>>
  BY <1>1 DEF SentFacts
<1>6. CASE k = next
  <2> DEFINE n == Run(Plus(Nth(k), 1), DOMAIN r.held)
             G == (next + 1)..(next + n)
             next2 == next + n + 1
             H2 == H \ G
             c == [i \in 1..n |-> r.held[Plus(Nth(k), i)]]
             w == Without(r.held, {Plus(Nth(k), i) : i \in 1..n})
  <2>1. n \in Nat /\ next + 1 + n <= N /\ G \subseteq H /\ next + 1 + n \notin H
    <3> DEFINE a == next + 1
    <3>1. n = Run(Nth(a), IdsOf(H)) BY <1>1, <1>2, <1>6, NthPlus
    <3>2. a \in Nat /\ a <= N /\ N - a < SeqSpace /\ H \in SUBSET (a..(N - 1)) BY <1>1, <1>6
    <3> HIDE DEF n, N, a
    <3>3. n \in Nat /\ a + n <= N /\ (a..(a + n - 1)) \subseteq H /\ a + n \notin H
      BY <1>1, <3>1, <3>2, RunOf
    <3>4. G = a..(a + n - 1) /\ a + n = next + 1 + n BY <1>1, <3>3 DEF a
    <3> QED BY <3>3, <3>4
  <2>2. t = [next |-> Plus(Nth(k), n + 1), held |-> w]
    BY <1>2, <1>6 DEF NoteReceived
  <2>3. d = <<body>> \o c
    BY <1>2, <1>6 DEF OnData
  <2> HIDE DEF n, N, t, d
  <2>4. DOMAIN w = IdsOf(H2) /\ w \in [IdsOf(H2) -> Bodies] /\ \A q \in IdsOf(H2) : w[q] = r.held[q]
    <3>1. {Plus(Nth(k), i) : i \in 1..n} = IdsOf(G)
      BY <1>1, <1>6, <2>1, IdsRange
    <3>2. IdsOf(H) \ IdsOf(G) = IdsOf(H2)
      <4> DEFINE a == next + 1
      <4>1. a \in Nat /\ N \in Nat /\ N - a < SeqSpace BY <1>1, <1>6
      <4>2. Among(H, a, N) /\ Among(G, a, N) BY <1>1, <2>1 DEF Among
      <4> HIDE DEF G, a
      <4> QED BY <4>1, <4>2, IdsMinus
    <3>3. w = [q \in IdsOf(H2) |-> r.held[q]] BY <1>2, <3>1, <3>2 DEF Without
    <3>4. IdsOf(H2) \subseteq IdsOf(H) BY <3>2
    <3> HIDE DEF w
    <3> QED BY <1>2, <3>3, <3>4
  <2>5. Plus(Nth(k), n + 1) = Nth(next2)
    <3>1. n + 1 \in Nat /\ k + (n + 1) = next2 BY <1>1, <1>6, <2>1
    <3> QED BY <1>1, <3>1, NthPlus
  <2>6. Receives(t, sent, next2, H2)
    <3>1. next2 \in Nat /\ next2 <= Len(sent) BY <1>1, <2>1 DEF N
    <3>2. H2 \subseteq ((next2 + 1)..(Len(sent) - 1))
      <4>1. \A j \in H2 : j \in (next + 1)..(N - 1) /\ j # next + 1 + n /\ j \notin G BY <1>1, <2>1
      <4>2. \A j \in H2 : j \in (next2 + 1)..(N - 1) BY <1>1, <2>1, <4>1
      <4> QED BY <4>2 DEF N
    <3>3. t = [next |-> Nth(next2), held |-> w] BY <2>2, <2>5
    <3> HIDE DEF w
    <3>4. t = [next |-> Nth(next2), held |-> t.held] /\ t.held = w BY <3>3
    <3>5. \A j \in H2 : t.held[Nth(j)] = sent[j + 1]
      <4>1. \A j \in H2 : j \in H /\ Nth(j) \in IdsOf(H2) BY DEF IdsOf
      <4> QED BY <1>2, <2>4, <3>4, <4>1
    <3> HIDE DEF H2, next2
    <3> QED BY <2>4, <3>1, <3>2, <3>4, <3>5 DEF Receives
  <2>7. Got(next2, H2) = Got(next, H) \cup {k}
    <3>1. 0..(next2 - 1) = (0..(next - 1)) \cup {k} \cup G BY <1>1, <1>6, <2>1
    <3> QED BY <2>1, <3>1 DEF Got
  <2>8. d = SubSeq(sent, next + 1, next2)
    <3>1. \A i \in 1..n : c[i] = sent[next + i + 1] /\ c[i] \in Bodies
      <4> SUFFICES ASSUME NEW i \in 1..n PROVE c[i] = sent[next + i + 1] /\ c[i] \in Bodies OBVIOUS
      <4>1. next + i \in G BY <1>1, <2>1
      <4>2. Plus(Nth(k), i) = Nth(next + i) BY <1>1, <1>6, <2>1, NthPlus
      <4>3. r.held[Nth(next + i)] = sent[next + i + 1] /\ r.held[Nth(next + i)] \in Bodies BY <1>2, <2>1, <4>1
      <4> QED BY <4>2, <4>3
    <3>2. c \in Seq(Bodies) /\ Len(c) = n
      <4>1. c = [i \in 1..n |-> c[i]] OBVIOUS
      <4> HIDE DEF c
      <4>2. c \in [1..n -> Bodies] BY <3>1, <4>1
      <4> QED BY <2>1, <4>2
    <3> HIDE DEF c
    <3>3. <<body>> \in Seq(Bodies) /\ Len(<<body>>) = 1 /\ <<body>>[1] = body BY <1>1
    <3> HIDE DEF body
    <3>4. d \in Seq(Bodies) /\ Len(d) = n + 1 BY <2>3, <3>2, <3>3
    <3>5. d[1] = body /\ \A i \in 1..n : d[i + 1] = c[i]
      <4>1. <<body>> \o c \in Seq(Bodies) BY <3>2, <3>3
      <4>2. (<<body>> \o c)[1] = <<body>>[1] BY <3>2, <3>3, JoinIs
      <4>3. \A i \in 1..n : (<<body>> \o c)[1 + i] = c[i] BY <3>2, <3>3, JoinIs
      <4>4. \A i \in 1..n : 1 + i = i + 1 BY <2>1
      <4>5. \A i \in 1..n : d[i + 1] = c[i] BY <2>3, <4>3, <4>4
      <4>6. d[1] = body BY <2>3, <3>3, <4>2
      <4> QED BY <4>5, <4>6
    <3>6. /\ SubSeq(sent, next + 1, next2) \in Seq(Bodies) /\ Len(SubSeq(sent, next + 1, next2)) = n + 1
          /\ \A i \in 1..(n + 1) : SubSeq(sent, next + 1, next2)[i] = sent[next + i]
      <4>1. sent \in Seq(Bodies) BY DEF SentFacts
      <4>2. next + 1 \in 1..N /\ next2 \in (next + 1)..N BY <1>1, <2>1
      <4> QED BY <1>1, <2>1, <4>1, <4>2 DEF N
    <3>7. \A i \in 1..(n + 1) : d[i] = sent[next + i]
      <4> SUFFICES ASSUME NEW i \in 1..(n + 1) PROVE d[i] = sent[next + i] OBVIOUS
      <4>1. CASE i = 1
        <5>1. body = sent[next + 1] BY <1>6 DEF body
        <5> QED BY <3>5, <4>1, <5>1
      <4>2. CASE i # 1
        <5>1. i - 1 \in 1..n /\ i = (i - 1) + 1 /\ next + (i - 1) + 1 = next + i BY <1>1, <2>1, <4>2
        <5> QED BY <3>1, <3>5, <5>1
      <4> QED BY <4>1, <4>2
    <3>8. \A i \in 1..Len(d) : d[i] = SubSeq(sent, next + 1, next2)[i] BY <3>4, <3>6, <3>7
    <3> QED BY <3>4, <3>6, <3>8, SeqEqual
  <2>9. next2 \in Nat /\ next <= next2 /\ H2 \in SUBSET Nat BY <1>1, <2>1
  <2> HIDE DEF next2, H2, t, d
  <2>10. GetsMore(t, d, sent, k, next, H, next2, H2) BY <2>6, <2>7, <2>8, <2>9 DEF GetsMore
  <2> QED BY <2>10 DEF t, d
<1>7. CASE next < k
  <2> DEFINE H2 == H \cup {k}
             w == [p \in DOMAIN r.held \cup {Nth(k)} |-> IF p = Nth(k) THEN body ELSE r.held[p]]
  <2>1. t = [r EXCEPT !.held = w]
    BY <1>1, <1>2, <1>3, <1>4, <1>7 DEF NoteReceived
  <2>2. IdsOf(H2) = IdsOf(H) \cup {Nth(k)} BY DEF IdsOf
  <2>3. DOMAIN w = IdsOf(H2) /\ w \in [IdsOf(H2) -> Bodies] /\ w[Nth(k)] = body
        /\ \A q \in IdsOf(H) : q # Nth(k) => w[q] = r.held[q]
    <3> HIDE DEF body
    <3> QED BY <1>1, <1>2, <2>2
  <2> HIDE DEF w
  <2>4. t = [next |-> Nth(next), held |-> w] BY <1>2, <2>1
  <2>5. t = [next |-> Nth(next), held |-> t.held] /\ t.held = w BY <2>4
  <2>6. \A j \in H2 : w[Nth(j)] = sent[j + 1]
    <3> SUFFICES ASSUME NEW j \in H2 PROVE w[Nth(j)] = sent[j + 1] OBVIOUS
    <3>1. CASE Nth(j) = Nth(k)
      <4>1. j \in Nat /\ j - k < SeqSpace /\ k - j < SeqSpace BY <1>1, <1>7
      <4>2. j = k BY <1>1, <3>1, <4>1, NthInjective
      <4> QED BY <2>3, <4>2
    <3>2. CASE Nth(j) # Nth(k)
      <4>1. j \in H BY <3>2
      <4> QED BY <1>2, <2>3, <3>2, <4>1
    <3> QED BY <3>1, <3>2
  <2>7. Receives(t, sent, next, H2)
    <3>1. H2 \subseteq ((next + 1)..(Len(sent) - 1)) BY <1>1, <1>7
    <3>2. next \in Nat /\ next <= Len(sent) BY <1>1
    <3> HIDE DEF H2, t
    <3> QED BY <2>3, <2>5, <2>6, <3>1, <3>2 DEF Receives
  <2>8. Got(next, H2) = Got(next, H) \cup {k} BY DEF Got
  <2>9. d = SubSeq(sent, next + 1, next)
    BY <1>1, <1>2, <1>3, <1>5, <1>7 DEF OnData
  <2>10. H2 \in SUBSET Nat /\ next <= next BY <1>1
  <2> HIDE DEF H2, t, d
  <2>11. GetsMore(t, d, sent, k, next, H, next, H2) BY <1>1, <2>7, <2>8, <2>9, <2>10 DEF GetsMore
  <2> QED BY <2>11 DEF t, d
<1>8. CASE k < next
  <2>1. t = r BY <1>1, <1>2, <1>3, <1>4, <1>8 DEF NoteReceived
  <2>2. d = SubSeq(sent, next + 1, next)
    BY <1>1, <1>2, <1>3, <1>5, <1>8 DEF OnData
  <2>3. k \in 0..(next - 1) BY <1>1, <1>8
  <2>4. Got(next, H) = Got(next, H) \cup {k} BY <2>3 DEF Got
  <2>5. H \in SUBSET Nat /\ next <= next BY <1>1
  <2>6. Receives(t, sent, next, H) BY <2>1
  <2> HIDE DEF t, d
  <2>7. GetsMore(t, d, sent, k, next, H, next, H) BY <1>1, <2>2, <2>4, <2>5, <2>6 DEF GetsMore
  <2> QED BY <2>7 DEF t, d
<1>9. k = next \/ next < k \/ k < next BY <1>1
<1> QED BY <1>6, <1>7, <1>8, <1>9

(* An acknowledgement says what has come, and no more. *)
LEMMA AckSays ==
  ASSUME NEW r, NEW sent, NEW W, NEW next, NEW H, NEW to, SentFacts(sent, W),
         Receives(r, sent, next, H), Len(sent) - next <= W
  PROVE  /\ AckAt(Ack(to, r), sent, next, H)
         /\ Ack(to, r).to = to /\ Ack(to, r).kind = "ack"
<1> DEFINE N == Len(sent)
<1>1. N \in Nat /\ next \in Nat /\ next <= N /\ N - next <= Lifetime /\ N - next < SeqSpace
      /\ H \subseteq ((next + 1)..(N - 1))
  <2>1. N \in Nat /\ W \in Nat /\ W <= Lifetime /\ Lifetime < SeqSpace /\ Lifetime \in Nat /\ SeqSpace \in Nat
    BY Sizes DEF SentFacts
  <2>2. next \in Nat /\ next <= N /\ H \subseteq ((next + 1)..(N - 1)) /\ N - next <= W BY DEF Receives
  <2> HIDE DEF N
  <2> QED BY <2>1, <2>2
<1>2. r.next = Nth(next) /\ DOMAIN r.held = IdsOf(H) BY DEF Receives
<1>3. {Ahead(Plus(r.next, 1), q) : q \in DOMAIN r.held} \subseteq Masked(next, next, H)
  <2> SUFFICES ASSUME NEW k \in H PROVE Ahead(Plus(r.next, 1), Nth(k)) \in Masked(next, next, H)
    BY <1>2 DEF IdsOf
  <2>0. k \in (next + 1)..(N - 1) /\ SeqSpace \in Nat BY <1>1, Sizes
  <2>1. k \in Nat /\ next + 1 <= k /\ k - (next + 1) < SeqSpace /\ next + 1 \in Nat
    <3> HIDE DEF N
    <3> QED BY <1>1, <2>0
  <2>2. Plus(r.next, 1) = Nth(next + 1) BY <1>1, <1>2, NthPlus
  <2>3. Ahead(Nth(next + 1), Nth(k)) = k - (next + 1) BY <2>1, NthAhead
  <2>4. k - (next + 1) = k - next - 1 /\ k > next BY <1>1, <2>1
  <2>5. k \in Got(next, H) BY DEF Got
  <2> QED BY <2>2, <2>3, <2>4, <2>5 DEF Masked
<1>4. Ack(to, r).mask \subseteq Masked(next, next, H) /\ Ack(to, r).seq = Nth(next)
  BY <1>2, <1>3 DEF Ack, AckPayload
<1>5. AckAt(Ack(to, r), sent, next, H)
  <2>1. next \in 0..next BY <1>1
  <2> QED BY <1>1, <1>4, <2>1 DEF AckAt
<1> QED BY <1>5 DEF Ack

-----------------------------------------------------------------------------
(* The duplicate filter of the live receiver.  Frames come out of order,   *)
(* but none comes a window or more after a later one, since the Switch     *)
(* does not send on before the earlier one was handed on.  So the filter   *)
(* still remembers every frame that can come again, and it remembers none  *)
(* that is old enough for its id to be in use again.                       *)
Number(fwd, i) == fwd[i][1] - 1
Handed(fwd) == {Number(fwd, i) : i \in 1..Len(fwd)}

NearlyOrdered(fwd) ==
  \A i, j \in 1..Len(fwd) : /\ i < j => Number(fwd, i) - SwitchWindow < Number(fwd, j)
                            /\ Number(fwd, i) = Number(fwd, j) => i = j

HandedOn(fwd, N) ==
  /\ fwd \in Seq(Bodies)
  /\ \A i \in 1..Len(fwd) : Number(fwd, i) \in 0..(N - 1) /\ fwd[i] = <<Number(fwd, i) + 1, 0>>
  /\ NearlyOrdered(fwd)

SeenIs(f, fwd) ==
  /\ f.seen \in Seq(SeqId)
  /\ Len(f.seen) = IF Len(fwd) <= DedupLimit THEN Len(fwd) ELSE DedupLimit
  /\ \A j \in 1..Len(f.seen) : f.seen[j] = Nth(Number(fwd, Len(fwd) - Len(f.seen) + j))

LastIs(f, fwd) ==
  \/ fwd = <<>> /\ f.last = NoSeq
  \/ \E M \in Handed(fwd) : f.last = Nth(M) /\ \A k \in Handed(fwd) : k <= M

Filters(f, fwd, N) == HandedOn(fwd, N) /\ SeenIs(f, fwd) /\ LastIs(f, fwd)

(* A frame that was handed on and is still in the air is remembered. *)
LEMMA HandedIsSeen ==
  ASSUME NEW f, NEW fwd, NEW N \in Nat, Filters(f, fwd, N),
         NEW k \in Handed(fwd), N - k <= Lifetime
  PROVE  Nth(k) \in ToSet(f.seen)
<1> DEFINE D == DedupLimit
           L == Len(fwd)
<1>1. /\ L \in Nat /\ D \in Nat /\ D > 0 /\ SwitchWindow \in Nat /\ SwitchWindow > 0 /\ Lifetime \in Nat
      /\ Lifetime + SwitchWindow <= D + 1
  BY Sizes DEF Filters, HandedOn
<1>2. PICK i \in 1..L : Number(fwd, i) = k BY DEF Handed
<1>3. k \in 0..(N - 1) BY <1>2 DEF Filters, HandedOn
<1>4. CASE L - D >= i
  <2> DEFINE J == i..(i + D)
             Y == (k - SwitchWindow + 1)..(N - 1)
             g == [j \in J |-> Number(fwd, j)]
  <2>1. J \subseteq 1..L BY <1>1, <1>4
  <2>2. \A j \in J : g[j] \in Y
    <3> SUFFICES ASSUME NEW j \in J PROVE Number(fwd, j) \in Y OBVIOUS
    <3>1. j \in 1..L /\ Number(fwd, j) \in 0..(N - 1) BY <2>1 DEF Filters, HandedOn
    <3>2. i < j => k - SwitchWindow < Number(fwd, j)
      BY <1>2, <3>1 DEF Filters, HandedOn, NearlyOrdered
    <3>3. i = j => Number(fwd, j) = k BY <1>2
    <3>4. i < j \/ i = j BY <1>1
    <3> HIDE DEF J
    <3> QED BY <1>1, <1>3, <3>1, <3>2, <3>3, <3>4
  <2>3. \A a, b \in J : g[a] = g[b] => a = b
    BY <2>1 DEF Filters, HandedOn, NearlyOrdered
  <2>4. IsFiniteSet(Y) /\ Cardinality(Y) = IF k - SwitchWindow + 1 > N - 1 THEN 0 ELSE (N - 1) - (k - SwitchWindow + 1) + 1
    <3>1. k - SwitchWindow + 1 \in Int /\ N - 1 \in Int BY <1>1, <1>3
    <3> QED BY <3>1, FS_Interval
  <2>5. Cardinality(J) = D + 1
    <3>1. i \in Int /\ i + D \in Int BY <1>1
    <3>2. Cardinality(J) = IF i > i + D THEN 0 ELSE (i + D) - i + 1 BY <3>1, FS_Interval
    <3> QED BY <1>1, <3>2
  <2>6. g \in Injection(J, Y)
    <3>1. g \in [J -> Y] BY <2>2
    <3> HIDE DEF g
    <3> QED BY <2>3, <3>1 DEF Injection, IsInjective
  <2>7. Cardinality(J) <= Cardinality(Y)
    <3> HIDE DEF g, J, Y
    <3> QED BY <2>4, <2>6, FS_Injection
  <2>8. Cardinality(Y) <= D
    <3> HIDE DEF Y
    <3> QED BY <1>1, <1>3, <2>4
  <2> HIDE DEF J, Y, g
  <2>9. Cardinality(Y) \in Nat BY <2>4, FS_CardinalityType
  <2> QED BY <1>1, <2>5, <2>7, <2>8, <2>9
<1>5. CASE L - D < i
  <2>1. Len(f.seen) = IF L <= D THEN L ELSE D BY DEF Filters, SeenIs
  <2>2. i - L + Len(f.seen) \in 1..Len(f.seen) /\ L - Len(f.seen) + (i - L + Len(f.seen)) = i
    <3> DEFINE S == Len(f.seen)
    <3>1. S = IF L <= D THEN L ELSE D BY <2>1
    <3> HIDE DEF S, L, D
    <3>2. i \in 1..L BY <1>2
    <3>3. i - L + S \in 1..S /\ L - S + (i - L + S) = i BY <1>1, <1>5, <3>1, <3>2
    <3> QED BY <3>3 DEF S
  <2>3. f.seen[i - L + Len(f.seen)] = Nth(k)
    BY <1>2, <2>2 DEF Filters, SeenIs
  <2>4. DOMAIN f.seen = 1..Len(f.seen) BY DEF Filters, SeenIs
  <2> QED BY <2>2, <2>3, <2>4 DEF ToSet
<1> QED BY <1>1, <1>4, <1>5

(* A frame in the air whose id is remembered was handed on. *)
LEMMA SeenIsHanded ==
  ASSUME NEW f, NEW fwd, NEW N \in Nat, Filters(f, fwd, N),
         NEW next \in Nat, next <= N, N - next <= SwitchWindow, (0..(next - 1)) \subseteq Handed(fwd),
         NEW k \in 0..(N - 1), N - k <= Lifetime, Nth(k) \in ToSet(f.seen)
  PROVE  k \in Handed(fwd)
<1> DEFINE D == DedupLimit
           L == Len(fwd)
           S == Len(f.seen)
<1>1. /\ L \in Nat /\ D \in Nat /\ D > 0 /\ SwitchWindow \in Nat /\ SwitchWindow > 0 /\ Lifetime \in Nat
      /\ Lifetime + SwitchWindow <= D + 1 /\ SwitchWindow <= Lifetime
      /\ Half \in Nat /\ SeqSpace = 2 * Half /\ D < Half
  BY Sizes DEF Filters, HandedOn
<1>2. f.seen \in Seq(SeqId) /\ S = IF L <= D THEN L ELSE D BY DEF Filters, SeenIs
<1>3. PICK j \in 1..S : f.seen[j] = Nth(k)
  BY <1>2 DEF ToSet
<1> DEFINE i == L - S + j
           m == Number(fwd, i)
<1>4. i \in 1..L /\ L - i <= D - 1 BY <1>1, <1>2
<1>5. Nth(k) = Nth(m) BY <1>3 DEF Filters, SeenIs
<1>6. m \in 0..(N - 1) /\ m \in Handed(fwd) BY <1>4 DEF Filters, HandedOn, Handed
<1> HIDE DEF i, m
<1>7. k - m < SeqSpace
  <2> DEFINE X == (m + SwitchWindow)..(next - 1)
             Y == (i + 1)..L
             g == [x \in X |-> CHOOSE p \in 1..L : Number(fwd, p) = x]
  <2>1. \A x \in X : g[x] \in 1..L /\ Number(fwd, g[x]) = x
    <3> SUFFICES ASSUME NEW x \in X PROVE g[x] \in 1..L /\ Number(fwd, g[x]) = x OBVIOUS
    <3>1. x \in 0..(next - 1) BY <1>1, <1>6
    <3>2. \E p \in 1..L : Number(fwd, p) = x BY <3>1 DEF Handed
    <3> QED BY <3>2
  <2>2. \A x \in X : g[x] \in Y
    <3> SUFFICES ASSUME NEW x \in X PROVE g[x] \in Y OBVIOUS
    <3> DEFINE p == g[x]
    <3>1. p \in 1..L /\ Number(fwd, p) = x BY <2>1
    <3> HIDE DEF p
    <3>2. p # i
      <4>1. x >= m + SwitchWindow /\ x \in Int BY <1>1, <1>6
      <4> QED BY <1>1, <1>6, <3>1, <4>1 DEF m
    <3>3. ~(p < i)
      <4> SUFFICES ASSUME p < i PROVE FALSE OBVIOUS
      <4>1. x - SwitchWindow < m
        BY <1>4, <3>1 DEF Filters, HandedOn, NearlyOrdered, m
      <4>2. x >= m + SwitchWindow /\ x \in Int BY <1>1, <1>6
      <4> QED BY <1>1, <1>6, <4>1, <4>2
    <3>4. p \in Y BY <1>4, <3>1, <3>2, <3>3
    <3> QED BY <3>4 DEF p
  <2>3. \A x, y \in X : g[x] = g[y] => x = y BY <2>1
  <2>4. g \in Injection(X, Y)
    <3>1. g \in [X -> Y] BY <2>2
    <3> HIDE DEF g
    <3> QED BY <2>3, <3>1 DEF Injection, IsInjective
  <2>5. IsFiniteSet(Y) /\ Cardinality(Y) <= D - 1
    <3>1. i + 1 \in Int /\ L \in Int BY <1>1, <1>4
    <3>2. IsFiniteSet(Y) /\ Cardinality(Y) = IF i + 1 > L THEN 0 ELSE L - (i + 1) + 1 BY <3>1, FS_Interval
    <3> QED BY <1>1, <1>4, <3>2
  <2>6. Cardinality(X) <= Cardinality(Y) /\ Cardinality(Y) \in Nat
    <3> HIDE DEF g, X, Y
    <3> QED BY <2>4, <2>5, FS_Injection, FS_CardinalityType
  <2>7. Cardinality(X) = IF m + SwitchWindow > next - 1 THEN 0 ELSE (next - 1) - (m + SwitchWindow) + 1
    <3>1. m + SwitchWindow \in Int /\ next - 1 \in Int BY <1>1, <1>6
    <3> QED BY <3>1, FS_Interval
  <2>8. next <= m + SwitchWindow + D - 1
    <3> HIDE DEF X, Y
    <3> QED BY <1>1, <1>6, <2>5, <2>6, <2>7
  <2> QED BY <1>1, <1>6, <2>8
<1>8. m - k < SeqSpace BY <1>1, <1>6
<1>9. k = m
  <2>1. k \in Nat /\ m \in Nat BY <1>6
  <2> QED BY <1>5, <1>7, <1>8, <2>1, NthInjective
<1> QED BY <1>6, <1>9

(* No frame in the air is so old that the filter gives up on it. *)
LastAt(f, fwd, M, k) ==
  /\ M \in Nat /\ f.last = Nth(M) /\ f.last # NoSeq /\ \A j \in Handed(fwd) : j <= M
  /\ (Ahead(f.last, Nth(k)) < Half) <=> M <= k

LEMMA NotStale ==
  ASSUME NEW f, NEW fwd, NEW N \in Nat, Filters(f, fwd, N),
         NEW next \in Nat, next <= N, N - next <= SwitchWindow, (0..(next - 1)) \subseteq Handed(fwd),
         NEW k \in 0..(N - 1), N - k <= Lifetime
  PROVE  /\ ~Stale(f, Nth(k))
         /\ fwd = <<>> => f.last = NoSeq
         /\ fwd # <<>> => \E M \in Handed(fwd) : LastAt(f, fwd, M, k)
<1>1. /\ SwitchWindow \in Nat /\ SwitchWindow > 0 /\ Lifetime \in Nat /\ SwitchWindow <= Lifetime
      /\ Lifetime <= DedupLimit /\ DedupLimit \in Nat
      /\ Half \in Nat /\ SeqSpace = 2 * Half /\ DedupLimit < Half /\ fwd \in Seq(Bodies)
  BY Sizes DEF Filters, HandedOn
<1>2. CASE fwd = <<>>
  <2>1. Handed(fwd) = {} BY <1>2 DEF Handed
  <2>2. f.last = NoSeq BY <2>1 DEF Filters, LastIs
  <2> QED BY <1>2, <2>2 DEF Stale
<1>3. CASE fwd # <<>>
  <2>1. PICK M \in Handed(fwd) : f.last = Nth(M) /\ \A j \in Handed(fwd) : j <= M
    BY <1>3 DEF Filters, LastIs
  <2>2. M \in 0..(N - 1) BY <2>1 DEF Handed, Filters, HandedOn
  <2>3. f.last # NoSeq
    <3>1. M \in Nat /\ 0 \in Nat BY <2>2
    <3>2. f.last \in SeqId BY <2>1, <3>1, NthPlus
    <3>3. SeqSpace \in Nat BY <1>1
    <3> QED BY <3>2, <3>3 DEF SeqId, NoSeq
  <2>4. next >= 1 => M >= next - 1
    <3>1. next >= 1 => next - 1 \in Handed(fwd) OBVIOUS
    <3> QED BY <2>1, <3>1
  <2>5. k - M < Half /\ M - k < DedupLimit
    BY <1>1, <2>2, <2>4
  <2>6. CASE M <= k
    <3>1. Ahead(f.last, Nth(k)) = k - M BY <1>1, <2>1, <2>2, <2>5, <2>6, NthAhead
    <3>2. Ahead(f.last, Nth(k)) < Half BY <2>5, <3>1
    <3>3. ~Stale(f, Nth(k)) BY <1>1, <2>2, <3>1, <3>2 DEF Stale, Half
    <3>4. M \in Nat BY <2>2
    <3>5. LastAt(f, fwd, M, k) BY <2>1, <2>3, <2>6, <3>2, <3>4 DEF LastAt
    <3> QED BY <1>3, <2>1, <3>3, <3>5
  <2>7. CASE k < M
    <3>1. k <= M /\ M - k < SeqSpace /\ k \in Nat /\ M \in Nat /\ k # M BY <1>1, <2>2, <2>5, <2>7
    <3>2. Ahead(f.last, Nth(k)) = SeqSpace - (M - k) /\ Ahead(Nth(k), f.last) = M - k BY <2>1, <3>1, NthAhead
    <3>3. ~(Ahead(f.last, Nth(k)) < Half) BY <1>1, <2>5, <3>1, <3>2
    <3>4. ~Stale(f, Nth(k)) BY <1>1, <2>5, <3>1, <3>2 DEF Stale
    <3>5. ~(M <= k) BY <2>7, <3>1
    <3>6. LastAt(f, fwd, M, k) BY <2>1, <2>3, <3>1, <3>3, <3>5 DEF LastAt
    <3> QED BY <1>3, <2>1, <3>4, <3>6
  <2> QED BY <2>2, <2>6, <2>7
<1> QED BY <1>2, <1>3

(* A frame that is handed on is noted. *)
LEMMA NotesFresh ==
  ASSUME NEW f, NEW fwd, NEW N \in Nat, Filters(f, fwd, N),
         NEW next \in Nat, next <= N, N - next <= SwitchWindow, (0..(next - 1)) \subseteq Handed(fwd),
         NEW k \in 0..(N - 1), N - k <= Lifetime, k \notin Handed(fwd)
  PROVE  /\ Filters(NoteInSeq(f, Nth(k)), Append(fwd, <<k + 1, 0>>), N)
         /\ Handed(Append(fwd, <<k + 1, 0>>)) = Handed(fwd) \cup {k}
<1> DEFINE D == DedupLimit
           L == Len(fwd)
           fwd2 == Append(fwd, <<k + 1, 0>>)
           t == NoteInSeq(f, Nth(k))
           S == Len(f.seen)
<1>1. /\ L \in Nat /\ D \in Nat /\ D > 0 /\ SwitchWindow \in Nat /\ SwitchWindow > 0
      /\ fwd \in Seq(Bodies) /\ f.seen \in Seq(SeqId) /\ S \in Nat
      /\ S = IF L <= D THEN L ELSE D
  <2>1. fwd \in Seq(Bodies) BY DEF Filters, HandedOn
  <2>2. f.seen \in Seq(SeqId) /\ S = IF L <= D THEN L ELSE D BY DEF Filters, SeenIs
  <2> QED BY <2>1, <2>2, Sizes
<1>2. /\ fwd2 \in Seq(Bodies) /\ Len(fwd2) = L + 1 /\ fwd2[L + 1] = <<k + 1, 0>> /\ fwd2 # <<>>
      /\ \A i \in 1..L : fwd2[i] = fwd[i]
  <2>1. <<k + 1, 0>> \in Bodies BY DEF Bodies
  <2> QED BY <1>1, <2>1
<1> HIDE DEF fwd2
<1>3. Number(fwd2, L + 1) = k /\ \A i \in 1..L : Number(fwd2, i) = Number(fwd, i)
  BY <1>1, <1>2 DEF Number
<1>4. \A i \in 1..(L + 1) : i \in 1..L \/ i = L + 1 BY <1>1
<1>5. Handed(fwd2) = Handed(fwd) \cup {k}
  <2>1. \A i \in 1..L : i \in 1..(L + 1) /\ L + 1 \in 1..(L + 1) BY <1>1
  <2>2. L + 1 \in 1..(L + 1) BY <1>1
  <2> QED BY <1>2, <1>3, <1>4, <2>1, <2>2 DEF Handed
<1>6. k >= next /\ k >= N - SwitchWindow
  <2>1. k >= next OBVIOUS
  <2> QED BY <1>1, <2>1
<1>7. \A i \in 1..L : Number(fwd, i) \in 0..(N - 1) /\ Number(fwd, i) # k /\ Number(fwd, i) - SwitchWindow < k
  <2> SUFFICES ASSUME NEW i \in 1..L
               PROVE  Number(fwd, i) \in 0..(N - 1) /\ Number(fwd, i) # k /\ Number(fwd, i) - SwitchWindow < k
    OBVIOUS
  <2>1. Number(fwd, i) \in 0..(N - 1) BY DEF Filters, HandedOn
  <2>2. Number(fwd, i) \in Handed(fwd) BY DEF Handed
  <2> QED BY <1>1, <1>6, <2>1, <2>2
<1>8. HandedOn(fwd2, N)
  <2>1. \A i \in 1..(L + 1) : Number(fwd2, i) \in 0..(N - 1) /\ fwd2[i] = <<Number(fwd2, i) + 1, 0>>
    <3>1. \A i \in 1..L : Number(fwd, i) \in 0..(N - 1) /\ fwd[i] = <<Number(fwd, i) + 1, 0>>
      BY DEF Filters, HandedOn
    <3> QED BY <1>2, <1>3, <1>4, <3>1
  <2>2. NearlyOrdered(fwd2)
    <3>1. NearlyOrdered(fwd) BY DEF Filters, HandedOn
    <3>2. \A i \in 1..L : ~(L + 1 < i) /\ ~(L + 1 < L + 1) BY <1>1
    <3>3. \A i, j \in 1..(L + 1) : /\ i < j => Number(fwd2, i) - SwitchWindow < Number(fwd2, j)
                                   /\ Number(fwd2, i) = Number(fwd2, j) => i = j
      <4> SUFFICES ASSUME NEW i \in 1..(L + 1), NEW j \in 1..(L + 1)
                   PROVE /\ i < j => Number(fwd2, i) - SwitchWindow < Number(fwd2, j)
                         /\ Number(fwd2, i) = Number(fwd2, j) => i = j
        OBVIOUS
      <4>1. CASE i \in 1..L /\ j \in 1..L BY <1>3, <3>1, <4>1 DEF NearlyOrdered
      <4>2. CASE i \in 1..L /\ j = L + 1 BY <1>3, <1>7, <4>2
      <4>3. CASE i = L + 1 /\ j \in 1..L BY <1>3, <1>7, <3>2, <4>3
      <4>4. CASE i = L + 1 /\ j = L + 1 BY <1>1, <4>4
      <4> QED BY <1>4, <4>1, <4>2, <4>3, <4>4
    <3> QED BY <1>2, <3>3 DEF NearlyOrdered
  <2> QED BY <1>2, <2>1, <2>2 DEF HandedOn
<1>9. t.seen = (IF S + 1 > D THEN Tail(Append(f.seen, Nth(k))) ELSE Append(f.seen, Nth(k)))
      /\ t.last = (IF f.last = NoSeq \/ Ahead(f.last, Nth(k)) < Half THEN Nth(k) ELSE f.last)
  <2>1. Len(Append(f.seen, Nth(k))) = S + 1 BY <1>1
  <2> QED BY <2>1 DEF NoteInSeq, Half
<1> HIDE DEF t
<1>10. SeenIs(t, fwd2)
  <2> DEFINE a == Append(f.seen, Nth(k))
  <2>1. /\ a \in Seq(SeqId) /\ Len(a) = S + 1 /\ a[S + 1] = Nth(k) /\ \A j \in 1..S : a[j] = f.seen[j]
    <3>1. Nth(k) \in SeqId BY NthPlus
    <3> QED BY <1>1, <3>1
  <2>2. \A j \in 1..(S + 1) : a[j] = Nth(Number(fwd2, L - S + j))
    <3> SUFFICES ASSUME NEW j \in 1..(S + 1) PROVE a[j] = Nth(Number(fwd2, L - S + j)) OBVIOUS
    <3>1. CASE j = S + 1
      <4>1. L - S + j = L + 1
        <5> HIDE DEF S, L, D
        <5> QED BY <1>1, <3>1
      <4> QED BY <1>3, <2>1, <3>1, <4>1
    <3>2. CASE j \in 1..S
      <4> DEFINE i == L - S + j
      <4>1. f.seen[j] = Nth(Number(fwd, i)) BY <3>2 DEF Filters, SeenIs
      <4>2. i \in 1..L
        <5> HIDE DEF S, L, D
        <5> QED BY <1>1, <3>2
      <4> HIDE DEF i
      <4>3. Number(fwd2, i) = Number(fwd, i) BY <1>3, <4>2
      <4> QED BY <2>1, <3>2, <4>1, <4>3 DEF i
    <3>3. j = S + 1 \/ j \in 1..S
      <4> HIDE DEF S
      <4> QED BY <1>1
    <3> QED BY <3>1, <3>2, <3>3
  <2> HIDE DEF a
  <2>3. CASE S + 1 > D
    <3>1. S = D /\ L >= D
      <4> HIDE DEF S, L, D
      <4> QED BY <1>1, <2>3
    <3>2. a # <<>> BY <1>1, <2>1
    <3>3. t.seen = Tail(a) BY <1>9, <2>3 DEF a
    <3>4. t.seen \in Seq(SeqId) /\ Len(t.seen) = S /\ \A j \in 1..S : t.seen[j] = a[j + 1]
      BY <1>1, <2>1, <3>2, <3>3
    <3>5. \A j \in 1..S : t.seen[j] = Nth(Number(fwd2, (L + 1) - S + j))
      <4> SUFFICES ASSUME NEW j \in 1..S PROVE t.seen[j] = Nth(Number(fwd2, (L + 1) - S + j)) OBVIOUS
      <4>1. j + 1 \in 1..(S + 1) /\ L - S + (j + 1) = (L + 1) - S + j
        <5> HIDE DEF S, L
        <5> QED BY <1>1
      <4> QED BY <2>2, <3>4, <4>1
    <3>6. S = IF L + 1 <= D THEN L + 1 ELSE D
      <4> HIDE DEF S, L, D
      <4> QED BY <1>1, <3>1
    <3> QED BY <1>2, <3>4, <3>5, <3>6 DEF SeenIs
  <2>4. CASE ~(S + 1 > D)
    <3>1. S = L /\ L + 1 <= D
      <4> HIDE DEF S, L, D
      <4> QED BY <1>1, <2>4
    <3>2. t.seen = a BY <1>9, <2>4 DEF a
    <3>3. \A j \in 1..(S + 1) : t.seen[j] = Nth(Number(fwd2, (L + 1) - (S + 1) + j))
      <4> SUFFICES ASSUME NEW j \in 1..(S + 1) PROVE t.seen[j] = Nth(Number(fwd2, (L + 1) - (S + 1) + j)) OBVIOUS
      <4>1. L - S + j = (L + 1) - (S + 1) + j
        <5> HIDE DEF S, L
        <5> QED BY <1>1
      <4> QED BY <2>2, <3>2, <4>1
    <3>4. S + 1 = IF L + 1 <= D THEN L + 1 ELSE D BY <3>1
    <3> QED BY <1>2, <2>1, <3>2, <3>3, <3>4 DEF SeenIs
  <2> QED BY <2>3, <2>4
<1>11. LastIs(t, fwd2)
  <2>1. CASE fwd = <<>>
    <3>1. f.last = NoSeq BY <2>1, NotStale
    <3>2. Handed(fwd) = {} BY <2>1 DEF Handed
    <3>3. t.last = Nth(k) BY <1>9, <3>1
    <3>4. \A j \in Handed(fwd2) : j <= k BY <1>5, <3>2
    <3> QED BY <1>5, <3>3, <3>4 DEF LastIs
  <2>2. CASE fwd # <<>>
    <3>0. PICK M \in Handed(fwd) : LastAt(f, fwd, M, k) BY <2>2, NotStale
    <3>1. /\ M \in Nat /\ f.last = Nth(M) /\ f.last # NoSeq /\ \A j \in Handed(fwd) : j <= M
          /\ (Ahead(f.last, Nth(k)) < Half) <=> M <= k
      BY <3>0 DEF LastAt
    <3>2. \A j \in Handed(fwd) : j \in Nat BY <1>7 DEF Handed
    <3>3. CASE M <= k
      <4>1. t.last = Nth(k) BY <1>9, <3>1, <3>3
      <4>2. \A j \in Handed(fwd2) : j <= k BY <1>5, <3>1, <3>2, <3>3
      <4> QED BY <1>5, <4>1, <4>2 DEF LastIs
    <3>4. CASE ~(M <= k)
      <4>1. t.last = Nth(M) BY <1>9, <3>1, <3>4
      <4>2. \A j \in Handed(fwd2) : j <= M BY <1>5, <3>1, <3>2, <3>4
      <4> QED BY <1>5, <3>1, <4>1, <4>2 DEF LastIs
    <3> QED BY <3>3, <3>4
  <2> QED BY <2>1, <2>2
<1> QED BY <1>5, <1>8, <1>10, <1>11 DEF Filters, t, fwd2

(* What Fresh says of a frame in the air. *)
LEMMA FreshIsNew ==
  ASSUME NEW f, NEW fwd, NEW N \in Nat, Filters(f, fwd, N),
         NEW next \in Nat, next <= N, N - next <= SwitchWindow, (0..(next - 1)) \subseteq Handed(fwd),
         NEW k \in 0..(N - 1), N - k <= Lifetime
  PROVE  Fresh(f, Nth(k)) <=> k \notin Handed(fwd)
<1>1. ~Stale(f, Nth(k)) BY NotStale
<1>2. Nth(k) \in ToSet(f.seen) => k \in Handed(fwd) BY SeenIsHanded
<1>3. k \in Handed(fwd) => Nth(k) \in ToSet(f.seen) BY HandedIsSeen
<1> QED BY <1>1, <1>2, <1>3 DEF Fresh

-----------------------------------------------------------------------------
(* A stream: its two halves and what is in the air between them.           *)
StreamAt(s, r, sent, W, to, packets, lo, next, H) ==
  /\ Sends(s, sent, W, lo) /\ Receives(r, sent, next, H) /\ Confirms(s, sent, lo, next, H)
  /\ OnAir(packets, to, sent, next, H)

LEMMA StreamSizes ==
  ASSUME NEW s, NEW r, NEW sent, NEW W, NEW to, NEW packets, NEW lo, NEW next, NEW H, SentFacts(sent, W),
         StreamAt(s, r, sent, W, to, packets, lo, next, H)
  PROVE  /\ Len(sent) \in Nat /\ W \in Nat /\ lo \in Nat /\ next \in Nat /\ lo <= next /\ next <= Len(sent)
         /\ Len(sent) - lo <= W /\ Len(sent) - next <= W /\ W <= Lifetime /\ Lifetime \in Nat
         /\ Lifetime < Half /\ Half \in Nat /\ SeqSpace = 2 * Half
         /\ H \subseteq ((next + 1)..(Len(sent) - 1))
         /\ Slots(s) = IdsOf(lo..(Len(sent) - 1)) /\ Inflight(s) = Len(sent) - lo
         /\ Ahead(s.lo, s.out) = Len(sent) - lo
<1>1. Len(sent) \in Nat /\ W \in Nat /\ W <= Lifetime BY DEF SentFacts
<1>2. lo \in Nat /\ lo <= Len(sent) /\ Len(sent) - lo <= W BY DEF StreamAt, Sends
<1>3. next \in Nat /\ next <= Len(sent) /\ H \subseteq ((next + 1)..(Len(sent) - 1)) BY DEF StreamAt, Receives
<1>4. lo <= next BY DEF StreamAt, Confirms
<1>5. Lifetime \in Nat /\ Lifetime < Half /\ Half \in Nat /\ SeqSpace = 2 * Half BY Sizes
<1>6. Len(sent) - next <= W BY <1>1, <1>2, <1>3, <1>4
<1>7. Sends(s, sent, W, lo) BY DEF StreamAt
<1>8. Slots(s) = IdsOf(lo..(Len(sent) - 1)) /\ Inflight(s) = Len(sent) - lo /\ Ahead(s.lo, s.out) = Len(sent) - lo
  BY <1>7, SendsCount
<1> QED BY <1>1, <1>2, <1>3, <1>4, <1>5, <1>6, <1>8

(* What is sent, lost, or belongs to the other stream leaves it as it was. *)
LEMMA StreamAir ==
  ASSUME NEW s, NEW r, NEW sent, NEW W, NEW to, NEW packets, NEW lo, NEW next, NEW H,
         StreamAt(s, r, sent, W, to, packets, lo, next, H), NEW packets2,
         \A p \in packets2 \ packets : /\ p.to = to /\ p.kind = "data" => FrameAt(p, sent)
                                       /\ p.to # to /\ p.kind # "data" => AckAt(p, sent, next, H)
  PROVE  StreamAt(s, r, sent, W, to, packets2, lo, next, H)
<1>1. OnAir(packets2, to, sent, next, H) BY DEF StreamAt, OnAir
<1> QED BY <1>1 DEF StreamAt

(* A frame that is held can be sent (again). *)
LEMMA StreamData ==
  ASSUME NEW s, NEW sent, NEW W, NEW lo, SentFacts(sent, W), Sends(s, sent, W, lo), NEW to, NEW q \in Slots(s)
  PROVE  /\ FrameAt(Data(to, q, s.unacked[q].body), sent)
         /\ Data(to, q, s.unacked[q].body).to = to /\ Data(to, q, s.unacked[q].body).kind = "data"
<1> DEFINE p == Data(to, q, s.unacked[q].body)
<1>1. p.to = to /\ p.kind = "data" /\ p.seq = q /\ p.body = s.unacked[q].body BY DEF Data
<1> HIDE DEF p
<1>2. PICK k \in lo..(Len(sent) - 1) : q = Nth(k)
  <2>1. Slots(s) = IdsOf(lo..(Len(sent) - 1)) BY SendsCount
  <2> QED BY <2>1 DEF IdsOf
<1>3. s.unacked[q].body = sent[k + 1] BY <1>2 DEF Sends
<1>4. k \in 0..(Len(sent) - 1) /\ Len(sent) - k <= Lifetime
  <2>1. Len(sent) \in Nat /\ W \in Nat /\ W <= Lifetime /\ Lifetime \in Nat BY Sizes DEF SentFacts
  <2>2. lo \in Nat /\ Len(sent) - lo <= W BY DEF Sends
  <2> QED BY <2>1, <2>2
<1>5. FrameAt(p, sent) BY <1>1, <1>2, <1>3, <1>4 DEF FrameAt
<1> QED BY <1>1, <1>5 DEF p

(* New frames join the stream, and what is too old leaves the air. *)
LEMMA StreamQueues ==
  ASSUME NEW s, NEW r, NEW sent, NEW W, NEW to, NEW packets, NEW lo, NEW next, NEW H, SentFacts(sent, W),
         StreamAt(s, r, sent, W, to, packets, lo, next, H),
         NEW frames \in Seq(Bodies), Len(frames) <= W - Inflight(s)
  PROVE  /\ SentFacts(sent \o frames, W)
         /\ StreamAt(Queue(s, frames), r, sent \o frames, W, to,
                     Alive(packets, to, Queue(s, frames).out), lo, next, H)
<1> DEFINE N == Len(sent)
           n == Len(frames)
           all == sent \o frames
           t == Queue(s, frames)
           left == Alive(packets, to, t.out)
<1>1. /\ N \in Nat /\ W \in Nat /\ lo \in Nat /\ next \in Nat /\ lo <= next /\ next <= N
      /\ N - lo <= W /\ W <= Lifetime /\ Lifetime \in Nat /\ Lifetime < Half /\ Half \in Nat
      /\ SeqSpace = 2 * Half /\ Inflight(s) = N - lo /\ H \subseteq ((next + 1)..(N - 1))
  BY StreamSizes
<1>2. /\ sent \in Seq(Bodies) /\ all \in Seq(Bodies) /\ Len(all) = N + n /\ n \in Nat
      /\ \A i \in 1..N : all[i] = sent[i]
  BY JoinIs DEF SentFacts
<1> HIDE DEF N, n, all
<1>3. n <= W - (N - lo) /\ N + n - lo <= W BY <1>1, <1>2 DEF n
<1>4. SentFacts(all, W) BY <1>2 DEF SentFacts
<1>5. Sends(t, all, W, lo) /\ Confirms(t, all, lo, next, H) /\ t.out = Nth(N + n)
  <2>1. Sends(s, sent, W, lo) /\ Confirms(s, sent, lo, next, H) BY DEF StreamAt
  <2>2. Len(sent) + Len(frames) - lo <= W BY <1>3 DEF N, n
  <2> QED BY <2>1, <2>2, QueueSends DEF all, N, n
<1> HIDE DEF t
<1>6. Receives(r, all, next, H)
  <2>1. /\ r = [next |-> Nth(next), held |-> r.held] /\ r.held \in [IdsOf(H) -> Bodies]
        /\ \A k \in H : r.held[Nth(k)] = sent[k + 1]
    BY DEF StreamAt, Receives
  <2>2. H \subseteq ((next + 1)..(Len(all) - 1)) /\ next <= Len(all) BY <1>1, <1>2
  <2>3. \A k \in H : k + 1 \in 1..N BY <1>1
  <2>4. \A k \in H : r.held[Nth(k)] = all[k + 1] BY <1>2, <2>1, <2>3
  <2> QED BY <1>1, <2>1, <2>2, <2>4 DEF Receives
<1>7. \A k \in Nat : N - k <= Lifetime /\ k <= N /\ Ahead(Nth(k), t.out) <= Lifetime => (N + n) - k <= Lifetime
  <2> SUFFICES ASSUME NEW k \in Nat, N - k <= Lifetime, k <= N, Ahead(Nth(k), t.out) <= Lifetime
               PROVE  (N + n) - k <= Lifetime
    OBVIOUS
  <2>1. N + n \in Nat /\ k <= N + n /\ (N + n) - k < SeqSpace BY <1>1, <1>2, <1>3
  <2>2. Ahead(Nth(k), Nth(N + n)) = (N + n) - k BY <2>1, NthAhead
  <2> QED BY <1>5, <2>2
<1>8. OnAir(left, to, all, next, H)
  <2> SUFFICES ASSUME NEW p \in left
               PROVE  /\ p.to = to /\ p.kind = "data" => FrameAt(p, all)
                      /\ p.to # to /\ p.kind # "data" => AckAt(p, all, next, H)
    BY DEF OnAir
  <2>1. p \in packets /\ (OfStream(p, to) => Ahead(p.seq, t.out) <= Lifetime) BY DEF Alive
  <2>2. ASSUME p.to = to, p.kind = "data" PROVE FrameAt(p, all)
    <3>1. FrameAt(p, sent) BY <2>1, <2>2 DEF StreamAt, OnAir
    <3>2. PICK k \in 0..(N - 1) : N - k <= Lifetime /\ p.seq = Nth(k) /\ p.body = sent[k + 1]
      BY <3>1 DEF FrameAt, N
    <3>3. Ahead(Nth(k), t.out) <= Lifetime BY <2>1, <2>2, <3>2 DEF OfStream
    <3>4. k \in Nat /\ k <= N /\ k + 1 \in 1..N /\ k \in 0..(Len(all) - 1) BY <1>1, <1>2
    <3>5. Len(all) - k <= Lifetime BY <1>2, <1>7, <3>2, <3>3, <3>4
    <3>6. p.body = all[k + 1] BY <1>2, <3>2, <3>4
    <3> QED BY <3>2, <3>4, <3>5, <3>6 DEF FrameAt
  <2>3. ASSUME p.to # to, p.kind # "data" PROVE AckAt(p, all, next, H)
    <3>1. AckAt(p, sent, next, H) BY <2>1, <2>3 DEF StreamAt, OnAir
    <3>2. PICK a \in 0..next : N - a <= Lifetime /\ p.seq = Nth(a) /\ p.mask \subseteq Masked(a, next, H)
      BY <3>1 DEF AckAt, N
    <3>3. Ahead(Nth(a), t.out) <= Lifetime BY <2>1, <2>3, <3>2 DEF OfStream
    <3>4. a \in Nat /\ a <= N BY <1>1
    <3>5. Len(all) - a <= Lifetime BY <1>2, <1>7, <3>2, <3>3, <3>4
    <3> QED BY <3>2, <3>5 DEF AckAt
  <2> QED BY <2>2, <2>3
<1> QED BY <1>4, <1>5, <1>6, <1>8 DEF StreamAt, all, t, left

LEMMA StreamResends ==
  ASSUME NEW s, NEW r, NEW sent, NEW W, NEW to, NEW packets, NEW lo, NEW next, NEW H, NEW qs, SentFacts(sent, W),
         StreamAt(s, r, sent, W, to, packets, lo, next, H)
  PROVE  StreamAt(Resent(s, qs), r, sent, W, to, packets, lo, next, H) /\ Slots(Resent(s, qs)) = Slots(s)
<1>1. Sends(s, sent, W, lo) /\ Confirms(s, sent, lo, next, H) BY DEF StreamAt
<1> QED BY <1>1, ResentSends DEF StreamAt

(* A frame arrives. *)
Arrives(s, r, sent, W, to, packets, p, lo, next, H, k, next2, H2) ==
  /\ k \in 0..(Len(sent) - 1) /\ Len(sent) - k <= Lifetime /\ p.seq = Nth(k) /\ p.body = sent[k + 1]
  /\ next2 \in Nat /\ next <= next2 /\ Got(next2, H2) = Got(next, H) \cup {k}
  /\ StreamAt(s, NoteReceived(r, p.seq, p.body), sent, W, to, packets, lo, next2, H2)
  /\ OnData(r, p.seq, p.body) = SubSeq(sent, next + 1, next2)

LEMMA StreamReceives ==
  ASSUME NEW s, NEW r, NEW sent, NEW W, NEW to, NEW packets, NEW lo, NEW next, NEW H, SentFacts(sent, W),
         StreamAt(s, r, sent, W, to, packets, lo, next, H),
         NEW p \in packets, p.to = to, p.kind = "data"
  PROVE  \E k, next2, H2 : Arrives(s, r, sent, W, to, packets, p, lo, next, H, k, next2, H2)
<1>1. /\ Len(sent) \in Nat /\ lo \in Nat /\ next \in Nat /\ lo <= next /\ Len(sent) - next <= W
  BY StreamSizes
<1>2. FrameAt(p, sent) BY DEF StreamAt, OnAir
<1>3. PICK k \in 0..(Len(sent) - 1) : Len(sent) - k <= Lifetime /\ p.seq = Nth(k) /\ p.body = sent[k + 1]
  BY <1>2 DEF FrameAt
<1>4. Receives(r, sent, next, H) BY DEF StreamAt
<1>5. PICK next2, H2 : GetsMore(NoteReceived(r, Nth(k), sent[k + 1]), OnData(r, Nth(k), sent[k + 1]),
                                sent, k, next, H, next2, H2)
  BY <1>1, <1>3, <1>4, NoteReceivedGets
<1>5a. /\ next2 \in Nat /\ next <= next2 /\ Got(next2, H2) = Got(next, H) \cup {k}
       /\ Receives(NoteReceived(r, p.seq, p.body), sent, next2, H2)
       /\ OnData(r, p.seq, p.body) = SubSeq(sent, next + 1, next2)
  BY <1>3, <1>5 DEF GetsMore
<1>6. Confirms(s, sent, lo, next2, H2)
  <2>1. lo <= next2 BY <1>1, <1>5a
  <2> QED BY <1>5a, <2>1 DEF StreamAt, Confirms
<1>7. OnAir(packets, to, sent, next2, H2)
  <2>1. ASSUME NEW o, AckAt(o, sent, next, H) PROVE AckAt(o, sent, next2, H2)
    <3>1. PICK a \in 0..next : Len(sent) - a <= Lifetime /\ o.seq = Nth(a) /\ o.mask \subseteq Masked(a, next, H)
      BY <2>1 DEF AckAt
    <3>2. a \in 0..next2 BY <1>1, <1>5a
    <3>3. Masked(a, next, H) \subseteq Masked(a, next2, H2) BY <1>5a DEF Masked
    <3> QED BY <3>1, <3>2, <3>3 DEF AckAt
  <2> QED BY <2>1 DEF StreamAt, OnAir
<1>8. StreamAt(s, NoteReceived(r, p.seq, p.body), sent, W, to, packets, lo, next2, H2)
  BY <1>5a, <1>6, <1>7 DEF StreamAt
<1>9. Arrives(s, r, sent, W, to, packets, p, lo, next, H, k, next2, H2)
  BY <1>3, <1>5a, <1>8 DEF Arrives
<1> QED BY <1>9

(* An acknowledgement arrives. *)
LEMMA StreamAcked ==
  ASSUME NEW s, NEW r, NEW sent, NEW W, NEW to, NEW packets, NEW lo, NEW next, NEW H, SentFacts(sent, W),
         StreamAt(s, r, sent, W, to, packets, lo, next, H),
         NEW p \in packets, p.to # to, p.kind # "data", NEW most
  PROVE  \E lo2 \in Nat : StreamAt(OnAck(s, p.seq, p.mask, most), r, sent, W, to, packets, lo2, next, H)
<1>1. AckAt(p, sent, next, H) BY DEF StreamAt, OnAir
<1>2. PICK a \in 0..next : Len(sent) - a <= Lifetime /\ p.seq = Nth(a) /\ p.mask \subseteq Masked(a, next, H)
  BY <1>1 DEF AckAt
<1>3. /\ Sends(s, sent, W, lo) /\ Confirms(s, sent, lo, next, H) /\ next \in Nat /\ next <= Len(sent)
      /\ H \subseteq ((next + 1)..(Len(sent) - 1))
  BY StreamSizes DEF StreamAt
<1>4. PICK lo2 \in Nat : /\ Sends(OnAck(s, Nth(a), p.mask, most), sent, W, lo2)
                         /\ Confirms(OnAck(s, Nth(a), p.mask, most), sent, lo2, next, H)
  BY <1>2, <1>3, OnAckSends
<1> QED BY <1>2, <1>4 DEF StreamAt

-----------------------------------------------------------------------------
(* The invariant.                                                          *)

(* Beneath the streams: what says that the session is established is in    *)
(* the air only once the Switch is in its last stage.                      *)
Tells(kind) == IF role = "child" THEN kind = "rtt" ELSE kind = "final"

PiaInv ==
  /\ role \in {"child", "parent"} /\ PiaTypeOK
  /\ ~EarlyRtt => /\ UpMeansFinalized
                  /\ \A m \in air : m.to = "sim" /\ Tells(m.kind) => switch = "final"

(* The frames of the bridge are numbered as they come: first those queued, *)
(* then those pending, then those of the inbox, each of the proof it came  *)
(* under.                                                                  *)
Rising(s, bound) ==
  /\ s \in Seq(Bodies) /\ \A i \in 1..Len(s) : s[i][1] < bound
  /\ \A i, j \in 1..Len(s) : i < j => s[i][1] < s[j][1]

Before(s, t) == \A i \in 1..Len(s), j \in 1..Len(t) : s[i][1] < t[j][1]

OfGen(s, gen) == \A i \in 1..Len(s) : s[i][2] = gen

BridgeInv ==
  /\ bridge = [up |-> bridge.up, gen |-> bridge.gen, inbox |-> bridge.inbox, next |-> bridge.next]
  /\ bridge.up \in BOOLEAN /\ bridge.gen \in 0..MaxResets /\ bridge.next \in Nat
  /\ Len(bridge.inbox) <= InboxLimit /\ OfGen(bridge.inbox, bridge.gen)
  /\ Rising(bridge.inbox, bridge.next)

BacklogInv ==
  /\ myGen \in 0..MaxResets /\ Len(pending) <= MaxPending
  /\ Rising(pending, bridge.next) /\ OfGen(pending, myGen)
  /\ Before(pending, bridge.inbox)

QueuedInv ==
  /\ Rising(queued, bridge.next) /\ Before(queued, pending) /\ Before(queued, bridge.inbox)

FlagsInv == ackOwed \in BOOLEAN /\ failed \in BOOLEAN

Traffic == BridgeInv /\ BacklogInv /\ QueuedInv /\ FlagsInv

(* From the Switch: what has come has been handed on, in any order.        *)
Numbered(s) == s \in Seq(Bodies) /\ \A i \in 1..Len(s) : s[i] = <<i, 0>>

InAt(lo, next, H) ==
  /\ StreamAt(swSend, rcv, offered, SwitchWindow, "sim", wire, lo, next, H)
  /\ Got(next, H) = Handed(forwarded)
  /\ Filters(filter, forwarded, Len(offered))

InInv == Numbered(offered) /\ \E lo, next, H : InAt(lo, next, H)

(* To the Switch: what it was shown are the first frames queued.           *)
OutAt(lo, next, H) ==
  /\ StreamAt(rel, swRcv, queued, Window, "switch", wire, lo, next, H)
  /\ shown = SubSeq(queued, 1, next)

OutInv == \E lo, next, H : OutAt(lo, next, H)

IndInv == PiaInv /\ Traffic /\ InInv /\ OutInv

LEMMA InFacts == ASSUME InInv PROVE SentFacts(offered, SwitchWindow)
  BY Sizes DEF InInv, Numbered, SentFacts

LEMMA OutFacts == ASSUME Traffic PROVE SentFacts(queued, Window)
  BY Sizes DEF Traffic, QueuedInv, Rising, SentFacts

-----------------------------------------------------------------------------
(* Beginnings, rests and joins of numbered frames.                         *)

LEMMA RisingParts ==
  ASSUME NEW s, NEW bound, Rising(s, bound), NEW n \in Nat
  PROVE  /\ Rising(FirstOf(s, n), bound) /\ Rising(After(s, n), bound)
         /\ Before(FirstOf(s, n), After(s, n))
         /\ \A gen : OfGen(s, gen) => OfGen(FirstOf(s, n), gen) /\ OfGen(After(s, n), gen)
         /\ \A t : Before(t, s) => Before(t, FirstOf(s, n)) /\ Before(t, After(s, n))
         /\ \A t : Before(s, t) => Before(FirstOf(s, n), t) /\ Before(After(s, n), t)
<1> DEFINE f == FirstOf(s, n)
           a == After(s, n)
<1>1. s \in Seq(Bodies) /\ Len(s) \in Nat /\ \A i \in 1..Len(s) : s[i] \in Bodies /\ s[i][1] \in Nat
  BY DEF Rising, Bodies
<1>2. /\ f \in Seq(Bodies) /\ Len(f) = IF n <= Len(s) THEN n ELSE Len(s)
      /\ \A i \in 1..Len(f) : f[i] = s[i]
  BY <1>1, FirstOfIs
<1>3. /\ a \in Seq(Bodies) /\ Len(a) = IF n <= Len(s) THEN Len(s) - n ELSE 0
      /\ \A i \in 1..Len(a) : a[i] = s[n + i]
  BY <1>1, AfterIs
<1> HIDE DEF f, a
<1>4. \A i \in 1..Len(f) : i \in 1..Len(s) BY <1>1, <1>2
<1>5. \A i \in 1..Len(a) : n + i \in 1..Len(s) BY <1>1, <1>3
<1>6. Rising(f, bound) BY <1>2, <1>4 DEF Rising
<1>7. Rising(a, bound)
  <2>1. \A i, j \in 1..Len(a) : i < j => n + i < n + j BY <1>3
  <2> QED BY <1>3, <1>5, <2>1 DEF Rising
<1>8. Before(f, a)
  <2>1. \A i \in 1..Len(f), j \in 1..Len(a) : i < n + j BY <1>1, <1>2, <1>3
  <2> QED BY <1>2, <1>3, <1>4, <1>5, <2>1 DEF Rising, Before
<1>9. ASSUME NEW gen, OfGen(s, gen) PROVE OfGen(f, gen) /\ OfGen(a, gen)
  <2>1. \A i \in 1..Len(s) : s[i][2] = gen BY <1>9 DEF OfGen
  <2>2. \A i \in 1..Len(f) : f[i][2] = gen BY <1>2, <1>4, <2>1
  <2>3. \A i \in 1..Len(a) : a[i][2] = gen BY <1>3, <1>5, <2>1
  <2> QED BY <2>2, <2>3 DEF OfGen
<1>10. \A t : Before(t, s) => Before(t, f) /\ Before(t, a)
  BY <1>2, <1>3, <1>4, <1>5 DEF Before
<1>11. \A t : Before(s, t) => Before(f, t) /\ Before(a, t)
  BY <1>2, <1>3, <1>4, <1>5 DEF Before
<1> QED BY <1>6, <1>7, <1>8, <1>9, <1>10, <1>11 DEF f, a

LEMMA RisingJoin ==
  ASSUME NEW s, NEW t, NEW bound, Rising(s, bound), Rising(t, bound), Before(s, t)
  PROVE  /\ Rising(s \o t, bound) /\ Len(s \o t) = Len(s) + Len(t)
         /\ \A gen : OfGen(s, gen) /\ OfGen(t, gen) => OfGen(s \o t, gen)
         /\ \A u : Before(u, s) /\ Before(u, t) => Before(u, s \o t)
         /\ \A u : Before(s, u) /\ Before(t, u) => Before(s \o t, u)
<1> DEFINE j == s \o t
<1>1. s \in Seq(Bodies) /\ t \in Seq(Bodies) /\ Len(s) \in Nat /\ Len(t) \in Nat
  BY DEF Rising
<1>2. /\ j \in Seq(Bodies) /\ Len(j) = Len(s) + Len(t)
      /\ \A i \in 1..Len(s) : j[i] = s[i]
      /\ \A i \in 1..Len(t) : j[Len(s) + i] = t[i]
      /\ \A i \in 1..(Len(s) + Len(t)) : i \in 1..Len(s) \/ (i - Len(s) \in 1..Len(t) /\ i = Len(s) + (i - Len(s)))
  BY <1>1, JoinIs
<1> HIDE DEF j
<1>3. \A i \in 1..Len(j) : \/ i \in 1..Len(s) /\ j[i] = s[i]
                           \/ i - Len(s) \in 1..Len(t) /\ j[i] = t[i - Len(s)]
  BY <1>2
<1>4. Rising(j, bound)
  <2>1. \A i \in 1..Len(j) : j[i][1] < bound BY <1>3 DEF Rising
  <2>2. ASSUME NEW x \in 1..Len(j), NEW y \in 1..Len(j), x < y PROVE j[x][1] < j[y][1]
    <3>1. CASE x \in 1..Len(s) /\ y \in 1..Len(s) BY <1>2, <2>2, <3>1 DEF Rising
    <3>2. CASE x \in 1..Len(s) /\ y \notin 1..Len(s)
      <4>1. j[x] = s[x] /\ y - Len(s) \in 1..Len(t) /\ j[y] = t[y - Len(s)] BY <1>2, <1>3, <3>2
      <4> QED BY <3>2, <4>1 DEF Before
    <3>3. CASE x \notin 1..Len(s)
      <4>1. x - Len(s) \in 1..Len(t) /\ j[x] = t[x - Len(s)] BY <1>3, <3>3
      <4>2. y \notin 1..Len(s) BY <1>1, <2>2, <3>3
      <4>3. y - Len(s) \in 1..Len(t) /\ j[y] = t[y - Len(s)] BY <1>3, <4>2
      <4>4. x - Len(s) < y - Len(s) BY <1>1, <2>2
      <4> QED BY <4>1, <4>3, <4>4 DEF Rising
    <3> QED BY <3>1, <3>2, <3>3
  <2> QED BY <1>2, <2>1, <2>2 DEF Rising
<1>5. \A gen : OfGen(s, gen) /\ OfGen(t, gen) => OfGen(j, gen)
  BY <1>3 DEF OfGen
<1>6. \A u : Before(u, s) /\ Before(u, t) => Before(u, j)
  BY <1>3 DEF Before
<1>7. \A u : Before(s, u) /\ Before(t, u) => Before(j, u)
  BY <1>3 DEF Before
<1> QED BY <1>2, <1>4, <1>5, <1>6, <1>7 DEF j

LEMMA NothingRises ==
  ASSUME NEW bound
  PROVE  /\ Rising(<<>>, bound) /\ Len(<<>>) = 0
         /\ \A gen : OfGen(<<>>, gen)
         /\ \A s : Before(s, <<>>) /\ Before(<<>>, s)
<1>1. <<>> \in Seq(Bodies) /\ Len(<<>>) = 0 /\ 1..0 = {} OBVIOUS
<1> QED BY <1>1 DEF Rising, OfGen, Before

LEMMA RisingMore ==
  ASSUME NEW s, NEW bound \in Nat, Rising(s, bound)
  PROVE  Rising(s, bound + 1)
<1>1. \A i \in 1..Len(s) : s[i][1] \in Nat BY DEF Rising, Bodies
<1> QED BY <1>1 DEF Rising

-----------------------------------------------------------------------------
(* Every step keeps what is beneath the streams.                           *)

LEMMA PiaKept ==
  ASSUME PiaInv, [LinkNext]_vars PROVE PiaInv'
<1>1. role \in {"child", "parent"} /\ conn \in Stages[role] /\ switch \in SwitchStages[role]
      /\ air \subseteq [to : {"sim", "switch"}, kind : Kinds] /\ losses \in 0..MaxLosses
  BY DEF PiaInv, PiaTypeOK
<1>2. MaxLosses \in Nat BY PiaAssumption
<1>3. \A k : /\ k \subseteq Kinds => ToSim(k) \subseteq [to : {"sim", "switch"}, kind : Kinds]
             /\ k \subseteq Kinds => ToSwitch(k) \subseteq [to : {"sim", "switch"}, kind : Kinds]
             /\ \A m \in ToSim(k) : m.kind \in k
             /\ \A m \in ToSwitch(k) : m.to = "switch"
  BY DEF ToSim, ToSwitch, Message
<1>4. ASSUME UNCHANGED <<role, conn, switch>>, air' \subseteq air, losses' \in 0..MaxLosses
      PROVE  PiaInv'
  BY <1>4 DEF PiaInv, PiaTypeOK, UpMeansFinalized, PiaUp, Tells
<1>5. CASE OnPiaMessage
  <2>1. PICK m \in air :
          /\ m.to = "sim"
          /\ conn' = IF role = "child" THEN ChildMovesTo(m.kind) ELSE ParentMovesTo(m.kind)
          /\ UNCHANGED <<role, switch, losses>>
          /\ air' = InAir((air \ {m}) \cup
                    ToSwitch(IF role = "child" THEN ChildReplies(m.kind) ELSE ParentReplies(m.kind)))
    BY <1>5 DEF OnPiaMessage
  <2> DEFINE replies == IF role = "child" THEN ChildReplies(m.kind) ELSE ParentReplies(m.kind)
  <2>2. replies \subseteq Kinds BY DEF ChildReplies, ParentReplies, Kinds
  <2> HIDE DEF replies
  <2>3. air' \subseteq air \cup ToSwitch(replies) BY <2>1 DEF InAir, replies
  <2>4. conn' \in Stages[role]
    <3>1. CASE role = "child" BY <1>1, <2>1, <3>1 DEF Stages, ChildMovesTo
    <3>2. CASE role = "parent" BY <1>1, <2>1, <3>2 DEF Stages, ParentMovesTo
    <3> QED BY <1>1, <3>1, <3>2
  <2>5. conn' \in {"connected", "finalized"} => conn \in {"connected", "finalized"} \/ Tells(m.kind)
    <3>1. CASE role = "child" BY <1>1, <2>1, <3>1 DEF Stages, ChildMovesTo, Tells
    <3>2. CASE role = "parent" BY <1>1, <2>1, <3>2 DEF Stages, ParentMovesTo, Tells
    <3> QED BY <1>1, <3>1, <3>2
  <2>6. PiaTypeOK' BY <1>1, <1>3, <2>1, <2>2, <2>3, <2>4 DEF PiaTypeOK
  <2>7. ASSUME ~EarlyRtt
        PROVE  /\ UpMeansFinalized'
               /\ \A o \in air' : o.to = "sim" /\ Tells(o.kind)' => switch' = "final"
    <3>1. UpMeansFinalized /\ \A o \in air : o.to = "sim" /\ Tells(o.kind) => switch = "final"
      BY <2>7 DEF PiaInv
    <3>2. UpMeansFinalized' BY <2>1, <2>5, <3>1 DEF UpMeansFinalized, PiaUp
    <3>3. \A o \in air' : o.to = "sim" => o \in air BY <1>3, <2>3
    <3> QED BY <2>1, <3>1, <3>2, <3>3 DEF Tells
  <2> QED BY <1>1, <2>1, <2>6, <2>7 DEF PiaInv
<1>6. CASE Poll
  <2>1. air' = air \cup ToSwitch({"net11"}) /\ UNCHANGED <<role, conn, switch, losses>>
    BY <1>6 DEF Poll
  <2>2. {"net11"} \subseteq Kinds BY DEF Kinds
  <2>3. \A o \in air' : o.to = "sim" => o \in air BY <1>3, <2>1
  <2> QED BY <1>3, <2>1, <2>2, <2>3 DEF PiaInv, PiaTypeOK, UpMeansFinalized, PiaUp, Tells
<1>7. CASE SwitchRepeats
  <2> DEFINE more == CASE switch = "announce" -> ToSim({"net11"})
                       [] switch = "accepted" -> ToSim(IF EarlyRtt THEN {"type5", "rtt"} ELSE {"type5"})
                       [] switch = "joining" -> ToSim({"join"})
                       [] switch = "final" /\ ~PiaUp -> ToSim(IF role = "child" THEN {"rtt"} ELSE {"final"})
                       [] OTHER -> {}
  <2>1. air' = air \cup more /\ UNCHANGED <<role, conn, switch, losses>>
    BY <1>7 DEF SwitchRepeats
  <2>2. \E k \in SUBSET Kinds : more = ToSim(k)
    <3>1. {} = ToSim({}) BY DEF ToSim
    <3>2. \A k : k \in {"net11", "type5", "rtt", "join", "final"} => k \in Kinds BY DEF Kinds
    <3> QED BY <3>1, <3>2
  <2>3. ~EarlyRtt /\ switch # "final" => \A o \in more : o.kind \notin {"rtt", "final"}
    BY <1>3
  <2> HIDE DEF more
  <2>4. more \subseteq [to : {"sim", "switch"}, kind : Kinds] BY <1>3, <2>2
  <2>5. PiaTypeOK' BY <1>1, <2>1, <2>4 DEF PiaTypeOK
  <2>6. ASSUME ~EarlyRtt
        PROVE  /\ UpMeansFinalized'
               /\ \A o \in air' : o.to = "sim" /\ Tells(o.kind)' => switch' = "final"
    <3>1. UpMeansFinalized /\ \A o \in air : o.to = "sim" /\ Tells(o.kind) => switch = "final"
      BY <2>6 DEF PiaInv
    <3>2. \A o \in more : Tells(o.kind) => switch = "final" BY <2>3, <2>6 DEF Tells
    <3> QED BY <2>1, <3>1, <3>2 DEF UpMeansFinalized, PiaUp, Tells
  <2> QED BY <1>1, <2>1, <2>5, <2>6 DEF PiaInv
<1>8. CASE SwitchReceives
  <2>1. PICK m \in air :
          /\ m.to = "switch"
          /\ switch' = CASE m.kind = "join" /\ switch = "announce" -> "accepted"
                         [] m.kind = "final" /\ switch = "accepted" -> "final"
                         [] m.kind = "net11" /\ switch = "idle" -> "joining"
                         [] m.kind = "type5" /\ switch = "joining" -> "final"
                         [] OTHER -> switch
          /\ UNCHANGED <<role, conn, losses>>
          /\ air' = InAir((air \ {m}) \cup
                    ToSim(CASE m.kind = "join" /\ switch = "announce" -> {"type2", "type5"}
                            [] m.kind = "net11" /\ switch = "idle" -> {"join"}
                            [] m.kind = "type5" /\ switch \in {"joining", "final"} -> {"final"}
                            [] OTHER -> {}))
    BY <1>8 DEF SwitchReceives
  <2> DEFINE replies == CASE m.kind = "join" /\ switch = "announce" -> {"type2", "type5"}
                          [] m.kind = "net11" /\ switch = "idle" -> {"join"}
                          [] m.kind = "type5" /\ switch \in {"joining", "final"} -> {"final"}
                          [] OTHER -> {}
  <2>2. replies \subseteq Kinds BY DEF Kinds
  <2>3. \A k \in replies : Tells(k) => switch' = "final"
    BY <2>1 DEF Tells
  <2> HIDE DEF replies
  <2>4. air' \subseteq air \cup ToSim(replies) BY <2>1 DEF InAir, replies
  <2>5. switch' \in SwitchStages[role]
    <3>1. CASE role = "child" BY <1>1, <2>1, <3>1 DEF SwitchStages
    <3>2. CASE role = "parent" BY <1>1, <2>1, <3>2 DEF SwitchStages
    <3> QED BY <1>1, <3>1, <3>2
  <2>6. switch = "final" => switch' = "final" BY <2>1
  <2>7. PiaTypeOK' BY <1>1, <1>3, <2>1, <2>2, <2>4, <2>5 DEF PiaTypeOK
  <2>8. ASSUME ~EarlyRtt
        PROVE  /\ UpMeansFinalized'
               /\ \A o \in air' : o.to = "sim" /\ Tells(o.kind)' => switch' = "final"
    <3>1. UpMeansFinalized /\ \A o \in air : o.to = "sim" /\ Tells(o.kind) => switch = "final"
      BY <2>8 DEF PiaInv
    <3>2. \A o \in air' : o \in air \/ o.kind \in replies BY <1>3, <2>4
    <3> QED BY <2>1, <2>3, <2>6, <3>1, <3>2 DEF UpMeansFinalized, PiaUp, Tells
  <2> QED BY <1>1, <2>1, <2>7, <2>8 DEF PiaInv
<1>9. CASE LosePia \/ LoseFrame
  <2>1. UNCHANGED <<role, conn, switch>> /\ air' \subseteq air /\ losses < MaxLosses /\ losses' = losses + 1
    BY <1>9 DEF LosePia, LoseFrame
  <2>2. losses' \in 0..MaxLosses BY <1>1, <1>2, <2>1
  <2> QED BY <1>4, <2>1, <2>2
<1>10. CASE UNCHANGED piaVars
  BY <1>1, <1>4, <1>10 DEF piaVars
<1>11. \/ OnPiaMessage \/ Poll \/ SwitchRepeats \/ SwitchReceives \/ LosePia \/ LoseFrame
       \/ UNCHANGED piaVars
  BY DEF LinkNext, vars, PiaStep, PiaNext, BridgeFrame, BridgeReset, BridgeUp, DriveStep, Drive, SwitchSends,
         SwitchResendStep, SwitchResends, ReceiveData, ReceiveAck, SwitchReceivesData, SwitchReceivesAck
<1> QED BY <1>5, <1>6, <1>7, <1>8, <1>9, <1>10, <1>11

-----------------------------------------------------------------------------
(* Every step keeps the frames of the bridge in their order and of their   *)
(* proof.                                                                  *)

(* What the bridge hands over continues what is pending. *)
LEMMA PolledRises ==
  ASSUME Traffic, NEW lost \in BOOLEAN
  PROVE  LET backlog == Backlog \o Polled(lost) IN
         /\ Rising(backlog, bridge.next) /\ Before(queued, backlog)
         /\ bridge.up => OfGen(backlog, bridge.gen)
         /\ ~bridge.up => backlog = <<>>
         /\ bridge.up /\ ~lost => Before(backlog, After(bridge.inbox, PollLimit))
<1>1. PollLimit \in Nat BY LimitAssumption
<1>2. /\ Rising(Polled(lost), bridge.next) /\ Before(queued, Polled(lost)) /\ Before(pending, Polled(lost))
      /\ OfGen(Polled(lost), bridge.gen)
      /\ bridge.up /\ ~lost => Before(Polled(lost), After(bridge.inbox, PollLimit))
  <2>1. CASE ~bridge.up \/ lost BY <2>1, NothingRises DEF Polled
  <2>2. CASE ~(~bridge.up \/ lost)
    <3>1. Polled(lost) = FirstOf(bridge.inbox, PollLimit) BY <2>2 DEF Polled
    <3>2. /\ Rising(bridge.inbox, bridge.next) /\ Before(queued, bridge.inbox) /\ Before(pending, bridge.inbox)
          /\ OfGen(bridge.inbox, bridge.gen)
      BY DEF Traffic, BridgeInv, BacklogInv, QueuedInv
    <3> QED BY <1>1, <3>1, <3>2, RisingParts
  <2> QED BY <2>1, <2>2
<1>3. /\ Rising(Backlog, bridge.next) /\ Before(queued, Backlog) /\ Before(Backlog, Polled(lost))
      /\ OfGen(Backlog, bridge.gen)
      /\ Before(Backlog, After(bridge.inbox, PollLimit))
  <2>1. CASE Backlog = <<>> BY <2>1, NothingRises
  <2>2. CASE Backlog # <<>>
    <3>1. Backlog = pending /\ bridge.gen = myGen BY <2>2 DEF Backlog
    <3>2. /\ Rising(pending, bridge.next) /\ Before(queued, pending) /\ OfGen(pending, myGen)
          /\ Before(pending, bridge.inbox) /\ Rising(bridge.inbox, bridge.next)
      BY DEF Traffic, BridgeInv, BacklogInv, QueuedInv
    <3> QED BY <1>1, <1>2, <3>1, <3>2, RisingParts
  <2> QED BY <2>1, <2>2
<1>4. ~bridge.up => Backlog = <<>> /\ Polled(lost) = <<>> BY DEF Backlog, Polled
<1> DEFINE backlog == Backlog \o Polled(lost)
<1>5. /\ Rising(backlog, bridge.next) /\ Before(queued, backlog)
      /\ bridge.up /\ ~lost => Before(backlog, After(bridge.inbox, PollLimit))
  BY <1>2, <1>3, RisingJoin
<1>6. OfGen(backlog, bridge.gen) BY <1>2, <1>3, RisingJoin
<1>7. <<>> \o <<>> = <<>> OBVIOUS
<1>8. ~bridge.up => backlog = <<>> BY <1>4, <1>7
<1> QED BY <1>5, <1>6, <1>8

LEMMA DriveTraffic ==
  ASSUME Traffic, NEW elapsed, NEW period \in BOOLEAN, NEW lost \in BOOLEAN, Drive(elapsed, period, lost),
         Room \in Nat
  PROVE  /\ Traffic'
         /\ \E new \in Seq(Bodies) : /\ queued' = queued \o new /\ Len(new) <= Room
                                     /\ OfGen(new, bridge.gen)
<1> DEFINE backlog == Backlog \o Polled(lost)
           new == FirstOf(backlog, Room)
<1>1. /\ Rising(backlog, bridge.next) /\ Before(queued, backlog)
      /\ bridge.up => OfGen(backlog, bridge.gen)
      /\ ~bridge.up => backlog = <<>>
      /\ bridge.up /\ ~lost => Before(backlog, After(bridge.inbox, PollLimit))
  BY PolledRises
<1>2. /\ bridge' = IF lost THEN Invalidated(bridge)
                   ELSE IF bridge.up THEN [bridge EXCEPT !.inbox = After(@, PollLimit)] ELSE bridge
      /\ myGen' = IF bridge.up THEN bridge.gen ELSE myGen
      /\ lost => bridge.up /\ bridge.gen < MaxResets
      /\ \/ /\ Len(backlog) > MaxPending /\ pending' = FirstOf(backlog, MaxPending)
            /\ UNCHANGED <<rel, ackOwed, queued, wire>> /\ failed' = TRUE
         \/ /\ Len(backlog) <= MaxPending /\ queued' = queued \o new
            /\ pending' = After(backlog, Len(new)) /\ ackOwed' \in BOOLEAN /\ UNCHANGED failed
  <2>1. Len(backlog) \in Nat /\ MaxPending \in Nat BY <1>1, LimitAssumption DEF Rising
  <2>2. ackOwed \in BOOLEAN BY DEF Traffic, FlagsInv
  <2>3. /\ lost => bridge.up /\ bridge.gen < MaxResets
        /\ myGen' = IF bridge.up THEN bridge.gen ELSE myGen
        /\ bridge' = IF lost THEN Invalidated(bridge)
                     ELSE IF bridge.up THEN [bridge EXCEPT !.inbox = After(@, PollLimit)] ELSE bridge
        /\ Len(backlog) > MaxPending =>
             failed' = TRUE /\ pending' = FirstOf(backlog, MaxPending) /\ UNCHANGED <<rel, ackOwed, queued, wire>>
        /\ ~(Len(backlog) > MaxPending) =>
             /\ queued' = queued \o new /\ pending' = After(backlog, Len(new))
             /\ \E acks \in BOOLEAN : ackOwed' = (ackOwed /\ ~acks)
             /\ UNCHANGED failed
    BY DEF Drive
  <2> HIDE DEF backlog, new
  <2>4. ~(Len(backlog) > MaxPending) => ackOwed' \in BOOLEAN BY <2>2, <2>3
  <2>5. Len(backlog) > MaxPending \/ Len(backlog) <= MaxPending BY <2>1
  <2> QED BY <2>3, <2>4, <2>5
<1> HIDE DEF backlog, new
<1>3. /\ Rising(new, bridge.next) /\ Len(new) \in Nat /\ Len(new) <= Room /\ Before(queued, new)
      /\ bridge.up => OfGen(new, bridge.gen)
      /\ ~bridge.up => new = <<>>
      /\ bridge.up /\ ~lost => Before(new, After(bridge.inbox, PollLimit))
      /\ Len(new) = IF Room <= Len(backlog) THEN Room ELSE Len(backlog)
  <2>1. backlog \in Seq(Bodies) /\ Len(backlog) \in Nat BY <1>1 DEF Rising
  <2>2. new \in Seq(Bodies) /\ Len(new) = IF Room <= Len(backlog) THEN Room ELSE Len(backlog)
    BY <2>1, FirstOfIs DEF new
  <2>3. /\ Rising(new, bridge.next) /\ Before(queued, new)
        /\ bridge.up => OfGen(new, bridge.gen)
        /\ bridge.up /\ ~lost => Before(new, After(bridge.inbox, PollLimit))
    BY <1>1, RisingParts DEF new
  <2>4. backlog = <<>> => new = <<>>
    <3>1. Len(<<>>) = 0 OBVIOUS
    <3> QED BY <2>1, <2>2, <3>1
  <2> QED BY <1>1, <2>1, <2>2, <2>3, <2>4
<1>4. /\ BridgeInv /\ QueuedInv /\ BacklogInv
      /\ MaxPending \in Nat /\ PollLimit \in Nat /\ MaxResets \in Nat /\ InboxLimit \in Nat
  BY LimitAssumption DEF Traffic
<1>5. /\ BridgeInv' /\ bridge'.next = bridge.next
      /\ bridge.up /\ ~lost => bridge'.inbox = After(bridge.inbox, PollLimit)
      /\ lost => bridge'.inbox = <<>>
      /\ ~bridge.up => bridge' = bridge
  <2>1. CASE lost
    <3>1. bridge' = [up |-> FALSE, gen |-> bridge.gen + 1, inbox |-> <<>>, next |-> bridge.next]
      BY <1>2, <1>4, <2>1 DEF Invalidated, BridgeInv
    <3>2. bridge.gen + 1 \in 0..MaxResets BY <1>2, <1>4, <2>1 DEF BridgeInv
    <3>3. Len(<<>>) <= InboxLimit BY <1>4, NothingRises
    <3>4. bridge.next \in Nat BY <1>4 DEF BridgeInv
    <3>5. BridgeInv' BY <3>1, <3>2, <3>3, <3>4, NothingRises DEF BridgeInv
    <3> QED BY <1>2, <2>1, <3>1, <3>5
  <2>2. CASE ~lost /\ bridge.up
    <3>1. bridge' = [up |-> bridge.up, gen |-> bridge.gen, inbox |-> After(bridge.inbox, PollLimit),
                     next |-> bridge.next]
      BY <1>2, <1>4, <2>2 DEF BridgeInv
    <3>2. bridge.inbox \in Seq(Bodies) BY <1>4 DEF BridgeInv, Rising
    <3>3. Len(After(bridge.inbox, PollLimit)) <= Len(bridge.inbox) BY <1>4, <3>2, AfterIs
    <3>4. Len(After(bridge.inbox, PollLimit)) \in Nat BY <1>4, <3>2, AfterIs
    <3>5. Rising(After(bridge.inbox, PollLimit), bridge.next) /\ OfGen(After(bridge.inbox, PollLimit), bridge.gen)
      BY <1>4, RisingParts DEF BridgeInv
    <3>6. Len(After(bridge.inbox, PollLimit)) <= InboxLimit BY <1>4, <3>2, <3>3, <3>4 DEF BridgeInv
    <3> QED BY <1>4, <2>2, <3>1, <3>5, <3>6 DEF BridgeInv
  <2>3. CASE ~lost /\ ~bridge.up
    <3>1. bridge' = bridge BY <1>2, <2>3
    <3> QED BY <1>4, <2>3, <3>1 DEF BridgeInv
  <2> QED BY <2>1, <2>2, <2>3
<1>6. /\ bridge.up => Before(backlog, bridge'.inbox) /\ Before(new, bridge'.inbox)
      /\ Before(queued, bridge'.inbox)
      /\ ~bridge.up => Before(backlog, bridge'.inbox) /\ Before(new, bridge'.inbox)
  <2>1. Before(queued, bridge.inbox) /\ Rising(bridge.inbox, bridge.next) BY <1>4 DEF QueuedInv, BridgeInv
  <2>2. Before(queued, After(bridge.inbox, PollLimit)) BY <1>4, <2>1, RisingParts
  <2>3. CASE lost BY <1>2, <1>5, <2>3, NothingRises
  <2>4. CASE ~lost /\ bridge.up BY <1>1, <1>3, <1>5, <2>2, <2>4
  <2>5. CASE ~bridge.up BY <1>1, <1>3, <1>5, <2>1, <2>5, NothingRises
  <2> QED BY <2>3, <2>4, <2>5
<1>7. \A n \in Nat : /\ Rising(FirstOf(backlog, n), bridge.next) /\ Rising(After(backlog, n), bridge.next)
                     /\ OfGen(FirstOf(backlog, n), myGen') /\ OfGen(After(backlog, n), myGen')
                     /\ Before(FirstOf(backlog, n), bridge'.inbox) /\ Before(After(backlog, n), bridge'.inbox)
                     /\ Before(queued, FirstOf(backlog, n)) /\ Before(queued, After(backlog, n))
  <2>1. OfGen(backlog, myGen') BY <1>1, <1>2, NothingRises
  <2> QED BY <1>1, <1>6, <2>1, RisingParts
<1>8. myGen' \in 0..MaxResets BY <1>2, <1>4 DEF BridgeInv, BacklogInv
<1>9. CASE Len(backlog) > MaxPending
  <2>1. pending' = FirstOf(backlog, MaxPending) /\ queued' = queued /\ ackOwed' = ackOwed /\ failed' = TRUE
    BY <1>1, <1>2, <1>4, <1>9 DEF Rising
  <2>2. backlog \in Seq(Bodies) BY <1>1 DEF Rising
  <2>3. Len(pending') <= MaxPending BY <1>4, <2>1, <2>2, FirstOfIs
  <2>4. BacklogInv' BY <1>4, <1>5, <1>7, <1>8, <2>1, <2>3 DEF BacklogInv
  <2>5. QueuedInv' BY <1>4, <1>5, <1>6, <1>7, <2>1 DEF QueuedInv
  <2>6. FlagsInv' BY <2>1 DEF Traffic, FlagsInv
  <2>7. queued' = queued \o <<>> /\ <<>> \in Seq(Bodies) /\ Len(<<>>) <= Room /\ OfGen(<<>>, bridge.gen)
    <3>1. queued \in Seq(Bodies) BY <1>4 DEF QueuedInv, Rising
    <3> QED BY <2>1, <3>1, NothingRises
  <2> QED BY <1>5, <2>4, <2>5, <2>6, <2>7 DEF Traffic
<1>10. CASE ~(Len(backlog) > MaxPending)
  <2>1. /\ pending' = After(backlog, Len(new)) /\ queued' = queued \o new /\ ackOwed' \in BOOLEAN
        /\ failed' = failed
    BY <1>2, <1>10
  <2>2. backlog \in Seq(Bodies) /\ Len(backlog) \in Nat BY <1>1 DEF Rising
  <2>3. Len(pending') <= Len(backlog) /\ Len(pending') \in Nat BY <1>3, <2>1, <2>2, AfterIs
  <2>4. Len(pending') <= MaxPending BY <1>4, <1>10, <2>2, <2>3
  <2>5. BacklogInv' BY <1>3, <1>4, <1>5, <1>7, <1>8, <2>1, <2>4 DEF BacklogInv
  <2>6. Before(new, pending')
    <3>1. Len(new) = Room \/ pending' = <<>>
      <4>1. ASSUME Len(new) # Room PROVE pending' = <<>>
        <5>1. Len(new) = Len(backlog) BY <1>3, <4>1
        <5>2. After(backlog, Len(new)) \in Seq(Bodies) /\ Len(After(backlog, Len(new))) = 0
          BY <1>3, <2>2, <5>1, AfterIs
        <5> QED BY <2>1, <5>2
      <4> QED BY <4>1
    <3>2. Before(FirstOf(backlog, Room), After(backlog, Room)) BY <1>1, RisingParts
    <3> QED BY <2>1, <3>1, <3>2, NothingRises DEF new
  <2>7. QueuedInv'
    <3>1. Rising(queued, bridge.next) BY <1>4 DEF QueuedInv
    <3>2. /\ Rising(queued \o new, bridge.next)
          /\ Before(queued \o new, pending') /\ Before(queued \o new, bridge'.inbox)
      BY <1>3, <1>6, <1>7, <2>1, <2>6, <3>1, RisingJoin
    <3> QED BY <1>5, <2>1, <3>2 DEF QueuedInv
  <2>8. FlagsInv' BY <2>1 DEF Traffic, FlagsInv
  <2>9. new \in Seq(Bodies) /\ OfGen(new, bridge.gen) BY <1>3, NothingRises DEF Rising
  <2> QED BY <1>3, <1>5, <2>1, <2>5, <2>7, <2>8, <2>9 DEF Traffic
<1> QED BY <1>9, <1>10

LEMMA RoomIs ==
  ASSUME Traffic, OutInv PROVE Room \in Nat
<1>1. PICK lo, next, H : OutAt(lo, next, H) BY DEF OutInv
<1>2. StreamAt(rel, swRcv, queued, Window, "switch", wire, lo, next, H) BY <1>1 DEF OutAt
<1>3. SentFacts(queued, Window) BY OutFacts
<1>4. /\ Len(queued) \in Nat /\ Window \in Nat /\ lo \in Nat /\ Len(queued) - lo <= Window
      /\ lo <= next /\ next <= Len(queued) /\ next \in Nat /\ Inflight(rel) = Len(queued) - lo
  BY <1>2, <1>3, StreamSizes
<1> QED BY <1>4 DEF Room

LEMMA TrafficKept ==
  ASSUME Traffic, OutInv, [LinkNext]_vars PROVE Traffic'
<1>1. BridgeInv /\ BacklogInv /\ QueuedInv /\ FlagsInv BY DEF Traffic
<1>2. CASE BridgeFrame
  <2> DEFINE f == <<bridge.next, bridge.gen>>
             n == bridge.next
             box == Append(bridge.inbox, f)
  <2>1. /\ Len(bridge.inbox) < InboxLimit /\ bridge' = [bridge EXCEPT !.inbox = box, !.next = n + 1]
        /\ UNCHANGED <<queued, pending, myGen, ackOwed, failed>>
    BY <1>2 DEF BridgeFrame, simVars, history
  <2>2. /\ bridge' = [up |-> bridge.up, gen |-> bridge.gen, inbox |-> box, next |-> n + 1]
        /\ n \in Nat /\ bridge.gen \in Nat /\ Rising(bridge.inbox, n) /\ bridge.inbox \in Seq(Bodies)
        /\ Rising(pending, n) /\ Rising(queued, n) /\ InboxLimit \in Nat
    <3>1. bridge' = [up |-> bridge.up, gen |-> bridge.gen, inbox |-> box, next |-> n + 1]
      <4>1. bridge = [up |-> bridge.up, gen |-> bridge.gen, inbox |-> bridge.inbox, next |-> bridge.next]
        BY <1>1 DEF BridgeInv
      <4> HIDE DEF n, f, box
      <4> QED BY <2>1, <4>1
    <3>2. n \in Nat /\ bridge.gen \in Nat /\ Rising(bridge.inbox, n) BY <1>1 DEF BridgeInv
    <3>3. bridge.inbox \in Seq(Bodies) BY <3>2 DEF Rising
    <3>4. Rising(pending, n) /\ Rising(queued, n) BY <1>1 DEF BacklogInv, QueuedInv
    <3> QED BY <3>1, <3>2, <3>3, <3>4, LimitAssumption
  <2>3. f \in Bodies /\ f[1] = n /\ f[2] = bridge.gen BY <2>2 DEF Bodies
  <2> HIDE DEF f, n
  <2>4. /\ box \in Seq(Bodies) /\ Len(box) = Len(bridge.inbox) + 1 /\ box[Len(bridge.inbox) + 1] = f
        /\ \A i \in 1..Len(bridge.inbox) : box[i] = bridge.inbox[i]
    BY <2>2, <2>3
  <2> HIDE DEF box
  <2>5. \A i \in 1..Len(box) : \/ i \in 1..Len(bridge.inbox) /\ box[i] = bridge.inbox[i]
                               \/ i = Len(bridge.inbox) + 1 /\ box[i] = f
    BY <2>2, <2>4
  <2>6. Rising(pending, n + 1) /\ Rising(queued, n + 1) /\ Rising(bridge.inbox, n + 1) BY <2>2, RisingMore
  <2>7. Rising(box, n + 1)
    <3>1. \A i \in 1..Len(box) : box[i][1] < n + 1 BY <2>2, <2>3, <2>5, <2>6 DEF Rising
    <3>2. ASSUME NEW i \in 1..Len(box), NEW j \in 1..Len(box), i < j PROVE box[i][1] < box[j][1]
      <4>1. i \in 1..Len(bridge.inbox) /\ box[i] = bridge.inbox[i] BY <2>2, <2>4, <2>5, <3>2
      <4>2. CASE j \in 1..Len(bridge.inbox) /\ box[j] = bridge.inbox[j]
        BY <2>2, <3>2, <4>1, <4>2 DEF Rising
      <4>3. CASE box[j] = f BY <2>2, <2>3, <4>1, <4>3 DEF Rising
      <4> QED BY <2>5, <4>2, <4>3
    <3> QED BY <2>4, <3>1, <3>2 DEF Rising
  <2>8. ASSUME NEW s, Rising(s, n), Before(s, bridge.inbox) PROVE Before(s, box)
    BY <2>3, <2>5, <2>8 DEF Rising, Before
  <2>9. OfGen(box, bridge.gen) BY <1>1, <2>3, <2>5 DEF BridgeInv, OfGen
  <2>10. Len(box) <= InboxLimit BY <2>1, <2>2, <2>4
  <2>11. BridgeInv' BY <1>1, <2>2, <2>7, <2>9, <2>10 DEF BridgeInv
  <2>12. BacklogInv' BY <1>1, <2>1, <2>2, <2>6, <2>8 DEF BacklogInv
  <2>13. QueuedInv' BY <1>1, <2>1, <2>2, <2>6, <2>8 DEF QueuedInv
  <2>14. FlagsInv' BY <1>1, <2>1 DEF FlagsInv
  <2> QED BY <2>11, <2>12, <2>13, <2>14 DEF Traffic
<1>3. CASE BridgeReset \/ BridgeUp
  <2>1. UNCHANGED <<queued, pending, myGen, ackOwed, failed>>
    BY <1>3 DEF BridgeReset, BridgeUp, simVars, history
  <2>2. \/ bridge' = [up |-> FALSE, gen |-> bridge.gen + 1, inbox |-> <<>>, next |-> bridge.next]
           /\ bridge.gen < MaxResets
        \/ bridge' = [up |-> TRUE, gen |-> bridge.gen, inbox |-> bridge.inbox, next |-> bridge.next]
    BY <1>1, <1>3 DEF BridgeReset, BridgeUp, BridgeInv, Invalidated
  <2>3. MaxResets \in Nat /\ InboxLimit \in Nat BY LimitAssumption
  <2>4. Len(<<>>) <= InboxLimit BY <2>3, NothingRises
  <2>5. CASE bridge' = [up |-> TRUE, gen |-> bridge.gen, inbox |-> bridge.inbox, next |-> bridge.next]
    BY <1>1, <2>1, <2>5 DEF Traffic, BridgeInv, BacklogInv, QueuedInv, FlagsInv
  <2>6. CASE bridge' = [up |-> FALSE, gen |-> bridge.gen + 1, inbox |-> <<>>, next |-> bridge.next]
             /\ bridge.gen < MaxResets
    <3>1. bridge.gen + 1 \in 0..MaxResets BY <1>1, <2>3, <2>6 DEF BridgeInv
    <3>2. BridgeInv' BY <1>1, <2>4, <2>6, <3>1, NothingRises DEF BridgeInv
    <3>3. BacklogInv' BY <1>1, <2>1, <2>6, NothingRises DEF BacklogInv
    <3>4. QueuedInv' BY <1>1, <2>1, <2>6, NothingRises DEF QueuedInv
    <3>5. FlagsInv' BY <1>1, <2>1 DEF FlagsInv
    <3> QED BY <3>2, <3>3, <3>4, <3>5 DEF Traffic
  <2> QED BY <2>2, <2>5, <2>6
<1>4. CASE DriveStep
  <2>1. PICK elapsed \in Timeouts, period \in BOOLEAN, lost \in BOOLEAN : Drive(elapsed, period, lost)
    BY <1>4 DEF DriveStep
  <2> QED BY <2>1, RoomIs, DriveTraffic
<1>5. ASSUME UNCHANGED <<bridge, queued, pending, myGen, failed>>, ackOwed' \in BOOLEAN PROVE Traffic'
  BY <1>1, <1>5 DEF Traffic, BridgeInv, BacklogInv, QueuedInv, FlagsInv
<1>6. CASE \E p \in wire : ReceiveData(p) \/ ReceiveAck(p) \/ SwitchReceivesData(p) \/ SwitchReceivesAck(p)
  <2>1. UNCHANGED <<bridge, queued, pending, myGen, failed>> /\ (ackOwed' = TRUE \/ ackOwed' = ackOwed)
    BY <1>6 DEF ReceiveData, ReceiveAck, SwitchReceivesData, SwitchReceivesAck, Owes, simVars, history
  <2> QED BY <1>1, <1>5, <2>1 DEF FlagsInv
<1>7. CASE PiaStep \/ SwitchSends \/ SwitchResendStep \/ LoseFrame \/ UNCHANGED vars
  <2>1. UNCHANGED <<bridge, queued, pending, myGen, failed, ackOwed>>
    BY <1>7 DEF PiaStep, SwitchSends, SwitchResendStep, SwitchResends, LoseFrame, vars, linkVars, simVars, history
  <2> QED BY <1>1, <1>5, <2>1 DEF FlagsInv
<1> QED BY <1>2, <1>3, <1>4, <1>6, <1>7 DEF LinkNext

-----------------------------------------------------------------------------
(* Every step keeps the stream from the Switch.                            *)

LEMMA FiltersMore ==
  ASSUME NEW f, NEW fwd, NEW N \in Nat, Filters(f, fwd, N) PROVE Filters(f, fwd, N + 1)
<1>1. \A x : x \in 0..(N - 1) => x \in 0..((N + 1) - 1) OBVIOUS
<1> QED BY <1>1 DEF Filters, HandedOn

(* What Drive puts into the air. *)
LEMMA DriveWire ==
  ASSUME NEW elapsed, NEW period, NEW lost, Drive(elapsed, period, lost), NEW p \in wire' \ wire
  PROVE  p.to = "switch" /\ (p.kind = "data" \/ p = Ack("switch", rcv))
<1>1. (p.to = "switch" /\ p.kind = "data") \/ p = Ack("switch", rcv)
  BY DEF Drive, Alive, Data
<1> QED BY <1>1 DEF Ack

LEMMA InReceives ==
  ASSUME InInv, NEW p, ReceiveData(p) PROVE InInv'
<1>1. Numbered(offered) /\ SentFacts(offered, SwitchWindow) BY InFacts DEF InInv
<1>2. PICK lo, next, H : InAt(lo, next, H) BY DEF InInv
<1> DEFINE N == Len(offered)
           St(r, n, G) == StreamAt(swSend, r, offered, SwitchWindow, "sim", wire, lo, n, G)
<1>3. /\ p \in wire /\ p.to = "sim" /\ p.kind = "data"
      /\ IF Fresh(filter, p.seq)
         THEN filter' = NoteInSeq(filter, p.seq) /\ forwarded' = Append(forwarded, p.body)
         ELSE filter' = filter /\ forwarded' = forwarded
      /\ rcv' = NoteReceived(rcv, p.seq, p.body) /\ wire' = wire \ {p}
      /\ swSend' = swSend /\ offered' = offered
  BY DEF ReceiveData, swVars
<1>4. St(rcv, next, H) /\ Got(next, H) = Handed(forwarded) /\ Filters(filter, forwarded, N)
  BY <1>2 DEF InAt
<1>5. /\ N \in Nat /\ next \in Nat /\ next <= N /\ N - next <= SwitchWindow
  BY <1>1, <1>4, StreamSizes
<1>6. (0..(next - 1)) \subseteq Handed(forwarded) BY <1>4 DEF Got
<1>7. PICK k, next2, H2 : Arrives(swSend, rcv, offered, SwitchWindow, "sim", wire, p, lo, next, H, k, next2, H2)
  BY <1>1, <1>3, <1>4, StreamReceives
<1>8. /\ k \in 0..(N - 1) /\ N - k <= Lifetime /\ p.seq = Nth(k) /\ p.body = offered[k + 1]
      /\ Got(next2, H2) = Handed(forwarded) \cup {k} /\ St(rcv', next2, H2)
  BY <1>3, <1>4, <1>7 DEF Arrives
<1>9. p.body = <<k + 1, 0>>
  <2>1. k + 1 \in 1..N BY <1>5, <1>8
  <2> QED BY <1>1, <1>8, <2>1 DEF Numbered
<1>10. Fresh(filter, p.seq) <=> k \notin Handed(forwarded)
  BY <1>4, <1>5, <1>6, <1>8, FreshIsNew
<1>11. Filters(filter', forwarded', N) /\ Handed(forwarded') = Got(next2, H2)
  <2>1. CASE k \in Handed(forwarded)
    <3>1. filter' = filter /\ forwarded' = forwarded BY <1>3, <1>10, <2>1
    <3>2. Handed(forwarded) \cup {k} = Handed(forwarded) BY <2>1
    <3> QED BY <1>4, <1>8, <3>1, <3>2
  <2>2. CASE k \notin Handed(forwarded)
    <3>1. filter' = NoteInSeq(filter, Nth(k)) /\ forwarded' = Append(forwarded, <<k + 1, 0>>)
      BY <1>3, <1>8, <1>9, <1>10, <2>2
    <3>2. /\ Filters(NoteInSeq(filter, Nth(k)), Append(forwarded, <<k + 1, 0>>), N)
          /\ Handed(Append(forwarded, <<k + 1, 0>>)) = Handed(forwarded) \cup {k}
      <4>1. k \in 0..(N - 1) /\ N - k <= Lifetime BY <1>8
      <4>2. Filters(filter, forwarded, N) BY <1>4
      <4> HIDE DEF N
      <4> QED BY <1>5, <1>6, <2>2, <4>1, <4>2, NotesFresh
    <3> QED BY <1>8, <3>1, <3>2
  <2> QED BY <2>1, <2>2
<1>12. StreamAt(swSend, rcv', offered, SwitchWindow, "sim", wire', lo, next2, H2)
  <2>1. wire' \ wire = {} BY <1>3
  <2>2. \A o \in wire' \ wire : /\ o.to = "sim" /\ o.kind = "data" => FrameAt(o, offered)
                                /\ o.to # "sim" /\ o.kind # "data" => AckAt(o, offered, next2, H2)
    BY <2>1
  <2> QED BY <1>8, <2>2, StreamAir
<1>13. InAt(lo, next2, H2)' BY <1>3, <1>11, <1>12 DEF InAt
<1>14. Numbered(offered)' BY <1>1, <1>3 DEF Numbered
<1> QED BY <1>13, <1>14 DEF InInv

LEMMA InSends ==
  ASSUME InInv, SwitchSends PROVE InInv'
<1>1. Numbered(offered) /\ SentFacts(offered, SwitchWindow) BY InFacts DEF InInv
<1>2. PICK lo, next, H : InAt(lo, next, H) BY DEF InInv
<1> DEFINE N == Len(offered)
           n == <<N + 1, 0>>
           t == Queue(swSend, <<n>>)
<1>3. /\ Inflight(swSend) < SwitchWindow /\ swSend' = t /\ offered' = Append(offered, n)
      /\ wire' = Alive(wire, "sim", swSend'.out) \cup {Data("sim", swSend.out, n)}
      /\ UNCHANGED <<rcv, filter, forwarded>>
  BY DEF SwitchSends, simVars
<1>4. /\ StreamAt(swSend, rcv, offered, SwitchWindow, "sim", wire, lo, next, H)
      /\ Got(next, H) = Handed(forwarded) /\ Filters(filter, forwarded, N)
  BY <1>2 DEF InAt
<1>5. /\ N \in Nat /\ SwitchWindow \in Nat /\ Inflight(swSend) = N - lo /\ lo \in Nat /\ offered \in Seq(Bodies)
      /\ Lifetime \in Nat /\ 1 <= Lifetime
  <2>1. /\ N \in Nat /\ SwitchWindow \in Nat /\ Inflight(swSend) = N - lo /\ lo \in Nat
    BY <1>1, <1>4, StreamSizes
  <2>2. Lifetime \in Nat /\ 1 <= Lifetime BY Sizes
  <2> QED BY <1>1, <2>1, <2>2 DEF Numbered
<1>6. n \in Bodies /\ <<n>> \in Seq(Bodies) /\ Len(<<n>>) = 1
  <2>1. n \in Bodies BY <1>5 DEF Bodies
  <2> HIDE DEF n
  <2> QED BY <2>1
<1>7. /\ Append(offered, n) = offered \o <<n>> /\ Len(Append(offered, n)) = N + 1
      /\ Append(offered, n)[N + 1] = n /\ \A i \in 1..N : Append(offered, n)[i] = offered[i]
      /\ Append(offered, n) \in Seq(Bodies)
  <2> HIDE DEF n
  <2> QED BY <1>5, <1>6
<1>8. Len(<<n>>) <= SwitchWindow - Inflight(swSend)
  <2> HIDE DEF n
  <2> QED BY <1>3, <1>5, <1>6
<1> HIDE DEF t
<1>9. StreamAt(t, rcv, offered', SwitchWindow, "sim", Alive(wire, "sim", t.out), lo, next, H)
  <2>1. StreamAt(t, rcv, offered \o <<n>>, SwitchWindow, "sim", Alive(wire, "sim", t.out), lo, next, H)
    BY <1>1, <1>4, <1>6, <1>8, StreamQueues DEF t
  <2> QED BY <1>3, <1>7, <2>1
<1>10. FrameAt(Data("sim", swSend.out, n), offered')
  <2>1. swSend.out = Nth(N) BY <1>4 DEF StreamAt, Sends
  <2>2. Len(offered') = N + 1 /\ offered'[N + 1] = n BY <1>3, <1>7
  <2>3. Data("sim", swSend.out, n).seq = Nth(N) /\ Data("sim", swSend.out, n).body = n
    BY <2>1 DEF Data
  <2>4. N \in 0..(Len(offered') - 1) /\ Len(offered') - N <= Lifetime BY <1>5, <2>2
  <2> QED BY <2>2, <2>3, <2>4 DEF FrameAt
<1>11. StreamAt(swSend', rcv', offered', SwitchWindow, "sim", wire', lo, next, H)
  <2>1. Data("sim", swSend.out, n).to = "sim" /\ Data("sim", swSend.out, n).kind = "data" BY DEF Data
  <2>2. \A o \in wire' \ Alive(wire, "sim", t.out) :
          /\ o.to = "sim" /\ o.kind = "data" => FrameAt(o, offered')
          /\ o.to # "sim" /\ o.kind # "data" => AckAt(o, offered', next, H)
    BY <1>3, <1>10, <2>1
  <2>3. StreamAt(t, rcv, offered', SwitchWindow, "sim", wire', lo, next, H)
    BY <1>9, <2>2, StreamAir
  <2> QED BY <1>3, <2>3
<1>12. Filters(filter, forwarded, Len(offered'))
  <2>1. Len(offered') = N + 1 BY <1>3, <1>7
  <2> QED BY <1>4, <1>5, <2>1, FiltersMore
<1>13. InAt(lo, next, H)' BY <1>3, <1>4, <1>11, <1>12 DEF InAt
<1>14. Numbered(offered)'
  <2>1. \A i \in 1..(N + 1) : i \in 1..N \/ i = N + 1 BY <1>5
  <2> QED BY <1>1, <1>3, <1>7, <2>1 DEF Numbered
<1> QED BY <1>13, <1>14 DEF InInv

LEMMA InKept ==
  ASSUME InInv, [LinkNext]_vars PROVE InInv'
<1>1. Numbered(offered) /\ SentFacts(offered, SwitchWindow) BY InFacts DEF InInv
<1>2. PICK lo, next, H : InAt(lo, next, H) BY DEF InInv
<1>3. /\ StreamAt(swSend, rcv, offered, SwitchWindow, "sim", wire, lo, next, H)
      /\ Got(next, H) = Handed(forwarded) /\ Filters(filter, forwarded, Len(offered))
  BY <1>2 DEF InAt
<1>4. ASSUME UNCHANGED <<offered, rcv, filter, forwarded>>, NEW lo2,
             StreamAt(swSend', rcv, offered, SwitchWindow, "sim", wire, lo2, next, H),
             \A p \in wire' \ wire : /\ p.to = "sim" /\ p.kind = "data" => FrameAt(p, offered)
                                     /\ p.to # "sim" /\ p.kind # "data" => AckAt(p, offered, next, H)
      PROVE  InInv'
  <2>1. StreamAt(swSend', rcv', offered', SwitchWindow, "sim", wire', lo2, next, H)
    BY <1>4, StreamAir
  <2>2. InAt(lo2, next, H)' BY <1>3, <1>4, <2>1 DEF InAt
  <2>3. Numbered(offered)' BY <1>1, <1>4 DEF Numbered
  <2> QED BY <2>2, <2>3 DEF InInv
<1>5. ASSUME UNCHANGED <<offered, rcv, filter, forwarded, swSend>>,
             \A p \in wire' \ wire : /\ p.to = "sim" /\ p.kind = "data" => FrameAt(p, offered)
                                     /\ p.to # "sim" /\ p.kind # "data" => AckAt(p, offered, next, H)
      PROVE  InInv'
  BY <1>3, <1>4, <1>5
<1>6. CASE \E p \in wire : ReceiveData(p) BY <1>6, InReceives
<1>7. CASE SwitchSends BY <1>7, InSends
<1>8. CASE DriveStep
  <2>1. PICK elapsed, period, lost : Drive(elapsed, period, lost) BY <1>8 DEF DriveStep
  <2>2. UNCHANGED <<offered, rcv, filter, forwarded, swSend>> BY <2>1 DEF Drive, swVars
  <2>3. \A p \in wire' \ wire : p.to = "switch" /\ (p.kind = "data" \/ p = Ack("switch", rcv))
    BY <2>1, DriveWire
  <2>4. AckAt(Ack("switch", rcv), offered, next, H)
    <3>1. Receives(rcv, offered, next, H) BY <1>3 DEF StreamAt
    <3>2. Len(offered) - next <= SwitchWindow BY <1>1, <1>3, StreamSizes
    <3> QED BY <1>1, <3>1, <3>2, AckSays
  <2> QED BY <1>5, <2>2, <2>3, <2>4
<1>9. CASE SwitchResendStep
  <2>1. PICK q \in Slots(swSend) : SwitchResends(q) BY <1>9 DEF SwitchResendStep
  <2>2. /\ UNCHANGED <<offered, rcv, filter, forwarded, swSend>>
        /\ wire' = wire \cup {Data("sim", q, swSend.unacked[q].body)}
    BY <2>1 DEF SwitchResends, simVars, swVars, history
  <2>3. Sends(swSend, offered, SwitchWindow, lo) BY <1>3 DEF StreamAt
  <2>4. FrameAt(Data("sim", q, swSend.unacked[q].body), offered) BY <1>1, <2>3, StreamData
  <2>5. Data("sim", q, swSend.unacked[q].body).kind = "data" BY DEF Data
  <2> QED BY <1>5, <2>2, <2>4, <2>5
<1>10. CASE \E p \in wire : SwitchReceivesData(p)
  <2>1. PICK p \in wire : SwitchReceivesData(p) BY <1>10
  <2>2. UNCHANGED <<offered, rcv, filter, forwarded, swSend>> /\ wire' = (wire \ {p}) \cup {Ack("sim", swRcv')}
    BY <2>1 DEF SwitchReceivesData, simVars
  <2>3. Ack("sim", swRcv').to = "sim" /\ Ack("sim", swRcv').kind = "ack" BY DEF Ack
  <2> QED BY <1>5, <2>2, <2>3
<1>11. CASE \E p \in wire : SwitchReceivesAck(p)
  <2>1. PICK p \in wire : SwitchReceivesAck(p) BY <1>11
  <2>2. /\ UNCHANGED <<offered, rcv, filter, forwarded>> /\ wire' = wire \ {p}
        /\ swSend' = OnAck(swSend, p.seq, p.mask, 1) /\ p.to = "switch" /\ p.kind = "ack"
    BY <2>1 DEF SwitchReceivesAck, simVars, history
  <2>3. p.to # "sim" /\ p.kind # "data" BY <2>2
  <2>4. PICK lo2 \in Nat : StreamAt(OnAck(swSend, p.seq, p.mask, 1), rcv, offered, SwitchWindow, "sim", wire,
                                    lo2, next, H)
    BY <1>1, <1>3, <2>3, StreamAcked
  <2> QED BY <1>4, <2>2, <2>4
<1>12. CASE LoseFrame \/ \E p \in wire : ReceiveAck(p)
  <2>1. UNCHANGED <<offered, rcv, filter, forwarded, swSend>> /\ wire' \subseteq wire
    BY <1>12 DEF LoseFrame, ReceiveAck, simVars, swVars, history
  <2> QED BY <1>5, <2>1
<1>13. CASE PiaStep \/ BridgeFrame \/ BridgeReset \/ BridgeUp \/ UNCHANGED vars
  <2>1. UNCHANGED <<offered, rcv, filter, forwarded, swSend, wire>>
    BY <1>13 DEF PiaStep, BridgeFrame, BridgeReset, BridgeUp, vars, linkVars, simVars, swVars, history
  <2> QED BY <1>5, <2>1
<1> QED BY <1>6, <1>7, <1>8, <1>9, <1>10, <1>11, <1>12, <1>13 DEF LinkNext

-----------------------------------------------------------------------------
(* Every step keeps the stream to the Switch.                              *)

LEMMA Beginnings ==
  ASSUME NEW S, NEW s \in Seq(S), NEW a \in Nat, a <= Len(s)
  PROVE  /\ SubSeq(s, 1, a) \in Seq(S) /\ Len(SubSeq(s, 1, a)) = a
         /\ \A i \in 1..a : SubSeq(s, 1, a)[i] = s[i]
         /\ \A t \in Seq(S) : SubSeq(s \o t, 1, a) = SubSeq(s, 1, a)
         /\ \A b \in Nat : a <= b /\ b <= Len(s) => SubSeq(s, 1, a) \o SubSeq(s, a + 1, b) = SubSeq(s, 1, b)
<1>1. \A u \in Seq(S), x \in Nat : x <= Len(u) =>
        /\ SubSeq(u, 1, x) \in Seq(S) /\ Len(SubSeq(u, 1, x)) = x
        /\ \A i \in 1..x : SubSeq(u, 1, x)[i] = u[i]
  OBVIOUS
<1>2. ASSUME NEW t \in Seq(S) PROVE SubSeq(s \o t, 1, a) = SubSeq(s, 1, a)
  <2>1. s \o t \in Seq(S) /\ a <= Len(s \o t) /\ \A i \in 1..a : (s \o t)[i] = s[i] BY JoinIs
  <2>2. /\ SubSeq(s \o t, 1, a) \in Seq(S) /\ Len(SubSeq(s \o t, 1, a)) = a
        /\ \A i \in 1..a : SubSeq(s \o t, 1, a)[i] = (s \o t)[i]
    BY <1>1, <2>1
  <2> QED BY <1>1, <2>1, <2>2, SeqEqual
<1>3. ASSUME NEW b \in Nat, a <= b, b <= Len(s)
      PROVE  SubSeq(s, 1, a) \o SubSeq(s, a + 1, b) = SubSeq(s, 1, b)
  <2> DEFINE f == SubSeq(s, 1, a)
             g == SubSeq(s, a + 1, b)
             h == SubSeq(s, 1, b)
  <2>1. f \in Seq(S) /\ Len(f) = a /\ \A i \in 1..a : f[i] = s[i] BY <1>1
  <2>2. h \in Seq(S) /\ Len(h) = b /\ \A i \in 1..b : h[i] = s[i] BY <1>1, <1>3
  <2>3. g \in Seq(S) /\ Len(g) = b - a /\ \A i \in 1..(b - a) : g[i] = s[a + i]
    <3>1. CASE a = b
      <4>1. g = <<>> /\ b - a = 0 BY <3>1
      <4> HIDE DEF g
      <4> QED BY <4>1
    <3>2. CASE a < b
      <4>1. a + 1 \in 1..Len(s) /\ b \in (a + 1)..Len(s) BY <1>3, <3>2
      <4> QED BY <4>1
    <3> QED BY <1>3, <3>1, <3>2
  <2> HIDE DEF f, g, h
  <2>4. /\ f \o g \in Seq(S) /\ Len(f \o g) = b
        /\ \A i \in 1..b : (f \o g)[i] = s[i]
    <3>1. /\ f \o g \in Seq(S) /\ Len(f \o g) = Len(f) + Len(g)
          /\ \A i \in 1..Len(f) : (f \o g)[i] = f[i]
          /\ \A i \in 1..Len(g) : (f \o g)[Len(f) + i] = g[i]
      <4>1. f \in Seq(S) /\ g \in Seq(S) BY <2>1, <2>3
      <4> QED BY <4>1, JoinIs
    <3>2. ASSUME NEW i \in 1..b PROVE (f \o g)[i] = s[i]
      <4>0. i \in Int /\ a \in Int /\ b \in Int /\ 1 <= i /\ i <= b BY <3>2
      <4>1. CASE i <= a
        <5>1. i \in 1..a /\ i \in 1..Len(f) BY <2>1, <4>0, <4>1
        <5> QED BY <2>1, <3>1, <5>1
      <4>2. CASE a < i
        <5> DEFINE j == i - a
        <5>1. j \in 1..(b - a) /\ a + j = i BY <4>0, <4>2
        <5> HIDE DEF j
        <5>2. g[j] = s[a + j] BY <2>3, <5>1
        <5>3. (f \o g)[Len(f) + j] = g[j] BY <2>3, <3>1, <5>1
        <5> QED BY <2>1, <5>1, <5>2, <5>3
      <4>3. i <= a \/ a < i BY <4>0
      <4> QED BY <4>1, <4>2, <4>3
    <3>3. Len(f \o g) = b BY <1>3, <2>1, <2>3, <3>1
    <3> QED BY <3>1, <3>2, <3>3
  <2>5. f \o g = h BY <2>2, <2>4, SeqEqual
  <2> QED BY <2>5 DEF f, g, h
<1> QED BY <1>1, <1>2, <1>3

LEMMA OutReceives ==
  ASSUME Traffic, OutInv, NEW p, SwitchReceivesData(p) PROVE OutInv'
<1>1. SentFacts(queued, Window) BY OutFacts
<1>2. PICK lo, next, H : OutAt(lo, next, H) BY DEF OutInv
<1>3. /\ p \in wire /\ p.to = "switch" /\ p.kind = "data"
      /\ shown' = shown \o OnData(swRcv, p.seq, p.body)
      /\ swRcv' = NoteReceived(swRcv, p.seq, p.body)
      /\ wire' = (wire \ {p}) \cup {Ack("sim", swRcv')}
      /\ queued' = queued /\ rel' = rel
  BY DEF SwitchReceivesData, simVars
<1>4. StreamAt(rel, swRcv, queued, Window, "switch", wire, lo, next, H) /\ shown = SubSeq(queued, 1, next)
  BY <1>2 DEF OutAt
<1>5. /\ Len(queued) \in Nat /\ next \in Nat /\ next <= Len(queued)
  BY <1>1, <1>4, StreamSizes
<1>6. PICK k, next2, H2 : Arrives(rel, swRcv, queued, Window, "switch", wire, p, lo, next, H, k, next2, H2)
  BY <1>1, <1>3, <1>4, StreamReceives
<1>7. /\ next2 \in Nat /\ next <= next2
      /\ StreamAt(rel, swRcv', queued, Window, "switch", wire, lo, next2, H2)
      /\ shown' = shown \o SubSeq(queued, next + 1, next2)
  BY <1>3, <1>6 DEF Arrives
<1>8. next2 <= Len(queued) /\ Len(queued) - next2 <= Window BY <1>1, <1>7, StreamSizes
<1>9. shown' = SubSeq(queued, 1, next2)
  BY <1>1, <1>4, <1>5, <1>7, <1>8, Beginnings DEF SentFacts
<1>10. StreamAt(rel, swRcv', queued, Window, "switch", wire', lo, next2, H2)
  <2>1. Receives(swRcv', queued, next2, H2) BY <1>7 DEF StreamAt
  <2>2. AckAt(Ack("sim", swRcv'), queued, next2, H2) BY <1>1, <1>8, <2>1, AckSays
  <2>3. Ack("sim", swRcv').kind = "ack" BY DEF Ack
  <2>4. \A o \in wire' \ wire : /\ o.to = "switch" /\ o.kind = "data" => FrameAt(o, queued)
                                /\ o.to # "switch" /\ o.kind # "data" => AckAt(o, queued, next2, H2)
    BY <1>3, <2>2, <2>3
  <2> QED BY <1>7, <2>4, StreamAir
<1>11. OutAt(lo, next2, H2)' BY <1>3, <1>9, <1>10 DEF OutAt
<1> QED BY <1>11 DEF OutInv

LEMMA OutDrives ==
  ASSUME Traffic, OutInv, NEW elapsed, NEW period \in BOOLEAN, NEW lost \in BOOLEAN,
         Drive(elapsed, period, lost)
  PROVE  OutInv'
<1>1. SentFacts(queued, Window) /\ Room \in Nat BY OutFacts, RoomIs
<1>2. PICK lo, next, H : OutAt(lo, next, H) BY DEF OutInv
<1> DEFINE resends == DueRetransmits(rel, elapsed, Limit, DupNacks)
           backlog == Backlog \o Polled(lost)
           new == FirstOf(backlog, Room)
           mid == Resent(rel, resends)
           acks == (role = "parent" \/ period) /\ (ackOwed \/ rcv.held # <<>>)
<1>3. StreamAt(rel, swRcv, queued, Window, "switch", wire, lo, next, H) /\ shown = SubSeq(queued, 1, next)
  BY <1>2 DEF OutAt
<1>4. new \in Seq(Bodies) /\ Len(new) <= Room
  <2>1. backlog \in Seq(Bodies) BY PolledRises DEF Rising
  <2> HIDE DEF backlog
  <2>2. Len(new) = IF Room <= Len(backlog) THEN Room ELSE Len(backlog) BY <1>1, <2>1, FirstOfIs
  <2>3. new \in Seq(Bodies) BY <1>1, <2>1, FirstOfIs
  <2>4. Len(backlog) \in Nat BY <2>1
  <2> HIDE DEF new
  <2> QED BY <1>1, <2>2, <2>3, <2>4
<1>5. resends \subseteq Slots(rel) BY DEF DueRetransmits
<1>6. /\ UNCHANGED <<swRcv, shown>>
      /\ \/ UNCHANGED <<rel, queued, wire>>
         \/ /\ rel' = Queue(mid, new) /\ queued' = queued \o new
            /\ wire' = Alive(wire, "switch", rel'.out)
                         \cup {Data("switch", q, rel'.unacked[q].body) :
                                 q \in resends \cup (Slots(rel') \ Slots(rel))}
                         \cup (IF acks THEN {Ack("switch", rcv)} ELSE {})
  BY DEF Drive, swVars
<1> HIDE DEF resends, backlog, new, acks
<1>7. CASE UNCHANGED <<rel, queued, wire>>
  <2>1. OutAt(lo, next, H)' BY <1>3, <1>6, <1>7 DEF OutAt
  <2> QED BY <2>1 DEF OutInv
<1>8. CASE ~UNCHANGED <<rel, queued, wire>>
  <2>1. StreamAt(mid, swRcv, queued, Window, "switch", wire, lo, next, H) /\ Slots(mid) = Slots(rel)
    BY <1>1, <1>3, StreamResends
  <2>2. Inflight(mid) = Inflight(rel) BY <2>1 DEF Inflight
  <2> HIDE DEF mid
  <2>3. Len(new) <= Window - Inflight(mid) BY <1>4, <2>2 DEF Room
  <2>4. /\ SentFacts(queued', Window)
        /\ StreamAt(rel', swRcv, queued', Window, "switch", Alive(wire, "switch", rel'.out), lo, next, H)
    <3>1. rel' = Queue(mid, new) /\ queued' = queued \o new BY <1>6, <1>8
    <3>2. /\ SentFacts(queued \o new, Window)
          /\ StreamAt(Queue(mid, new), swRcv, queued \o new, Window, "switch",
                      Alive(wire, "switch", Queue(mid, new).out), lo, next, H)
      BY <1>1, <1>4, <2>1, <2>3, StreamQueues
    <3> QED BY <3>1, <3>2
  <2>5. Slots(rel) \subseteq Slots(rel')
    <3>1. Slots(rel) = IdsOf(lo..(Len(queued) - 1)) /\ Len(queued) \in Nat /\ lo \in Nat
      BY <1>1, <1>3, StreamSizes
    <3>2. Slots(rel') = IdsOf(lo..(Len(queued') - 1)) /\ Len(queued') \in Nat BY <2>4, StreamSizes
    <3>3. Len(queued) <= Len(queued')
      <4>1. queued \in Seq(Bodies) BY <1>1 DEF SentFacts
      <4>2. Len(queued \o new) = Len(queued) + Len(new) /\ Len(new) \in Nat BY <1>4, <4>1, JoinIs
      <4> QED BY <1>6, <1>8, <3>1, <4>2
    <3>4. (lo..(Len(queued) - 1)) \subseteq (lo..(Len(queued') - 1)) BY <3>1, <3>2, <3>3
    <3> QED BY <3>1, <3>2, <3>4 DEF IdsOf
  <2>6. Sends(rel', queued', Window, lo) BY <2>4 DEF StreamAt
  <2>7. \A q \in Slots(rel') : FrameAt(Data("switch", q, rel'.unacked[q].body), queued')
    BY <2>4, <2>6, StreamData
  <2>8. \A q : Data("switch", q, rel'.unacked[q].body).to = "switch" BY DEF Data
  <2>9. Ack("switch", rcv).to = "switch" /\ Ack("switch", rcv).kind = "ack" BY DEF Ack
  <2>10. \A o \in wire' \ Alive(wire, "switch", rel'.out) :
           /\ o.to = "switch" /\ o.kind = "data" => FrameAt(o, queued')
           /\ o.to # "switch" /\ o.kind # "data" => AckAt(o, queued', next, H)
    BY <1>5, <1>6, <1>8, <2>5, <2>7, <2>8, <2>9
  <2>11. StreamAt(rel', swRcv, queued', Window, "switch", wire', lo, next, H) BY <2>4, <2>10, StreamAir
  <2>12. shown = SubSeq(queued', 1, next)
    <3>1. queued \in Seq(Bodies) /\ next \in Nat /\ next <= Len(queued)
      BY <1>1, <1>3, StreamSizes DEF SentFacts
    <3> QED BY <1>3, <1>4, <1>6, <1>8, <3>1, Beginnings
  <2>13. OutAt(lo, next, H)' BY <1>6, <2>11, <2>12 DEF OutAt
  <2> QED BY <2>13 DEF OutInv
<1> QED BY <1>7, <1>8

LEMMA OutKept ==
  ASSUME Traffic, OutInv, [LinkNext]_vars PROVE OutInv'
<1>1. SentFacts(queued, Window) BY OutFacts
<1>2. PICK lo, next, H : OutAt(lo, next, H) BY DEF OutInv
<1>3. StreamAt(rel, swRcv, queued, Window, "switch", wire, lo, next, H) /\ shown = SubSeq(queued, 1, next)
  BY <1>2 DEF OutAt
<1>4. ASSUME UNCHANGED <<queued, swRcv, shown>>, NEW lo2,
             StreamAt(rel', swRcv, queued, Window, "switch", wire, lo2, next, H),
             \A p \in wire' \ wire : p.to = "sim" /\ p.kind = "data"
      PROVE  OutInv'
  <2>1. \A p \in wire' \ wire : /\ p.to = "switch" /\ p.kind = "data" => FrameAt(p, queued)
                                /\ p.to # "switch" /\ p.kind # "data" => AckAt(p, queued, next, H)
    BY <1>4
  <2>2. StreamAt(rel', swRcv', queued', Window, "switch", wire', lo2, next, H)
    BY <1>4, <2>1, StreamAir
  <2>3. OutAt(lo2, next, H)' BY <1>3, <1>4, <2>2 DEF OutAt
  <2> QED BY <2>3 DEF OutInv
<1>5. ASSUME UNCHANGED <<queued, swRcv, shown, rel>>, \A p \in wire' \ wire : p.to = "sim" /\ p.kind = "data"
      PROVE  OutInv'
  BY <1>3, <1>4, <1>5
<1>6. CASE \E p \in wire : SwitchReceivesData(p) BY <1>6, OutReceives
<1>7. CASE DriveStep
  <2>1. PICK elapsed \in Timeouts, period \in BOOLEAN, lost \in BOOLEAN : Drive(elapsed, period, lost) BY <1>7 DEF DriveStep
  <2> QED BY <2>1, OutDrives
<1>8. CASE \E p \in wire : ReceiveAck(p)
  <2>1. PICK p \in wire : ReceiveAck(p) BY <1>8
  <2>2. /\ UNCHANGED <<queued, swRcv, shown>> /\ wire' = wire \ {p}
        /\ rel' = OnAck(rel, p.seq, p.mask, DupNacks) /\ p.to = "sim" /\ p.kind = "ack"
    BY <2>1 DEF ReceiveAck, swVars, history
  <2>3. p.to # "switch" /\ p.kind # "data" BY <2>2
  <2>4. PICK lo2 \in Nat : StreamAt(OnAck(rel, p.seq, p.mask, DupNacks), swRcv, queued, Window, "switch", wire,
                                    lo2, next, H)
    BY <1>1, <1>3, <2>3, StreamAcked
  <2> QED BY <1>4, <2>2, <2>4
<1>9. CASE SwitchSends \/ SwitchResendStep
  <2>1. UNCHANGED <<queued, swRcv, shown, rel>>
    BY <1>9 DEF SwitchSends, SwitchResendStep, SwitchResends, simVars, swVars, history
  <2>2. \E air2, q, body : air2 \subseteq wire /\ wire' = air2 \cup {Data("sim", q, body)}
    BY <1>9 DEF SwitchSends, SwitchResendStep, SwitchResends, Alive
  <2> QED BY <1>5, <2>1, <2>2 DEF Data
<1>10. CASE LoseFrame \/ \E p \in wire : ReceiveData(p) \/ SwitchReceivesAck(p)
  <2>1. UNCHANGED <<queued, swRcv, shown, rel>> /\ wire' \subseteq wire
    BY <1>10 DEF LoseFrame, ReceiveData, SwitchReceivesAck, simVars, swVars, history
  <2> QED BY <1>5, <2>1
<1>11. CASE PiaStep \/ BridgeFrame \/ BridgeReset \/ BridgeUp \/ UNCHANGED vars
  <2>1. UNCHANGED <<queued, swRcv, shown, rel, wire>>
    BY <1>11 DEF PiaStep, BridgeFrame, BridgeReset, BridgeUp, vars, linkVars, simVars, swVars, history
  <2> QED BY <1>5, <2>1
<1> QED BY <1>6, <1>7, <1>8, <1>9, <1>10, <1>11 DEF LinkNext

-----------------------------------------------------------------------------
(* The invariant holds at all times.                                       *)

LEMMA NothingSent ==
  ASSUME NEW W, W \in Nat, W <= Lifetime, W <= MaskBits, NEW to
  PROVE  StreamAt(NewSender, NewReceiver, <<>>, W, to, {}, 0, 0, {})
<1>1. Len(<<>>) = 0 /\ IdsOf({}) = {} /\ 0..(0 - 1) = {} /\ (0 + 1)..(0 - 1) = {} BY DEF IdsOf
<1>2. Nth(0) = Start
  <2>1. Start \in 0..(SeqSpace - 1) /\ SeqSpace * 0 + Start = Start /\ Start + 0 = Start BY Sizes
  <2>2. (SeqSpace * 0 + Start) % SeqSpace = Start BY <2>1, RemainderOf
  <2> QED BY <2>1, <2>2 DEF Nth, Plus
<1>3. DOMAIN <<>> = {} OBVIOUS
<1>4. \A S : <<>> \in [{} -> S] BY <1>3
<1>5. Sends(NewSender, <<>>, W, 0) BY <1>1, <1>2, <1>4 DEF Sends, NewSender
<1>6. Receives(NewReceiver, <<>>, 0, {}) BY <1>1, <1>2, <1>4 DEF Receives, NewReceiver
<1>7. Confirms(NewSender, <<>>, 0, 0, {}) BY <1>1 DEF Confirms
<1>8. OnAir({}, to, <<>>, 0, {}) BY DEF OnAir
<1> QED BY <1>5, <1>6, <1>7, <1>8 DEF StreamAt

LEMMA LinkStarts == LinkInit => IndInv
<1> SUFFICES ASSUME LinkInit PROVE IndInv OBVIOUS
<1>1. PiaInv
  <2>1. role \in {"child", "parent"} /\ air = {} /\ losses = 0 /\ MaxLosses \in Nat
    BY PiaAssumption DEF LinkInit, PiaInit
  <2>2. conn = (IF role = "child" THEN "net" ELSE "announce") /\ switch = (IF role = "child" THEN "announce" ELSE "idle")
    BY DEF LinkInit, PiaInit
  <2> QED BY <2>1, <2>2 DEF PiaInv, PiaTypeOK, UpMeansFinalized, PiaUp, Stages, SwitchStages
<1>2. /\ rel = NewSender /\ swSend = NewSender /\ rcv = NewReceiver /\ swRcv = NewReceiver
      /\ filter = NewFilter /\ ackOwed = FALSE /\ pending = <<>> /\ myGen = 0 /\ failed = FALSE
      /\ bridge = [up |-> TRUE, gen |-> 0, inbox |-> <<>>, next |-> 1] /\ wire = {}
      /\ offered = <<>> /\ forwarded = <<>> /\ queued = <<>> /\ shown = <<>>
  BY DEF LinkInit
<1>3. Traffic
  <2>1. MaxPending \in Nat /\ InboxLimit \in Nat /\ MaxResets \in Nat BY LimitAssumption
  <2>2. Len(<<>>) <= InboxLimit /\ Len(<<>>) <= MaxPending /\ 0 \in 0..MaxResets BY <2>1, NothingRises
  <2>3. BridgeInv BY <1>2, <2>2, NothingRises DEF BridgeInv
  <2>4. BacklogInv BY <1>2, <2>2, NothingRises DEF BacklogInv
  <2>5. QueuedInv BY <1>2, NothingRises DEF QueuedInv
  <2> QED BY <1>2, <2>3, <2>4, <2>5 DEF Traffic, FlagsInv
<1>4. InInv
  <2>1. StreamAt(swSend, rcv, offered, SwitchWindow, "sim", wire, 0, 0, {})
    BY <1>2, Sizes, NothingSent
  <2>2. Got(0, {}) = {} /\ Handed(<<>>) = {} BY DEF Got, Handed
  <2>3. Filters(filter, <<>>, 0)
    <3>1. /\ <<>> \in Seq(Bodies) /\ <<>> \in Seq(SeqId) /\ Len(<<>>) = 0 /\ DedupLimit \in Nat /\ 1..0 = {}
      BY Sizes
    <3>2. filter.seen = <<>> /\ filter.last = NoSeq BY <1>2 DEF NewFilter
    <3>3. HandedOn(<<>>, 0) BY <3>1 DEF HandedOn, NearlyOrdered
    <3>4. SeenIs(filter, <<>>) BY <3>1, <3>2 DEF SeenIs
    <3>5. LastIs(filter, <<>>) BY <3>2 DEF LastIs
    <3> QED BY <3>3, <3>4, <3>5 DEF Filters
  <2>4. Len(offered) = 0 /\ Numbered(offered) BY <1>2 DEF Numbered
  <2>5. InAt(0, 0, {}) BY <1>2, <2>1, <2>2, <2>3, <2>4 DEF InAt
  <2> QED BY <2>4, <2>5 DEF InInv
<1>5. OutInv
  <2>1. StreamAt(rel, swRcv, queued, Window, "switch", wire, 0, 0, {})
    BY <1>2, Sizes, NothingSent
  <2>2. SubSeq(<<>>, 1, 0) = <<>> OBVIOUS
  <2>3. OutAt(0, 0, {}) BY <1>2, <2>1, <2>2 DEF OutAt
  <2> QED BY <2>3 DEF OutInv
<1> QED BY <1>1, <1>3, <1>4, <1>5 DEF IndInv

LEMMA LinkSteps == IndInv /\ [LinkNext]_vars => IndInv'
  BY PiaKept, TrafficKept, InKept, OutKept DEF IndInv

(* At all times each half of both streams is where the frames it has sent  *)
(* and received put it.                                                    *)
THEOREM LinkInvariance == LinkSpec => []IndInv
  BY LinkStarts, LinkSteps, PTL DEF LinkSpec

-----------------------------------------------------------------------------
(* What the invariant says.                                                *)

LEMMA SendHalf ==
  ASSUME NEW s, NEW r, NEW sent, NEW W, NEW to, NEW packets, NEW lo, NEW next, NEW H, SentFacts(sent, W),
         StreamAt(s, r, sent, W, to, packets, lo, next, H)
  PROVE  /\ s.out \in SeqId /\ s.lo \in SeqId /\ Slots(s) \subseteq SeqId /\ s.gap \in SeqId \cup {NoSeq}
         /\ Inflight(s) = Ahead(s.lo, s.out) /\ Inflight(s) <= W
         /\ r.next \in SeqId /\ DOMAIN r.held \subseteq SeqId \ {r.next}
<1>1. /\ Len(sent) \in Nat /\ W \in Nat /\ lo \in Nat /\ next \in Nat /\ lo <= next /\ next <= Len(sent)
      /\ Len(sent) - lo <= W /\ Len(sent) - next <= W /\ W <= Lifetime /\ Lifetime \in Nat
      /\ Lifetime < Half /\ Half \in Nat /\ SeqSpace = 2 * Half
      /\ H \subseteq ((next + 1)..(Len(sent) - 1))
      /\ Slots(s) = IdsOf(lo..(Len(sent) - 1)) /\ Inflight(s) = Len(sent) - lo
      /\ Ahead(s.lo, s.out) = Len(sent) - lo
  BY StreamSizes
<1>2. \A k \in Nat : Nth(k) \in SeqId BY NthPlus
<1>3. s.out = Nth(Len(sent)) /\ s.lo = Nth(lo) /\ s.gap \in SeqId \cup {NoSeq} BY DEF StreamAt, Sends
<1>4. Slots(s) \subseteq SeqId
  <2>1. \A k \in lo..(Len(sent) - 1) : k \in Nat BY <1>1
  <2> QED BY <1>1, <1>2, <2>1 DEF IdsOf
<1>5. r.next = Nth(next) /\ DOMAIN r.held = IdsOf(H) BY DEF StreamAt, Receives
<1>6. DOMAIN r.held \subseteq SeqId \ {r.next}
  <2> SUFFICES ASSUME NEW k \in H PROVE Nth(k) \in SeqId /\ Nth(k) # Nth(next) BY <1>5 DEF IdsOf
  <2>1. k \in Nat /\ next < k /\ k - next < SeqSpace /\ next - k < SeqSpace BY <1>1
  <2> QED BY <1>1, <1>2, <2>1, NthInjective
<1> QED BY <1>1, <1>2, <1>3, <1>4, <1>5, <1>6

LEMMA LinkTypes == ASSUME IndInv PROVE LinkTypeOK
<1>1. SentFacts(offered, SwitchWindow) /\ SentFacts(queued, Window)
  BY InFacts, OutFacts DEF IndInv
<1>2. PICK lo, next, H : InAt(lo, next, H) BY DEF IndInv, InInv
<1>3. PICK lo2, next2, H2 : OutAt(lo2, next2, H2) BY DEF IndInv, OutInv
<1>4. StreamAt(swSend, rcv, offered, SwitchWindow, "sim", wire, lo, next, H) BY <1>2 DEF InAt
<1>5. StreamAt(rel, swRcv, queued, Window, "switch", wire, lo2, next2, H2) BY <1>3 DEF OutAt
<1>6. /\ swSend.out \in SeqId /\ swSend.lo \in SeqId /\ Slots(swSend) \subseteq SeqId
      /\ swSend.gap \in SeqId \cup {NoSeq}
      /\ Inflight(swSend) = Ahead(swSend.lo, swSend.out) /\ Inflight(swSend) <= SwitchWindow
      /\ rcv.next \in SeqId /\ DOMAIN rcv.held \subseteq SeqId \ {rcv.next}
  BY <1>1, <1>4, SendHalf
<1>7. /\ rel.out \in SeqId /\ rel.lo \in SeqId /\ Slots(rel) \subseteq SeqId /\ rel.gap \in SeqId \cup {NoSeq}
      /\ Inflight(rel) = Ahead(rel.lo, rel.out) /\ Inflight(rel) <= Window
      /\ swRcv.next \in SeqId /\ DOMAIN swRcv.held \subseteq SeqId \ {swRcv.next}
  BY <1>1, <1>5, SendHalf
<1>8. filter.last \in SeqId \cup {NoSeq} /\ Len(filter.seen) <= DedupLimit
  <2>1. HandedOn(forwarded, Len(offered)) /\ SeenIs(filter, forwarded) /\ LastIs(filter, forwarded)
    BY <1>2 DEF InAt, Filters
  <2>2. filter.last \in SeqId \cup {NoSeq}
    <3>1. \A M \in Handed(forwarded) : M \in Nat BY <2>1 DEF HandedOn, Handed
    <3> QED BY <2>1, <3>1, NthPlus DEF LastIs
  <2>3. Len(filter.seen) <= DedupLimit
    <3>1. DedupLimit \in Nat /\ Len(forwarded) \in Nat BY <2>1, Sizes DEF HandedOn
    <3> QED BY <2>1, <3>1 DEF SeenIs
  <2> QED BY <2>2, <2>3
<1>9. /\ PiaTypeOK /\ ackOwed \in BOOLEAN /\ failed \in BOOLEAN
      /\ Len(pending) <= MaxPending /\ myGen \in 0..MaxResets
      /\ bridge.up \in BOOLEAN /\ bridge.gen \in 0..MaxResets /\ Len(bridge.inbox) <= InboxLimit
  BY DEF IndInv, PiaInv, Traffic, BridgeInv, BacklogInv, FlagsInv
<1>10. \A s \in {rel, swSend} : /\ s.out \in SeqId /\ s.lo \in SeqId /\ Slots(s) \subseteq SeqId
                                /\ s.gap \in SeqId \cup {NoSeq}
                                /\ Inflight(s) = Ahead(s.lo, s.out)
  BY <1>6, <1>7
<1>11. \A r \in {rcv, swRcv} : r.next \in SeqId /\ DOMAIN r.held \subseteq SeqId \ {r.next}
  BY <1>6, <1>7
<1> QED BY <1>6, <1>7, <1>8, <1>9, <1>10, <1>11 DEF LinkTypeOK

(* Whatever counts as acknowledged is a frame that has come. *)
LEMMA GivenHasCome ==
  ASSUME NEW s, NEW r, NEW sent, NEW W, NEW to, NEW packets, NEW lo, NEW next, NEW H, SentFacts(sent, W),
         StreamAt(s, r, sent, W, to, packets, lo, next, H), NEW x \in Given(s, sent)
  PROVE  \E k \in Got(next, H) : k \in 0..(Len(sent) - 1) /\ x = sent[k + 1]
<1>1. /\ Len(sent) \in Nat /\ lo \in Nat /\ next \in Nat /\ lo <= next /\ next <= Len(sent)
      /\ Slots(s) = IdsOf(lo..(Len(sent) - 1)) /\ Inflight(s) = Len(sent) - lo
  BY StreamSizes
<1>2. CASE \E n \in 1..(Len(sent) - Inflight(s)) : x = sent[n]
  <2>1. PICK n \in 1..lo : x = sent[n] BY <1>1, <1>2
  <2>2. n - 1 \in 0..(next - 1) /\ n - 1 \in 0..(Len(sent) - 1) /\ (n - 1) + 1 = n BY <1>1
  <2> QED BY <2>1, <2>2 DEF Got
<1>3. CASE \E q \in Acked(s) : x = s.unacked[q].body
  <2>1. PICK q \in Slots(s) : s.unacked[q].acked /\ x = s.unacked[q].body BY <1>3 DEF Acked
  <2>2. PICK k \in lo..(Len(sent) - 1) : q = Nth(k) BY <1>1 DEF IdsOf
  <2>3. s.unacked[q].body = sent[k + 1] BY <2>2 DEF StreamAt, Sends
  <2>4. k \in Got(next, H) BY <2>1, <2>2 DEF StreamAt, Confirms
  <2>5. k \in 0..(Len(sent) - 1) BY <1>1
  <2> QED BY <2>1, <2>3, <2>4, <2>5
<1> QED BY <1>2, <1>3 DEF Given

LEMMA NothingFalse == ASSUME IndInv PROVE NoFalseAck
<1>1. SentFacts(offered, SwitchWindow) /\ SentFacts(queued, Window) /\ Numbered(offered)
  BY InFacts, OutFacts DEF IndInv, InInv
<1>2. Given(swSend, offered) \subseteq ToSet(forwarded)
  <2>1. PICK lo, next, H : InAt(lo, next, H) BY DEF IndInv, InInv
  <2>2. /\ StreamAt(swSend, rcv, offered, SwitchWindow, "sim", wire, lo, next, H)
        /\ Got(next, H) = Handed(forwarded) /\ HandedOn(forwarded, Len(offered))
    BY <2>1 DEF InAt, Filters
  <2> SUFFICES ASSUME NEW x \in Given(swSend, offered) PROVE x \in ToSet(forwarded) OBVIOUS
  <2>3. PICK k \in Handed(forwarded) : k \in 0..(Len(offered) - 1) /\ x = offered[k + 1]
    BY <1>1, <2>2, GivenHasCome
  <2>4. PICK i \in 1..Len(forwarded) : Number(forwarded, i) = k BY DEF Handed
  <2>5. forwarded[i] = <<k + 1, 0>> BY <2>2, <2>4 DEF HandedOn
  <2>6. offered[k + 1] = <<k + 1, 0>>
    <3>1. k + 1 \in 1..Len(offered) BY <1>1, <2>3 DEF Numbered
    <3> QED BY <1>1, <3>1 DEF Numbered
  <2>7. forwarded \in Seq(Bodies) BY <2>2 DEF HandedOn
  <2>8. i \in DOMAIN forwarded BY <2>7
  <2> QED BY <2>3, <2>5, <2>6, <2>8 DEF ToSet
<1>3. Given(rel, queued) \subseteq ToSet(shown) \cup Held(swRcv)
  <2>1. PICK lo, next, H : OutAt(lo, next, H) BY DEF IndInv, OutInv
  <2>2. StreamAt(rel, swRcv, queued, Window, "switch", wire, lo, next, H) /\ shown = SubSeq(queued, 1, next)
    BY <2>1 DEF OutAt
  <2>3. queued \in Seq(Bodies) /\ next \in Nat /\ next <= Len(queued)
    BY <1>1, <2>2, StreamSizes DEF SentFacts
  <2>4. shown \in Seq(Bodies) /\ Len(shown) = next /\ \A i \in 1..next : shown[i] = queued[i]
    BY <2>2, <2>3, Beginnings
  <2> SUFFICES ASSUME NEW x \in Given(rel, queued) PROVE x \in ToSet(shown) \cup Held(swRcv) OBVIOUS
  <2>5. PICK k \in Got(next, H) : k \in 0..(Len(queued) - 1) /\ x = queued[k + 1]
    BY <1>1, <2>2, GivenHasCome
  <2>6. CASE k \in 0..(next - 1)
    <3>1. k + 1 \in 1..next /\ k + 1 \in DOMAIN shown BY <2>3, <2>4, <2>6
    <3> QED BY <2>4, <2>5, <3>1 DEF ToSet
  <2>7. CASE k \in H
    <3>1. swRcv.held[Nth(k)] = queued[k + 1] /\ DOMAIN swRcv.held = IdsOf(H)
      BY <2>2, <2>7 DEF StreamAt, Receives
    <3>2. Nth(k) \in DOMAIN swRcv.held BY <2>7, <3>1 DEF IdsOf
    <3> QED BY <2>5, <3>1, <3>2 DEF Held
  <2> QED BY <2>5, <2>6, <2>7 DEF Got
<1> QED BY <1>2, <1>3 DEF NoFalseAck

(* The state is well formed, no window is overrun, the backlog stays in    *)
(* its bound, and no frame counts as acknowledged before the other end has *)
(* it, however the radio loses, repeats and reorders frames and            *)
(* acknowledgements (ReliableLink, TunnelSim._drive_tunnel_reliable).      *)
THEOREM LinkTyped == LinkSpec => []LinkTypeOK
  BY LinkInvariance, LinkTypes, PTL

THEOREM LinkNoFalseAck == LinkSpec => []NoFalseAck
  BY LinkInvariance, NothingFalse, PTL

(* Both ends agree on the connection and on what has arrived, unless a     *)
(* hosting Switch measures round trips before it was finalized             *)
(* (Sim.process_datagram, ConnectionManager.on_message).                   *)
THEOREM LinkConsistent ==
  ASSUME ~EarlyRtt PROVE LinkSpec => []LinkIsConsistent
<1>1. IndInv => UpMeansFinalized BY DEF IndInv, PiaInv
<1>2. IndInv => LinkIsConsistent BY <1>1, LinkTypes, NothingFalse DEF LinkIsConsistent
<1> QED BY <1>2, LinkInvariance, PTL

-----------------------------------------------------------------------------
(* Only the connection that is in force enters the stream.                 *)

LEMMA QueuesCurrent ==
  ASSUME IndInv, [LinkNext]_vars
  PROVE  \A n \in (Len(queued) + 1)..Len(queued') : queued'[n][2] = bridge.gen
<1>1. Traffic /\ OutInv /\ queued \in Seq(Bodies) BY DEF IndInv, Traffic, QueuedInv, Rising
<1>2. CASE DriveStep
  <2>1. PICK elapsed \in Timeouts, period \in BOOLEAN, lost \in BOOLEAN : Drive(elapsed, period, lost)
    BY <1>2 DEF DriveStep
  <2>2. PICK new \in Seq(Bodies) : queued' = queued \o new /\ OfGen(new, bridge.gen)
    BY <1>1, <2>1, RoomIs, DriveTraffic
  <2>3. /\ Len(queued \o new) = Len(queued) + Len(new)
        /\ \A i \in 1..Len(new) : (queued \o new)[Len(queued) + i] = new[i]
    BY <1>1, JoinIs
  <2> SUFFICES ASSUME NEW n \in (Len(queued) + 1)..Len(queued') PROVE queued'[n][2] = bridge.gen OBVIOUS
  <2>4. n - Len(queued) \in 1..Len(new) /\ Len(queued) + (n - Len(queued)) = n
    <3>1. Len(queued) \in Nat /\ Len(new) \in Nat BY <1>1
    <3>2. n \in (Len(queued) + 1)..(Len(queued) + Len(new)) BY <2>2, <2>3
    <3> QED BY <3>1, <3>2
  <2>5. queued'[n] = new[n - Len(queued)] BY <2>2, <2>3, <2>4
  <2> QED BY <2>2, <2>4, <2>5 DEF OfGen
<1>3. CASE ~DriveStep
  <2>1. queued' = queued
    BY <1>3 DEF LinkNext, vars, PiaStep, BridgeFrame, BridgeReset, BridgeUp, SwitchSends, SwitchResendStep,
                SwitchResends, ReceiveData, ReceiveAck, SwitchReceivesData, SwitchReceivesAck, LoseFrame,
                linkVars, history
  <2> QED BY <1>1, <2>1
<1> QED BY <1>2, <1>3

(* What was left over from an earlier connection of the bridge never       *)
(* enters the stream (TunnelSim._drain_tunnel).                            *)
THEOREM LinkDropsStale == LinkSpec => StaleFramesDropped
<1>1. IndInv /\ [LinkNext]_vars => [\A n \in (Len(queued) + 1)..Len(queued') : queued'[n][2] = bridge.gen]_vars
  BY QueuesCurrent
<1> QED BY <1>1, LinkInvariance, PTL DEF LinkSpec, StaleFramesDropped

-----------------------------------------------------------------------------
(* Both streams implement FrameChannel.                                    *)

LEMMA SameBeginning ==
  ASSUME NEW S, NEW s \in Seq(S), NEW t \in Seq(S), Len(s) <= Len(t), \A i \in 1..Len(s) : t[i] = s[i]
  PROVE  SubSeq(s, 1, Len(s)) = SubSeq(t, 1, Len(s))
<1>1. /\ SubSeq(s, 1, Len(s)) \in Seq(S) /\ Len(SubSeq(s, 1, Len(s))) = Len(s)
      /\ \A i \in 1..Len(s) : SubSeq(s, 1, Len(s))[i] = s[i]
  BY Beginnings
<1>2. /\ SubSeq(t, 1, Len(s)) \in Seq(S) /\ Len(SubSeq(t, 1, Len(s))) = Len(s)
      /\ \A i \in 1..Len(s) : SubSeq(t, 1, Len(s))[i] = t[i]
  BY Beginnings
<1> QED BY <1>1, <1>2, SeqEqual

LEMMA OfferedGrows ==
  ASSUME IndInv, SwitchSends PROVE FromSwitch!AcceptFrames
<1>1. Numbered(offered) /\ Numbered(offered') BY InSends DEF IndInv, InInv
<1> DEFINE n == <<Len(offered) + 1, 0>>
<1>2. offered' = Append(offered, n) /\ forwarded' = forwarded BY DEF SwitchSends
<1>3. offered \in Seq(Bodies) /\ offered' \in Seq(Bodies) /\ Len(offered) \in Nat BY <1>1 DEF Numbered
<1>4. n \in Bodies BY <1>3 DEF Bodies
<1> HIDE DEF n
<1>5. /\ Len(offered') = Len(offered) + 1
      /\ \A i \in 1..Len(offered) : offered'[i] = offered[i]
  BY <1>2, <1>3, <1>4
<1>6. SubSeq(offered, 1, Len(offered)) = SubSeq(offered', 1, Len(offered))
  BY <1>3, <1>5, SameBeginning
<1>7. \A i, j \in DOMAIN offered' : offered'[i] = offered'[j] => i = j
  BY <1>1, <1>3 DEF Numbered
<1>8. {offered'[i] : i \in DOMAIN offered'} \subseteq Bodies BY <1>3
<1>9. Len(offered') > Len(offered) /\ Len(offered) <= Len(offered') BY <1>3, <1>5
<1>10. FromSwitch!IsPrefix(offered, offered') BY <1>6, <1>9 DEF FromSwitch!IsPrefix
<1>11. FromSwitch!IsInjective(offered') BY <1>7 DEF FromSwitch!IsInjective
<1>12. FromSwitch!ToSet(offered') \subseteq Nat \X Nat BY <1>8 DEF FromSwitch!ToSet, Bodies
<1> QED BY <1>2, <1>9, <1>10, <1>11, <1>12 DEF FromSwitch!AcceptFrames

(* What was handed to the bridge was sent by the Switch, and handed once. *)
LEMMA HandedIsSent ==
  ASSUME NEW fwd, NEW sent, HandedOn(fwd, Len(sent)), Numbered(sent)
  PROVE  /\ fwd \in Seq(Bodies)
         /\ FromSwitch!IsInjective(fwd) /\ FromSwitch!ToSet(fwd) \subseteq FromSwitch!ToSet(sent)
<1>1. fwd \in Seq(Bodies) /\ DOMAIN fwd = 1..Len(fwd)
      /\ sent \in Seq(Bodies) /\ DOMAIN sent = 1..Len(sent) /\ Len(sent) \in Nat
  BY DEF HandedOn, Numbered
<1>2. ASSUME NEW i \in 1..Len(fwd), NEW j \in 1..Len(fwd), fwd[i] = fwd[j] PROVE i = j
  <2>1. Number(fwd, i) = Number(fwd, j) BY <1>2 DEF Number
  <2> QED BY <2>1 DEF HandedOn, NearlyOrdered
<1>3. ASSUME NEW i \in 1..Len(fwd) PROVE \E j \in 1..Len(sent) : fwd[i] = sent[j]
  <2> DEFINE k == Number(fwd, i)
  <2>1. k \in 0..(Len(sent) - 1) /\ fwd[i] = <<k + 1, 0>> BY DEF HandedOn
  <2> HIDE DEF k
  <2>2. k + 1 \in 1..Len(sent) BY <1>1, <2>1
  <2>3. sent[k + 1] = <<k + 1, 0>> BY <2>2 DEF Numbered
  <2> QED BY <2>1, <2>2, <2>3
<1>4. FromSwitch!IsInjective(fwd) BY <1>1, <1>2 DEF FromSwitch!IsInjective
<1>5. FromSwitch!ToSet(fwd) \subseteq FromSwitch!ToSet(sent) BY <1>1, <1>3 DEF FromSwitch!ToSet
<1> QED BY <1>1, <1>4, <1>5

LEMMA HandsOn ==
  ASSUME IndInv, NEW p, ReceiveData(p)
  PROVE  FromSwitch!DeliverFrames \/ UNCHANGED <<offered, forwarded>>
<1>1. offered' = offered /\ (forwarded' = forwarded \/ forwarded' = Append(forwarded, p.body))
  BY DEF ReceiveData
<1>2. CASE forwarded' = forwarded BY <1>1, <1>2
<1>3. CASE forwarded' = Append(forwarded, p.body)
  <2>1. HandedOn(forwarded, Len(offered)) /\ Numbered(offered)
    <3>1. PICK lo, next, H : InAt(lo, next, H) BY DEF IndInv, InInv
    <3> QED BY <3>1 DEF IndInv, InInv, InAt, Filters
  <2>2. HandedOn(forwarded', Len(offered')) /\ Numbered(offered')
    <3>1. InInv' BY InReceives DEF IndInv
    <3>2. PICK lo, next, H : InAt(lo, next, H)' BY <3>1 DEF InInv
    <3> QED BY <3>1, <3>2 DEF InInv, InAt, Filters
  <2>3. forwarded \in Seq(Bodies) /\ forwarded' \in Seq(Bodies) BY <2>1, <2>2 DEF HandedOn
  <2>4. FromSwitch!IsInjective(forwarded') /\ FromSwitch!ToSet(forwarded') \subseteq FromSwitch!ToSet(offered)
    <3>1. FromSwitch!IsInjective(forwarded') /\ FromSwitch!ToSet(forwarded') \subseteq FromSwitch!ToSet(offered')
      BY <2>2, HandedIsSent
    <3> QED BY <1>1, <3>1
  <2>5. Len(forwarded') = Len(forwarded) + 1 /\ \A i \in 1..Len(forwarded) : forwarded'[i] = forwarded[i]
    <3> DEFINE S == Bodies \cup {p.body}
    <3>1. forwarded \in Seq(S) /\ p.body \in S BY <2>3
    <3> HIDE DEF S
    <3> QED BY <1>3, <3>1
  <2>6. Len(forwarded') > Len(forwarded) /\ Len(forwarded) <= Len(forwarded') BY <2>3, <2>5
  <2>7. SubSeq(forwarded, 1, Len(forwarded)) = SubSeq(forwarded', 1, Len(forwarded))
    BY <2>3, <2>5, <2>6, SameBeginning
  <2>8. FromSwitch!IsPrefix(forwarded, forwarded') BY <2>6, <2>7 DEF FromSwitch!IsPrefix
  <2>9. FromSwitch!Keeps(offered, forwarded') BY <2>4 DEF FromSwitch!Keeps
  <2> QED BY <1>1, <2>6, <2>8, <2>9 DEF FromSwitch!DeliverFrames
<1> QED BY <1>1, <1>2, <1>3

(* The frames of the Switch reach the bridge at most once each             *)
(* (Sim.process_datagram with _note_in_seq).                               *)
THEOREM LinkOnceToBridge == LinkSpec => OnceToBridge
<1>1. LinkInit => FromSwitch!ChannelInit BY DEF LinkInit, FromSwitch!ChannelInit
<1>2. IndInv /\ [LinkNext]_vars
      => [FromSwitch!AcceptFrames \/ FromSwitch!DeliverFrames]_(FromSwitch!channelVars)
  <2> SUFFICES ASSUME IndInv, [LinkNext]_vars
               PROVE  \/ FromSwitch!AcceptFrames \/ FromSwitch!DeliverFrames
                      \/ UNCHANGED <<offered, forwarded>>
    BY DEF FromSwitch!channelVars
  <2>1. CASE SwitchSends BY <2>1, OfferedGrows
  <2>2. CASE \E p \in wire : ReceiveData(p) BY <2>2, HandsOn
  <2>3. CASE ~SwitchSends /\ ~\E p \in wire : ReceiveData(p)
    <3>1. UNCHANGED <<offered, forwarded>>
      BY <2>3 DEF LinkNext, vars, PiaStep, BridgeFrame, BridgeReset, BridgeUp, DriveStep, Drive, SwitchResendStep,
                  SwitchResends, ReceiveAck, SwitchReceivesData, SwitchReceivesAck, LoseFrame, linkVars, history
    <3> QED BY <3>1
  <2> QED BY <2>1, <2>2, <2>3
<1> QED BY <1>1, <1>2, LinkInvariance, PTL DEF LinkSpec, OnceToBridge, FromSwitch!ChannelSpec

(* The bridge's frames join the stream. *)
LEMMA QueuedGrows ==
  ASSUME IndInv, NEW elapsed, NEW period \in BOOLEAN, NEW lost \in BOOLEAN, Drive(elapsed, period, lost)
  PROVE  ToTheSwitch!AcceptFrames \/ UNCHANGED <<queued, shown>>
<1>1. Traffic /\ Traffic' /\ shown' = shown
  BY DriveTraffic, RoomIs DEF IndInv, Drive
<1>2. PICK new \in Seq(Bodies) : queued' = queued \o new
  BY DriveTraffic, RoomIs DEF IndInv
<1>3. /\ queued \in Seq(Bodies) /\ queued' \in Seq(Bodies)
      /\ \A i, j \in 1..Len(queued') : i < j => queued'[i][1] < queued'[j][1]
  BY <1>1 DEF Traffic, QueuedInv, Rising
<1>4. Len(queued') = Len(queued) + Len(new) /\ \A i \in 1..Len(queued) : queued'[i] = queued[i]
  BY <1>2, <1>3, JoinIs
<1>5. CASE new = <<>>
  <2>1. queued' = queued BY <1>2, <1>3, <1>5
  <2> QED BY <1>1, <2>1
<1>6. CASE new # <<>>
  <2>1. Len(new) > 0 /\ Len(new) \in Nat BY <1>6
  <2>2. Len(queued') > Len(queued) /\ Len(queued) <= Len(queued') BY <1>3, <1>4, <2>1
  <2>3. SubSeq(queued, 1, Len(queued)) = SubSeq(queued', 1, Len(queued))
    BY <1>3, <1>4, <2>2, SameBeginning
  <2>4. ToTheSwitch!IsPrefix(queued, queued') BY <2>2, <2>3 DEF ToTheSwitch!IsPrefix
  <2>5. \A i, j \in DOMAIN queued' : queued'[i] = queued'[j] => i = j
    <3>1. DOMAIN queued' = 1..Len(queued') /\ \A i \in 1..Len(queued') : queued'[i][1] \in Nat
      BY <1>3 DEF Bodies
    <3> SUFFICES ASSUME NEW i \in 1..Len(queued'), NEW j \in 1..Len(queued'), queued'[i] = queued'[j]
                 PROVE i = j
      BY <3>1
    <3>2. ~(queued'[i][1] < queued'[j][1]) /\ ~(queued'[j][1] < queued'[i][1]) BY <3>1
    <3>3. ~(i < j) /\ ~(j < i) BY <1>3, <3>2
    <3> QED BY <3>3
  <2>6. ToTheSwitch!IsInjective(queued') BY <2>5 DEF ToTheSwitch!IsInjective
  <2>7. ToTheSwitch!ToSet(queued') \subseteq Nat \X Nat
    <3>1. \A i \in DOMAIN queued' : queued'[i] \in Bodies BY <1>3
    <3> QED BY <3>1 DEF ToTheSwitch!ToSet, Bodies
  <2> QED BY <1>1, <2>2, <2>4, <2>6, <2>7 DEF ToTheSwitch!AcceptFrames
<1> QED BY <1>5, <1>6

(* The Switch is shown the next of them. *)
LEMMA ShownGrows ==
  ASSUME IndInv, NEW p, SwitchReceivesData(p)
  PROVE  ToTheSwitch!DeliverFrames \/ UNCHANGED <<queued, shown>>
<1>1. SentFacts(queued, Window) /\ Traffic /\ OutInv BY OutFacts DEF IndInv
<1>2. queued \in Seq(Bodies) /\ queued' = queued /\ shown' = shown \o OnData(swRcv, p.seq, p.body)
  BY <1>1 DEF SentFacts, SwitchReceivesData
<1>3. OutInv' BY <1>1, OutReceives
<1>4. PICK lo, next, H : OutAt(lo, next, H) BY <1>1 DEF OutInv
<1>5. PICK lo2, next2, H2 : OutAt(lo2, next2, H2)' BY <1>3 DEF OutInv
<1>6. next \in Nat /\ next <= Len(queued) /\ shown = SubSeq(queued, 1, next)
  BY <1>1, <1>4, StreamSizes DEF OutAt
<1>7. next2 \in Nat /\ next2 <= Len(queued) /\ shown' = SubSeq(queued, 1, next2)
  <2>1. /\ StreamAt(rel', swRcv', queued, Window, "switch", wire', lo2, next2, H2)
        /\ shown' = SubSeq(queued, 1, next2)
    BY <1>2, <1>5 DEF OutAt
  <2> QED BY <1>1, <2>1, StreamSizes
<1>8. /\ shown \in Seq(Bodies) /\ Len(shown) = next /\ \A i \in 1..next : shown[i] = queued[i]
      /\ shown' \in Seq(Bodies) /\ Len(shown') = next2 /\ \A i \in 1..next2 : shown'[i] = queued[i]
  <2>1. \A x \in Nat : x <= Len(queued) =>
          /\ SubSeq(queued, 1, x) \in Seq(Bodies) /\ Len(SubSeq(queued, 1, x)) = x
          /\ \A i \in 1..x : SubSeq(queued, 1, x)[i] = queued[i]
    BY <1>2, Beginnings
  <2>2. shown \in Seq(Bodies) /\ Len(shown) = next /\ \A i \in 1..next : shown[i] = queued[i]
    BY <1>6, <2>1
  <2>3. shown' \in Seq(Bodies) /\ Len(shown') = next2 /\ \A i \in 1..next2 : shown'[i] = queued[i]
    BY <1>7, <2>1
  <2> QED BY <2>2, <2>3
<1>9. CASE next2 <= next
  <2>1. next <= next2
    <3>1. PICK k, n, G : Arrives(rel, swRcv, queued, Window, "switch", wire, p, lo, next, H, k, n, G)
      BY <1>1, <1>4, StreamReceives DEF OutAt, SwitchReceivesData
    <3>2. n \in Nat /\ next <= n /\ shown' = shown \o SubSeq(queued, next + 1, n)
          /\ StreamAt(rel, NoteReceived(swRcv, p.seq, p.body), queued, Window, "switch", wire, lo, n, G)
      BY <1>2, <3>1 DEF Arrives
    <3>3. n <= Len(queued) BY <1>1, <3>2, StreamSizes
    <3>4. shown' = SubSeq(queued, 1, n) BY <1>2, <1>6, <3>2, <3>3, Beginnings
    <3>5. Len(shown') = n BY <1>2, <3>2, <3>3, <3>4, Beginnings
    <3> QED BY <1>8, <3>2, <3>5
  <2>2. next2 = next BY <1>6, <1>7, <1>9, <2>1
  <2> QED BY <1>2, <1>6, <1>7, <2>2
<1>10. CASE next < next2
  <2>1. Len(shown') > Len(shown) /\ Len(shown) <= Len(shown') BY <1>6, <1>7, <1>8, <1>10
  <2>2. \A i \in 1..Len(shown) : shown'[i] = shown[i] BY <1>6, <1>7, <1>8, <1>10
  <2>3. SubSeq(shown, 1, Len(shown)) = SubSeq(shown', 1, Len(shown)) BY <1>8, <2>1, <2>2, SameBeginning
  <2>4. ToTheSwitch!IsPrefix(shown, shown') BY <2>1, <2>3 DEF ToTheSwitch!IsPrefix
  <2>5. Len(shown') <= Len(queued) /\ \A i \in 1..Len(shown') : queued[i] = shown'[i] BY <1>7, <1>8
  <2>6. SubSeq(shown', 1, Len(shown')) = SubSeq(queued, 1, Len(shown')) BY <1>2, <1>8, <2>5, SameBeginning
  <2>7. ToTheSwitch!Keeps(queued, shown') BY <2>5, <2>6 DEF ToTheSwitch!Keeps, ToTheSwitch!IsPrefix
  <2> QED BY <1>2, <2>1, <2>4, <2>7 DEF ToTheSwitch!DeliverFrames
<1> QED BY <1>6, <1>7, <1>9, <1>10

(* The Switch sees the frames of the bridge in the order they were queued, *)
(* none twice and none left out (ReliableLink, send half).                 *)
THEOREM LinkInOrderToSwitch == LinkSpec => InOrderToSwitch
<1>1. LinkInit => ToTheSwitch!ChannelInit BY DEF LinkInit, ToTheSwitch!ChannelInit
<1>2. IndInv /\ [LinkNext]_vars
      => [ToTheSwitch!AcceptFrames \/ ToTheSwitch!DeliverFrames]_(ToTheSwitch!channelVars)
  <2> SUFFICES ASSUME IndInv, [LinkNext]_vars
               PROVE  \/ ToTheSwitch!AcceptFrames \/ ToTheSwitch!DeliverFrames
                      \/ UNCHANGED <<queued, shown>>
    BY DEF ToTheSwitch!channelVars
  <2>1. CASE DriveStep
    <3>1. PICK elapsed \in Timeouts, period \in BOOLEAN, lost \in BOOLEAN : Drive(elapsed, period, lost)
      BY <2>1 DEF DriveStep
    <3> QED BY <3>1, QueuedGrows
  <2>2. CASE \E p \in wire : SwitchReceivesData(p) BY <2>2, ShownGrows
  <2>3. CASE ~DriveStep /\ ~\E p \in wire : SwitchReceivesData(p)
    <3>1. UNCHANGED <<queued, shown>>
      BY <2>3 DEF LinkNext, vars, PiaStep, BridgeFrame, BridgeReset, BridgeUp, SwitchSends, SwitchResendStep,
                  SwitchResends, ReceiveData, ReceiveAck, SwitchReceivesAck, LoseFrame, linkVars, history
    <3> QED BY <3>1
  <2> QED BY <2>1, <2>2, <2>3
<1> QED BY <1>1, <1>2, LinkInvariance, PTL DEF LinkSpec, InOrderToSwitch, ToTheSwitch!ChannelSpec
=============================================================================
