--------------------------- MODULE DirectStageProofs ---------------------------
(***************************************************************************)
(* What a side may say of its radio stage: that a stage called passed held *)
(* the Switch through every gate, that a release it claims is real, and    *)
(* that it only fails when something around it did.                        *)
(***************************************************************************)
EXTENDS DirectStage, SequenceTheorems, TLAPS

Contexts == {"factory", "interface", "station", "network", "plane", "ap", "monitor", "tap"}
Steps == {"off", "gates", "checkpoint", "hold", "session", "unwind", "over", "dead"}
Running == {"gates", "checkpoint", "hold", "session"}
Owners == {"start", "consent", "waiting", "using", "failing", "closing", "abandoning", "ended"}
Answers == {"absent", "yes", "no"}
Reports == [status : {"none", "passed", "failed"}, gates : Nat, released : Answers, quiet : Answers]

\* The contexts are entered in the order of the stack.
OpenInv ==
  /\ open \in Seq(Contexts) /\ Len(open) <= Len(Stack)
  /\ \A i \in 1..Len(open) : open[i] = Stack[i]

TypeInv ==
  /\ role \in {"a", "b"} /\ program \in {"direct", "distributed"}
  /\ step \in Steps /\ passed \in 0..Last + 1 /\ OpenInv
  /\ error \in BOOLEAN /\ intact \in BOOLEAN /\ report \in Reports
  /\ switch \in {"away", "here", "gone"} /\ faulty \in BOOLEAN /\ held \in BOOLEAN
  /\ pipe \in Seq(Nat) /\ seen \in 0..passed /\ control \in {"waiting", "passed", "failed"}
  /\ owner \in Owners /\ commands \in Seq({"continue", "closing"}) /\ took \in BOOLEAN
  /\ claim \in {"", "released", "refused", "abandoned"}

\* Nothing is open, left over or wrong where the stage has not run into it.
StageInv ==
  /\ step \in {"off", "over", "dead"} => open = <<>>
  /\ step \in Running \cup {"off"} => ~error /\ left = {}
  /\ step \notin {"over", "dead"} => report = NoReport
  /\ step = "off" => passed = 0
  /\ step = "session" => program = "distributed"
  /\ step = "checkpoint" => role = "b" /\ passed = 4
  /\ step = "hold" => passed = IF role = "a" THEN 10 ELSE 8

\* B: a context that is left over is one the manager could not exit, and the stage knows.
ReleaseInv ==
  role = "b" =>
    /\ open # <<>> => passed >= 3
    /\ passed > 3 /\ step \in Running => Len(open) >= 6
    /\ step = "unwind" /\ left # {} => error /\ ~intact /\ passed >= 3
    /\ report.released = "yes" => left = {}
    /\ step = "over" => report.released # "absent"
    /\ report.quiet = "yes" => left \cap RadioContexts = {}

ClaimInv ==
  /\ claim # "" => program = "distributed" /\ owner = "ended"
  /\ claim = "released" => \/ step = "off"
                           \/ step = "over" /\ report.released \in {"absent", "yes"}
  /\ program = "distributed" /\ owner \in {"start", "consent"} => step = "off"
  /\ program = "distributed" /\ owner = "consent" => role = "a"

\* A body that ended well has held the Switch.
HeldInv ==
  /\ role = "b" /\ AllPassed => held
  /\ program = "direct" /\ step \in {"unwind", "over"} /\ ~error => held
  /\ program = "direct" /\ report.status = "passed" => held
  /\ report.status # "none" => report.gates = passed

\* The pipe p holds the gates from s up to n, and the report if there is one.
Holds(p, s, n, reported) ==
  /\ p \in Seq(Nat)
  /\ Len(p) = (n - s) + (IF reported THEN 1 ELSE 0)
  /\ \A i \in 1..(n - s) : p[i] = s + i - 1
  /\ reported => p[(n - s) + 1] = Last + 1

\* What is in the pipe are the gates the control has not counted, then the report.
PipeInv ==
  /\ program = "direct" /\ control = "waiting" =>
       Holds(pipe, seen, passed, report.quiet # "absent")
  /\ program = "distributed" => pipe = <<>> /\ control = "waiting"
  /\ control = "passed" => seen = Last + 1 /\ held

\* Only the environment, or a closing intent, makes the stage fail.
FaultInv ==
  /\ switch = "gone" => faulty
  /\ role = "a" \/ passed > 5 => switch # "away"
  /\ Plane = "injected" /\ error => faulty \/ took
  /\ report.status = "failed" => error

IInv == TypeInv /\ StageInv /\ ReleaseInv /\ ClaimInv /\ HeldInv /\ PipeInv /\ FaultInv

-----------------------------------------------------------------------------
(* The stack and how far a stage enters it.                                  *)

LEMMA Shape ==
  ASSUME role \in {"a", "b"}, passed \in 0..Last + 1
  PROVE  /\ Stack \in Seq(Contexts) /\ Depth \in Nat /\ Depth <= Len(Stack)
         /\ role = "a" => Last = 9 /\ Len(Stack) = 5
         /\ role = "b" => Last = 8 /\ Len(Stack) = 7 /\ Stack[7] = "plane"
         /\ role = "b" => /\ passed < 3 => Depth = 0
                          /\ passed = 3 => Depth = 6
                          /\ passed > 3 => Depth = 7
  <1>1. CASE role = "a"
    <2>1. Stack = <<"factory", "interface", "station", "network", "plane">> /\ Last = 9
      BY <1>1 DEF Stack, Last
    <2>2. Depth = CASE passed < 5 -> 0 [] passed \in {5, 6} -> 2 [] passed \in {7, 8} -> 3
                    [] OTHER -> 5
      BY <1>1 DEF Depth
    <2>3. Depth \in {0, 2, 3, 5}
      BY <2>2, <2>1
    <2>. QED BY <1>1, <2>1, <2>3 DEF Contexts
  <1>2. CASE role = "b"
    <2>1. Stack = <<"factory", "interface", "ap", "monitor", "tap", "network", "plane">> /\ Last = 8
      BY <1>2 DEF Stack, Last
    <2>2. Depth = CASE passed < 3 -> 0 [] passed = 3 -> 6 [] OTHER -> 7
      BY <1>2 DEF Depth
    <2>. QED BY <1>2, <2>1, <2>2 DEF Contexts
  <1>. QED BY <1>1, <1>2

\* One context more, or one less: still a start of the stack.
LEMMA OpenGrows ==
  ASSUME OpenInv, role \in {"a", "b"}, passed \in 0..Last + 1, Len(open) < Depth,
         open' = Append(open, Stack[Len(open) + 1]), role' = role
  PROVE  OpenInv' /\ Len(open') = Len(open) + 1
  <1>1. Len(open) < Len(Stack) /\ Stack \in Seq(Contexts) /\ open \in Seq(Contexts)
    BY Shape DEF OpenInv
  <1>2. Stack' = Stack
    BY DEF Stack
  <1>3. Stack[Len(open) + 1] \in Contexts
    BY <1>1
  <1>4. open' \in Seq(Contexts) /\ Len(open') = Len(open) + 1 /\ Len(open') <= Len(Stack)
    BY <1>1, <1>3
  <1>5. \A i \in 1..Len(open') : open'[i] = Stack[i]
    <2>. TAKE i \in 1..Len(open')
    <2>1. CASE i <= Len(open)
      BY <2>1, <1>1, <1>3, <1>4 DEF OpenInv
    <2>2. CASE i = Len(open) + 1
      BY <2>2, <1>1, <1>3
    <2>. QED BY <2>1, <2>2, <1>1, <1>4
  <1>. QED BY <1>2, <1>4, <1>5 DEF OpenInv

LEMMA OpenShrinks ==
  ASSUME OpenInv, role \in {"a", "b"}, open # <<>>,
         open' = SubSeq(open, 1, Len(open) - 1), role' = role
  PROVE  OpenInv'
  <1>1. Len(open) >= 1 /\ open \in Seq(Contexts)
    BY DEF OpenInv
  <1>2. Stack' = Stack /\ Len(Stack) \in Nat
    BY DEF Stack
  <1>5. Len(open) <= Len(Stack)
    BY DEF OpenInv
  <1>6. Len(open') = Len(open) - 1 /\ open' \in Seq(Contexts)
    <2>. DEFINE n == Len(open) - 1
    <2>1. n \in Int /\ 1 \in Int /\ \A i \in 1..n : open[i] \in Contexts
      BY <1>1
    <2>2. n - 1 + 1 = n /\ n >= 0 /\ Len(open) \in Nat
      BY <1>1
    <2>. HIDE DEF n
    <2>3. open' = SubSeq(open, 1, n)
      BY DEF n
    <2>4. /\ SubSeq(open, 1, n) \in Seq(Contexts)
          /\ Len(SubSeq(open, 1, n)) = IF 1 <= n THEN n - 1 + 1 ELSE 0
      BY ONLY <2>1, SubSeqProperties
    <2>5. SubSeq(open, 1, n) \in Seq(Contexts) /\ Len(SubSeq(open, 1, n)) = n
      BY ONLY <2>1, <2>2, <2>4
    <2>. QED BY <2>3, <2>5 DEF n
  <1>3. Len(open') = Len(open) - 1 /\ open' \in Seq(Contexts) /\ Len(open') <= Len(Stack)
    BY <1>1, <1>2, <1>5, <1>6
  <1>4. \A i \in 1..Len(open') : open'[i] = open[i]
    BY <1>1, <1>3
  <1>. QED BY <1>1, <1>2, <1>3, <1>4 DEF OpenInv

LEMMA OpenEmpty ==
  ASSUME open' = <<>>, role' = role, role \in {"a", "b"}
  PROVE  OpenInv'
  <1>1. Stack' = Stack /\ Len(Stack) \in Nat
    BY DEF Stack
  <1>. QED BY <1>1 DEF OpenInv

LEMMA OpenStays ==
  ASSUME OpenInv, open' = open, role' = role
  PROVE  OpenInv'
  BY DEF OpenInv, Stack

-----------------------------------------------------------------------------
(* The gates in the pipe: counted ones leave at the front, passed ones join at the end.  *)


LEMMA PipePasses ==
  ASSUME NEW p, NEW s \in Nat, NEW n \in Nat, s <= n, Holds(p, s, n, FALSE)
  PROVE  Holds(Append(p, n), s, n + 1, FALSE)
  <1>1. p \in Seq(Nat) /\ Len(p) = n - s /\ \A i \in 1..(n - s) : p[i] = s + i - 1
    BY DEF Holds
  <1>2. Append(p, n) \in Seq(Nat) /\ Len(Append(p, n)) = (n + 1) - s
    BY <1>1
  <1>3. \A i \in 1..((n + 1) - s) : Append(p, n)[i] = s + i - 1
    BY <1>1, <1>2
  <1>. QED BY <1>2, <1>3 DEF Holds

LEMMA PipeReports ==
  ASSUME NEW p, NEW s \in Nat, NEW n \in Nat, s <= n, Holds(p, s, n, FALSE), Last \in Nat
  PROVE  Holds(Append(p, Last + 1), s, n, TRUE)
  <1>. DEFINE l == Last + 1
  <1>1. p \in Seq(Nat) /\ Len(p) = n - s /\ \A i \in 1..(n - s) : p[i] = s + i - 1
    BY DEF Holds
  <1>2. l \in Nat /\ l = Last + 1
    OBVIOUS
  <1>. HIDE DEF l
  <1>3. Append(p, l) \in Seq(Nat) /\ Len(Append(p, l)) = (n - s) + 1
    BY <1>1, <1>2
  <1>4. /\ \A i \in 1..(n - s) : Append(p, l)[i] = s + i - 1
        /\ Append(p, l)[(n - s) + 1] = l
    BY <1>1, <1>2, <1>3
  <1>5. Holds(Append(p, l), s, n, TRUE)
    BY <1>2, <1>3, <1>4 DEF Holds
  <1>. QED BY <1>5, <1>2

\* A gate at the head is the next one; the report is there when all gates are counted.
LEMMA PipeCounts ==
  ASSUME NEW p, NEW s \in Nat, NEW n \in Nat, s <= n, n <= Last + 1, Last \in Nat,
         NEW reported \in BOOLEAN, Holds(p, s, n, reported), p # <<>>
  PROVE  /\ Head(p) <= Last => s < n /\ Head(p) = s /\ Holds(Tail(p), s + 1, n, reported)
         /\ Head(p) = Last + 1 => s = n /\ reported
  <1>1. /\ p \in Seq(Nat) /\ Len(p) = (n - s) + (IF reported THEN 1 ELSE 0)
        /\ \A i \in 1..(n - s) : p[i] = s + i - 1
        /\ reported => p[(n - s) + 1] = Last + 1
    BY DEF Holds
  <1>2. Len(p) >= 1 /\ Head(p) = p[1]
    BY <1>1
  <1>3. CASE s = n
    <2>1. reported /\ Head(p) = Last + 1
      BY <1>1, <1>2, <1>3
    <2>2. ~(Head(p) <= Last)
      BY <2>1
    <2>. QED BY <2>1, <2>2, <1>3
  <1>4. CASE s < n
    <2>1. Head(p) = s /\ Head(p) <= Last
      BY <1>1, <1>2, <1>4
    <2>2. /\ Tail(p) \in Seq(Nat) /\ Len(Tail(p)) = Len(p) - 1
          /\ \A i \in 1..(Len(p) - 1) : Tail(p)[i] = p[i + 1]
      BY <1>1, <1>2
    <2>3. Len(Tail(p)) = (n - (s + 1)) + (IF reported THEN 1 ELSE 0)
      BY <2>2, <1>1
    <2>4. \A i \in 1..(n - (s + 1)) : Tail(p)[i] = (s + 1) + i - 1
      <3>. TAKE i \in 1..(n - (s + 1))
      <3>1. i \in 1..(Len(p) - 1) /\ i + 1 \in 1..(n - s)
        BY <1>1, <1>4
      <3>. QED BY <3>1, <2>2, <1>1
    <2>5. reported => Tail(p)[(n - (s + 1)) + 1] = Last + 1
      <3>. HAVE reported
      <3>1. n - s \in 1..(Len(p) - 1)
        BY <1>1, <1>4
      <3>. QED BY <3>1, <2>2, <1>1, <1>4
    <2>6. Holds(Tail(p), s + 1, n, reported)
      BY <2>2, <2>3, <2>4, <2>5 DEF Holds
    <2>. QED BY <2>1, <2>6, <1>4
  <1>. QED BY <1>3, <1>4

\* What _pass writes: one gate, or two at the sink of B5.
LEMMA PassWrites ==
  ASSUME pipe \in Seq(Nat), passed \in Nat, NEW n \in {1, 2}, Pass(n)
  PROVE  /\ passed' = passed + n
         /\ program # "direct" => pipe' = pipe
         /\ program = "direct" => pipe' = IF n = 1 THEN Append(pipe, passed)
                                          ELSE Append(Append(pipe, passed), passed + 1)
         /\ pipe' \in Seq(Nat)
  <1>. DEFINE k == [i \in 1..n |-> passed + i - 1]
              one == Append(pipe, passed)
              two == Append(one, passed + 1)
              q == pipe \o k
  <1>1. passed' = passed + n /\ pipe' = IF program = "direct" THEN q ELSE pipe
    BY DEF Pass, Emits
  <1>2. k \in Seq(Nat) /\ Len(k) = n /\ \A i \in 1..n : k[i] = passed + i - 1
    OBVIOUS
  <1>. HIDE DEF k
  <1>3. /\ q \in Seq(Nat) /\ Len(q) = Len(pipe) + n
        /\ \A i \in 1..Len(pipe) : q[i] = pipe[i]
        /\ \A i \in 1..n : q[Len(pipe) + i] = k[i]
    BY <1>2
  <1>4. one \in Seq(Nat) /\ Len(one) = Len(pipe) + 1 /\ one[Len(pipe) + 1] = passed
        /\ \A i \in 1..Len(pipe) : one[i] = pipe[i]
    OBVIOUS
  <1>. HIDE DEF one
  <1>5. two \in Seq(Nat) /\ Len(two) = Len(one) + 1 /\ two[Len(one) + 1] = passed + 1
        /\ \A i \in 1..Len(one) : two[i] = one[i]
    BY <1>4
  <1>. HIDE DEF two, q
  <1>6. CASE n = 1
    <2>1. Len(q) = Len(one)
      BY <1>6, <1>3, <1>4
    <2>3. q[Len(pipe) + 1] = passed
      <3>1. 1 \in 1..n
        BY <1>6
      <3>2. q[Len(pipe) + 1] = k[1] /\ k[1] = passed + 1 - 1
        BY <3>1, <1>2, <1>3
      <3>. QED BY <3>2
    <2>4. \A i \in 1..Len(one) : q[i] = one[i]
      <3>. TAKE i \in 1..Len(one)
      <3>1. CASE i = Len(pipe) + 1
        BY <3>1, <2>3, <1>4
      <3>2. CASE i <= Len(pipe)
        <4>1. i \in 1..Len(pipe)
          BY <3>2, <1>4
        <4>. QED BY <4>1, <1>3, <1>4
      <3>. QED BY <3>1, <3>2, <1>4
    <2>2. q = one
      BY ONLY <2>1, <2>4, <1>3, <1>4, SeqEqual
    <2>. QED BY <2>2, <1>1, <1>3, <1>6 DEF one
  <1>7. CASE n = 2
    <2>1. Len(q) = Len(two)
      BY <1>7, <1>3, <1>4, <1>5
    <2>2. q[Len(pipe) + 1] = passed /\ q[Len(pipe) + 2] = passed + 1
      <3>1. 1 \in 1..n /\ 2 \in 1..n
        BY <1>7
      <3>2. /\ q[Len(pipe) + 1] = k[1] /\ k[1] = passed + 1 - 1
            /\ q[Len(pipe) + 2] = k[2] /\ k[2] = passed + 2 - 1
        BY <3>1, <1>2, <1>3
      <3>. QED BY <3>2
    <2>3. two[Len(pipe) + 1] = passed /\ two[Len(pipe) + 2] = passed + 1
      <3>1. Len(pipe) + 1 \in 1..Len(one) /\ Len(one) + 1 = Len(pipe) + 2
        BY <1>4
      <3>. QED BY <3>1, <1>4, <1>5
    <2>4. \A i \in 1..Len(two) : q[i] = two[i]
      <3>. TAKE i \in 1..Len(two)
      <3>1. CASE i <= Len(pipe)
        <4>1. i \in 1..Len(pipe) /\ i \in 1..Len(one)
          BY <3>1, <1>4
        <4>. QED BY <4>1, <1>3, <1>4, <1>5
      <3>2. CASE i = Len(pipe) + 1
        BY <3>2, <2>2, <2>3
      <3>3. CASE i = Len(pipe) + 2
        BY <3>3, <2>2, <2>3
      <3>. QED BY <3>1, <3>2, <3>3, <1>4, <1>5
    <2>5. q = two
      BY ONLY <2>1, <2>4, <1>3, <1>5, SeqEqual
    <2>6. q = Append(Append(pipe, passed), passed + 1)
      BY <2>5 DEF one, two
    <2>. QED BY <2>6, <1>1, <1>3, <1>7
  <1>. QED BY <1>6, <1>7

-----------------------------------------------------------------------------
(* What several actions do.                                                  *)

\* Everything an exception in the body leaves alone.
Mind == <<role, program, passed, open, report, switch, held, controlVars, owner, claim>>

LEMMA Numbers ==
  ASSUME TypeInv
  PROVE  /\ Last \in Nat /\ passed \in Nat /\ seen \in Nat /\ seen <= passed /\ passed <= Last + 1
         /\ Len(open) \in Nat /\ Depth \in Nat /\ Depth <= Len(Stack)
         /\ role = "a" => Last = 9
         /\ role = "b" => /\ Last = 8 /\ Len(Stack) = 7 /\ Stack[7] = "plane"
                          /\ passed < 3 => Depth = 0
                          /\ passed = 3 => Depth = 6
                          /\ passed > 3 => Depth = 7
  <1>1. role \in {"a", "b"} /\ passed \in 0..Last + 1 /\ seen \in 0..passed /\ OpenInv
    BY DEF TypeInv
  <1>2. Last \in Nat
    BY DEF Last
  <1>3. Len(open) \in Nat
    BY <1>1 DEF OpenInv
  <1>. QED BY <1>1, <1>2, <1>3, Shape

\* The history, the owner and the control stay as they are.
LEMMA TypeStays ==
  ASSUME TypeInv, OpenInv', step' \in Steps, error' \in BOOLEAN, intact' \in BOOLEAN,
         switch' \in {"away", "here", "gone"}, faulty' \in BOOLEAN,
         role' = role, program' = program, passed' = passed, report' = report, held' = held,
         pipe' = pipe, seen' = seen, control' = control, owner' = owner,
         commands' = commands, took' = took, claim' = claim
  PROVE  TypeInv'
  <1>1. Last' = Last
    BY DEF Last
  <1>2. role' \in {"a", "b"} /\ program' \in {"direct", "distributed"} /\ passed' \in 0..Last' + 1
    BY <1>1 DEF TypeInv
  <1>3. report' \in Reports /\ pipe' \in Seq(Nat) /\ seen' \in 0..passed'
    BY DEF TypeInv
  <1>4. held' \in BOOLEAN /\ took' \in BOOLEAN
    BY DEF TypeInv
  <1>5. /\ control' \in {"waiting", "passed", "failed"} /\ owner' \in Owners
        /\ commands' \in Seq({"continue", "closing"})
        /\ claim' \in {"", "released", "refused", "abandoned"}
    BY DEF TypeInv
  <1>. QED BY <1>2, <1>3, <1>4, <1>5 DEF TypeInv

LEMMA CommandRead ==
  ASSUME TypeInv, commands # <<>>
  PROVE  Tail(commands) \in Seq({"continue", "closing"})
  <1>. DEFINE C == {"continue", "closing"}
  <1>1. commands \in Seq(C)
    BY DEF TypeInv
  <1>. HIDE DEF C
  <1>2. Tail(commands) \in Seq(C)
    BY <1>1
  <1>. QED BY <1>2 DEF C

LEMMA SameNumbers ==
  ASSUME role' = role
  PROVE  Last' = Last /\ Stack' = Stack
  BY DEF Last, Stack

LEMMA SameHolds ==
  ASSUME role' = role, UNCHANGED <<pipe, seen, passed, report>>, PipeInv,
         UNCHANGED <<program, control, held>>
  PROVE  PipeInv'
  BY SameNumbers DEF PipeInv, Holds

\* An exception in the body: the stage unwinds, and the reason is around it.
LEMMA RaiseKeeps ==
  ASSUME IInv, step \in Running, Raises, UNCHANGED Mind,
         commands' \in Seq({"continue", "closing"}), took' \in BOOLEAN, faulty' \in BOOLEAN,
         faulty => faulty', Plane = "injected" => faulty' \/ took',
         role = "b" /\ left' # {} => passed = 3 /\ Len(open) < 6
  PROVE  IInv'
  <1>. USE DEF IInv
  <1>a. /\ role' = role /\ program' = program /\ passed' = passed /\ open' = open
        /\ report' = report /\ switch' = switch /\ held' = held /\ owner' = owner
        /\ claim' = claim /\ pipe' = pipe /\ seen' = seen /\ control' = control
    BY DEF Mind, controlVars
  <1>b. step' = "unwind" /\ error' = TRUE /\ intact' = ~(role = "b" /\ passed = 3 /\ Len(open) < 6)
    BY DEF Raises
  <1>c. report = NoReport /\ left = {} /\ error = FALSE
    BY DEF StageInv, Running, TypeInv
  <1>. USE <1>a, <1>b, <1>c
  <1>1. TypeInv'
    <2>1. intact' \in BOOLEAN
      OBVIOUS
    <2>2. OpenInv' /\ Last' = Last
      BY OpenStays, SameNumbers DEF TypeInv
    <2>3. role' \in {"a", "b"} /\ program' \in {"direct", "distributed"} /\ passed' \in 0..Last' + 1
      BY <2>2 DEF TypeInv
    <2>4. step' \in Steps /\ error' \in BOOLEAN /\ report' \in Reports
      BY DEF TypeInv, Steps
    <2>5. /\ switch' \in {"away", "here", "gone"} /\ held' \in BOOLEAN
          /\ claim' \in {"", "released", "refused", "abandoned"}
          /\ pipe' \in Seq(Nat) /\ seen' \in 0..passed' /\ owner' \in Owners
          /\ control' \in {"waiting", "passed", "failed"}
      BY DEF TypeInv
    <2>. QED BY <2>1, <2>2, <2>3, <2>4, <2>5 DEF TypeInv
  <1>2. StageInv'
    BY DEF StageInv, Running
  <1>3. ReleaseInv'
    <2>1. report'.released = "absent" /\ report'.quiet = "absent"
      BY DEF NoReport
    <2>2. ASSUME role = "b", left' # {}
          PROVE  intact' = FALSE /\ passed' >= 3
      <3>1. passed = 3 /\ Len(open) < 6
        BY <2>2

      <3>3. intact' = FALSE
        BY ONLY <1>b, <2>2, <3>1, Zenon
      <3>. QED BY <3>1, <3>3
    <2>3. role = "b" => (open' # <<>> => passed' >= 3)
      BY DEF ReleaseInv
    <2>. QED BY <2>1, <2>2, <2>3 DEF ReleaseInv, Running
  <1>4. ClaimInv'
    BY DEF ClaimInv, Running
  <1>5. HeldInv'
    BY DEF HeldInv, AllPassed, Last, StageInv, Running, NoReport
  <1>6. PipeInv'
    BY SameHolds
  <1>7. FaultInv'
    BY DEF FaultInv, StageInv, Running, NoReport
  <1>. QED BY <1>1, <1>2, <1>3, <1>4, <1>5, <1>6, <1>7

\* The main thread moves: neither the stage nor what the control sees.
LEMMA OwnerKeeps ==
  ASSUME IInv, program = "distributed",
         UNCHANGED <<role, program, stageVars, worldVars, controlVars>>,
         owner' \in Owners, commands' \in Seq({"continue", "closing"}), took' \in BOOLEAN,
         claim' \in {"", "released", "refused", "abandoned"},
         ClaimInv', took => took' \/ ~error
  PROVE  IInv'
  <1>. USE DEF IInv, stageVars, worldVars, controlVars
  <1>1. TypeInv'
    BY OpenStays, SameNumbers DEF TypeInv
  <1>2. StageInv'
    BY DEF StageInv
  <1>3. ReleaseInv'
    BY DEF ReleaseInv
  <1>5. HeldInv'
    BY DEF HeldInv, AllPassed, Last
  <1>6. PipeInv'
    BY SameHolds
  <1>7. FaultInv'
    BY DEF FaultInv
  <1>. QED BY <1>1, <1>2, <1>3, <1>5, <1>6, <1>7

-----------------------------------------------------------------------------
(* The main thread of the distributed program, and its parent.                *)

OwnerAction == ParentSends \/ Owner

LEMMA OwnerActionKeeps ==
  ASSUME IInv, OwnerAction
  PROVE  IInv'
  <1>. USE DEF IInv, OwnerStep
  <1>1. /\ program = "distributed"
        /\ UNCHANGED <<role, program, stageVars, worldVars, controlVars>>
    BY DEF OwnerAction, Owner, ParentSends, Prepare, Consent, WaitReady, Use, AwaitIntent,
           StopSession, EndOwner, ownerVars
  <1>2. /\ owner' \in Owners /\ commands' \in Seq({"continue", "closing"}) /\ took' \in BOOLEAN
        /\ claim' \in {"", "released", "refused", "abandoned"}
        /\ ClaimInv' /\ (took => took' \/ ~error)
    <2>. USE DEF TypeInv, Owners
    <2>1. CASE ParentSends
      <3>1. PICK c \in {"continue", "closing"} : commands' = Append(commands, c)
        BY <2>1 DEF ParentSends
      <3>2. commands' \in Seq({"continue", "closing"})
        <4>. DEFINE C == {"continue", "closing"}
        <4>1. commands \in Seq(C) /\ c \in C
          OBVIOUS
        <4>. HIDE DEF C
        <4>2. Append(commands, c) \in Seq(C)
          BY ONLY <4>1
        <4>. QED BY <4>2, <3>1 DEF C
      <3>3. owner' = owner /\ took' = took /\ claim' = claim /\ step' = step /\ report' = report
        BY <2>1 DEF ParentSends, stageVars
      <3>. QED BY <3>2, <3>3, <1>1 DEF ClaimInv
    <2>2. CASE Prepare
      BY <2>2 DEF Prepare, ClaimInv, stageVars
    <2>3. CASE Consent
      <3>1. step = "off" /\ ~error /\ owner = "consent" /\ claim = ""
        BY <2>3 DEF Consent, ClaimInv, StageInv, Running
      <3>2. commands' \in Seq({"continue", "closing"}) /\ took' \in BOOLEAN
        BY <2>3, CommandRead DEF Consent
      <3>3. owner' \in {"closing", "waiting", "failing"}
        BY <2>3 DEF Consent
      <3>. QED BY <2>3, <3>1, <3>2, <3>3 DEF Consent, ClaimInv, stageVars
    <2>4. CASE WaitReady
      BY <2>4 DEF WaitReady, ClaimInv, stageVars
    <2>5. CASE Use
      <3>1. commands' \in Seq({"continue", "closing"}) /\ took' \in BOOLEAN /\ (took => took')
        BY <2>5, CommandRead DEF Use, Closing
      <3>2. /\ owner = "using" /\ owner' \in {"closing", "failing"} /\ claim' = claim
            /\ step' = step /\ report' = report
        BY <2>5 DEF Use, Closing, stageVars
      <3>. QED BY <3>1, <3>2, <1>1 DEF ClaimInv
    <2>6. CASE AwaitIntent
      <3>1. commands' \in Seq({"continue", "closing"}) /\ took' \in BOOLEAN /\ (took => took')
        BY <2>6, CommandRead DEF AwaitIntent, Closing
      <3>2. /\ owner = "failing" /\ owner' \in {"closing", "abandoning"} /\ claim' = claim
            /\ step' = step /\ report' = report
        BY <2>6 DEF AwaitIntent, Closing, stageVars
      <3>. QED BY <3>1, <3>2, <1>1 DEF ClaimInv
    <2>7. CASE StopSession
      BY <2>7 DEF StopSession, ClaimInv, stageVars
    <2>8. CASE EndOwner
      BY <2>8 DEF EndOwner, StopClaim, ClaimInv, stageVars
    <2>. QED BY <2>1, <2>2, <2>3, <2>4, <2>5, <2>6, <2>7, <2>8 DEF OwnerAction, Owner
  <1>. QED BY <1>1, <1>2, OwnerKeeps

-----------------------------------------------------------------------------
(* The body of the stage.                                                    *)

LEMMA StartKeeps ==
  ASSUME IInv, Start
  PROVE  IInv'
  <1>. USE DEF IInv
  <1>1. /\ step = "off" /\ step' = "gates" /\ role' = role /\ program' = program
        /\ passed' = passed /\ open' = open /\ error' = error /\ intact' = intact
        /\ report' = report /\ pipe' = pipe /\ seen' = seen /\ control' = control
        /\ switch' = switch /\ left' = left /\ faulty' = faulty /\ held' = held
        /\ owner' = owner /\ commands' = commands /\ took' = took /\ claim' = claim
        /\ owner = (IF program = "direct" THEN "start" ELSE "waiting")
    BY DEF Start, worldVars, controlVars, ownerVars
  <1>. USE <1>1
  <1>2. TypeInv'
    <2>1. OpenInv' /\ Last' = Last /\ step' \in Steps
      BY OpenStays, SameNumbers DEF TypeInv, Steps
    <2>2. /\ role' \in {"a", "b"} /\ program' \in {"direct", "distributed"}
          /\ error' \in BOOLEAN /\ intact' \in BOOLEAN /\ report' \in Reports
          /\ switch' \in {"away", "here", "gone"} /\ faulty' \in BOOLEAN /\ held' \in BOOLEAN
      BY DEF TypeInv
    <2>3. /\ passed' \in 0..Last' + 1 /\ seen' \in 0..passed'
      BY <2>1 DEF TypeInv
    <2>4. /\ pipe' \in Seq(Nat) /\ control' \in {"waiting", "passed", "failed"} /\ owner' \in Owners
          /\ commands' \in Seq({"continue", "closing"}) /\ took' \in BOOLEAN
          /\ claim' \in {"", "released", "refused", "abandoned"}
      BY DEF TypeInv
    <2>. QED BY <2>1, <2>2, <2>3, <2>4 DEF TypeInv
  <1>3. StageInv'
    BY DEF StageInv, Running
  <1>4. ReleaseInv'
    BY DEF ReleaseInv, StageInv, Running, NoReport
  <1>5. ClaimInv'
    BY DEF ClaimInv
  <1>6. HeldInv'
    BY DEF HeldInv, AllPassed, Last, StageInv, NoReport
  <1>7. PipeInv'
    BY SameHolds
  <1>8. FaultInv'
    BY DEF FaultInv
  <1>. QED BY <1>2, <1>3, <1>4, <1>5, <1>6, <1>7, <1>8

LEMMA EnterKeeps ==
  ASSUME IInv, EnterContext
  PROVE  IInv'
  <1>. USE DEF IInv
  <1>. DEFINE next == Stack[Len(open) + 1]
  <1>1. /\ step = "gates" /\ Len(open) < Depth /\ role' = role /\ program' = program
        /\ passed' = passed /\ report' = report /\ switch' = switch /\ held' = held
        /\ pipe' = pipe /\ seen' = seen /\ control' = control
        /\ owner' = owner /\ commands' = commands /\ took' = took /\ claim' = claim
    BY DEF EnterContext, controlVars, ownerVars
  <1>2. CASE open' = Append(open, next) /\ UNCHANGED <<step, error, intact, left, faulty>>
    <2>. USE <1>1, <1>2
    <2>1. OpenInv' /\ Len(open') = Len(open) + 1 /\ Len(open) \in Nat
      <3>1. OpenInv /\ role \in {"a", "b"} /\ passed \in 0..Last + 1
        BY DEF TypeInv
      <3>. QED BY <3>1, OpenGrows, Numbers
    <2>2. TypeInv'
      <3>1. /\ step' \in Steps /\ error' \in BOOLEAN /\ intact' \in BOOLEAN
            /\ switch' \in {"away", "here", "gone"} /\ faulty' \in BOOLEAN
        BY DEF TypeInv
      <3>. QED BY <2>1, <3>1, TypeStays
    <2>3. StageInv'
      BY DEF StageInv, Running
    <2>4. ReleaseInv'
      <3>1. role = "b" => passed >= 3
        BY Numbers
      <3>. QED BY <2>1, <3>1 DEF ReleaseInv, StageInv, Running, NoReport
    <2>5. ClaimInv'
      BY DEF ClaimInv
    <2>6. HeldInv'
      BY DEF HeldInv, AllPassed, Last
    <2>7. PipeInv'
      BY SameHolds
    <2>8. FaultInv'
      BY DEF FaultInv
    <2>. QED BY <2>2, <2>3, <2>4, <2>5, <2>6, <2>7, <2>8
  <1>3. CASE /\ Raises /\ faulty' = (faulty \/ Opens(next)) /\ open' = open
             /\ \E leak \in {{}, {next}} : left' = left \cup (leak \ {"plane"})
    <2>1. step \in Running /\ UNCHANGED Mind /\ faulty' \in BOOLEAN /\ (faulty => faulty')
      BY <1>1, <1>3 DEF Running, Mind, controlVars, TypeInv
    <2>2. Plane = "injected" => faulty'
      BY <1>3 DEF Opens
    <2>3. ASSUME role = "b", left' # {}
          PROVE  passed = 3 /\ Len(open) < 6
      <3>1. left = {} /\ Len(open) \in Nat /\ passed \in Nat
        BY <1>1, Numbers DEF StageInv, Running
      <3>2. next # "plane"
        BY <3>1, <1>3, <2>3
      <3>3. /\ Len(open) < Depth /\ Depth <= 7 /\ Len(open) + 1 # 7 /\ Depth \in Nat
            /\ passed < 3 => Depth = 0
        <4>1. /\ Stack[7] = "plane" /\ Len(Stack) = 7 /\ Depth \in Nat /\ Depth <= Len(Stack)
              /\ passed < 3 => Depth = 0
          BY <2>3, Numbers
        <4>2. Len(open) + 1 # 7
          BY <4>1, <3>2
        <4>3. Len(open) < Depth
          BY <1>1
        <4>. QED BY <4>1, <4>2, <4>3
      <3>4. passed > 3 => Len(open) >= 6
        BY <1>1, <2>3 DEF ReleaseInv, Running
      <3>. DEFINE n == Len(open)
                  d == Depth
      <3>5. n \in Nat /\ n < d /\ d <= 7 /\ n + 1 # 7 /\ d \in Nat /\ (passed < 3 => d = 0)
        BY <3>1, <3>3
      <3>6. passed > 3 => n >= 6
        BY <3>4
      <3>. HIDE DEF n, d
      <3>7. passed = 3 /\ n < 6
        BY ONLY <3>1, <3>5, <3>6
      <3>. QED BY <3>7 DEF n
    <2>. QED BY <2>1, <2>2, <2>3, <1>1, <1>3, RaiseKeeps DEF TypeInv
  <1>. QED BY <1>1, <1>2, <1>3 DEF EnterContext

LEMMA PassGateKeeps ==
  ASSUME IInv, PassGate
  PROVE  IInv'
  <1>. USE DEF IInv
  <1>1. /\ step = "gates" /\ Len(open) = Depth /\ ~AllPassed /\ ~(role = "b" /\ passed = 8)
        /\ role' = role /\ program' = program /\ open' = open /\ error' = error
        /\ intact' = intact /\ report' = report /\ switch' = switch /\ left' = left
        /\ faulty' = faulty /\ held' = held /\ seen' = seen /\ control' = control
        /\ owner' = owner /\ commands' = commands /\ took' = took /\ claim' = claim
        /\ (NeedsSwitch => switch = "here")
        /\ report = NoReport /\ error = FALSE
    BY DEF PassGate, worldVars, StageInv, Running, TypeInv
  <1>. DEFINE n == IF role = "b" /\ passed = 5 THEN 2 ELSE 1
  <1>2. Pass(n) /\ n \in {1, 2}
    BY DEF PassGate
  <1>3. /\ passed' = passed + n /\ pipe' \in Seq(Nat)
        /\ program # "direct" => pipe' = pipe
        /\ program = "direct" => pipe' = IF n = 1 THEN Append(pipe, passed)
                                         ELSE Append(Append(pipe, passed), passed + 1)
    BY <1>2, PassWrites, Numbers DEF TypeInv
  <1>4. step' = CASE role = "a" /\ passed = 9 -> IF program = "direct" THEN "hold" ELSE "session"
                  [] role = "b" /\ passed = 7 -> "hold"
                  [] role = "b" /\ passed = 3 /\ program = "distributed" -> "checkpoint"
                  [] OTHER -> "gates"
    BY DEF PassGate
  <1>5. /\ role = "a" => passed' = passed + 1 /\ passed <= 9
        /\ role = "b" /\ passed = 5 => passed' = 7
        /\ role = "b" /\ passed # 5 => passed' = passed + 1
        /\ role = "b" => passed <= 7
    BY <1>1, <1>3, Numbers DEF AllPassed
  <1>6. role \in {"a", "b"} /\ program \in {"direct", "distributed"} /\ passed \in Nat
    BY Numbers DEF TypeInv
  <1>. HIDE DEF n
  <1>8. TypeInv'
    <2>1. passed' \in 0..Last' + 1
      BY <1>1, <1>5, <1>6, SameNumbers, Numbers
    <2>2. seen' \in 0..passed'
      BY <1>1, <1>5, <1>6, Numbers
    <2>3. OpenInv' /\ step' \in Steps
      BY <1>1, <1>4, <1>6, OpenStays DEF TypeInv, Steps
    <2>4. /\ role' \in {"a", "b"} /\ program' \in {"direct", "distributed"}
          /\ error' \in BOOLEAN /\ intact' \in BOOLEAN /\ report' \in Reports
          /\ switch' \in {"away", "here", "gone"} /\ faulty' \in BOOLEAN /\ held' \in BOOLEAN
      BY <1>1, <1>3 DEF TypeInv
    <2>5. /\ pipe' \in Seq(Nat) /\ control' \in {"waiting", "passed", "failed"}
          /\ owner' \in Owners /\ commands' \in Seq({"continue", "closing"}) /\ took' \in BOOLEAN
          /\ claim' \in {"", "released", "refused", "abandoned"}
      BY <1>1, <1>3 DEF TypeInv
    <2>. QED BY <2>1, <2>2, <2>3, <2>4, <2>5 DEF TypeInv
  <1>9. StageInv'
    <2>1. step' = "session" => program = "distributed"
      BY <1>4, <1>6
    <2>2. step' = "checkpoint" => role = "b" /\ passed' = 4
      BY <1>4, <1>5, <1>6
    <2>3. step' = "hold" => passed' = IF role = "a" THEN 10 ELSE 8
      BY <1>4, <1>5, <1>6
    <2>4. step' \in Running
      BY <1>4, <1>6 DEF Running
    <2>. QED BY <1>1, <2>1, <2>2, <2>3, <2>4 DEF StageInv, Running
  <1>10. ReleaseInv'
    <2>1. step' \in Running
      BY <1>4, <1>6 DEF Running
    <2>2. ASSUME role = "b"
          PROVE  /\ open' # <<>> => passed' >= 3
                 /\ passed' > 3 => Len(open') >= 6
      <3>1. (open # <<>> => passed >= 3) /\ (passed > 3 => Len(open) >= 6)
        BY <2>2, <1>1 DEF ReleaseInv, Running
      <3>2. passed = 3 => Len(open) = 6
        BY <2>2, <1>1, Numbers
      <3>3. passed' >= passed /\ (passed' > 3 => passed = 3 \/ passed > 3)
        BY <1>5, <1>6, <2>2
      <3>4. passed' \in Nat
        BY <1>5, <1>6, <2>2
      <3>. QED BY <1>1, <1>6, <3>1, <3>2, <3>3, <3>4
    <2>. QED BY <1>1, <2>1, <2>2 DEF ReleaseInv, Running, NoReport
  <1>11. ClaimInv'
    <2>1. program = "distributed" => owner \notin {"start", "consent"} /\ claim # "released"
      BY <1>1 DEF ClaimInv
    <2>. QED BY <1>1, <2>1 DEF ClaimInv
  <1>12. HeldInv'
    <2>1. role = "b" => ~(AllPassed)'
      BY <1>1, <1>5, <1>6, Numbers, SameNumbers DEF AllPassed
    <2>2. step' \in Running
      BY <1>4, <1>6 DEF Running
    <2>. QED BY <1>1, <2>1, <2>2 DEF HeldInv, Running, NoReport
  <1>13. PipeInv'
    <2>1. CASE program = "direct" /\ control = "waiting"
      <3>1. Holds(pipe, seen, passed, FALSE)
        BY <2>1, <1>1 DEF PipeInv, NoReport
      <3>2. Holds(Append(pipe, passed), seen, passed + 1, FALSE)
        BY <3>1, PipePasses, Numbers
      <3>3. Holds(Append(Append(pipe, passed), passed + 1), seen, passed + 1 + 1, FALSE)
        <4>1. passed + 1 \in Nat /\ seen \in Nat /\ seen <= passed + 1
          BY Numbers
        <4>. QED BY <4>1, <3>2, PipePasses
      <3>4. passed + 1 + 1 = passed + 2
        BY <1>6
      <3>5. Holds(pipe', seen, passed', FALSE)
        BY <1>2, <1>3, <3>2, <3>3, <3>4, <2>1
      <3>6. Holds(pipe, seen, passed, FALSE)'
        BY <3>5, <1>1, SameNumbers DEF Holds
      <3>. QED BY <2>1, <3>6, <1>1 DEF PipeInv, NoReport
    <2>2. CASE ~(program = "direct" /\ control = "waiting")
      BY <2>2, <1>1, <1>3, <1>6, SameNumbers DEF PipeInv
    <2>. QED BY <2>1, <2>2
  <1>14. FaultInv'
    <2>1. role = "b" /\ passed' > 5 => switch # "away"
      <3>1. role = "b" /\ passed' > 5 /\ ~(passed > 5) => passed = 5
        BY <1>5, <1>6
      <3>2. role = "b" /\ passed = 5 => switch = "here"
        BY <1>1 DEF NeedsSwitch, PeerWanted
      <3>. QED BY <3>1, <3>2 DEF FaultInv
    <2>. QED BY <1>1, <1>6, <2>1 DEF FaultInv, NoReport
  <1>. QED BY <1>8, <1>9, <1>10, <1>11, <1>12, <1>13, <1>14

LEMMA GateFailsKeeps ==
  ASSUME IInv, GateFails \/ Expires
  PROVE  IInv'
  <1>1. /\ step = "gates" /\ Raises /\ faulty' = TRUE /\ UNCHANGED Mind
        /\ left' = left /\ commands' = commands /\ took' = took
    BY DEF GateFails, Expires, DeadlineOf, Mind, ownerVars, controlVars
  <1>2. step \in Running /\ left = {}
    BY <1>1 DEF Running, IInv, StageInv
  <1>3. commands' \in Seq({"continue", "closing"}) /\ took' \in BOOLEAN
    BY <1>1 DEF IInv, TypeInv
  <1>. QED BY <1>1, <1>2, <1>3, RaiseKeeps

LEMMA HoldKeeps ==
  ASSUME IInv, Hold
  PROVE  IInv'
  <1>. USE DEF IInv
  <1>1. /\ step = "hold" /\ role' = role /\ program' = program /\ open' = open
        /\ report' = report /\ switch' = switch /\ left' = left /\ faulty' = faulty
        /\ seen' = seen /\ control' = control /\ owner' = owner /\ commands' = commands
        /\ took' = took /\ claim' = claim
        /\ report = NoReport /\ error = FALSE /\ left = {}
    BY DEF Hold, StageInv, Running, TypeInv
  <1>2. CASE switch # "here"
    <2>1. Raises /\ UNCHANGED Mind /\ step \in Running
      BY <1>1, <1>2 DEF Hold, Mind, controlVars, Running
    <2>2. switch = "gone"
      <3>1. role = "b" => passed > 5
        <4>1. role = "b" => passed = 8
          BY <1>1 DEF StageInv
        <4>. QED BY <4>1
      <3>. QED BY <3>1, <1>2 DEF FaultInv, TypeInv
    <2>3. faulty
      BY <2>2 DEF FaultInv
    <2>4. /\ commands' \in Seq({"continue", "closing"}) /\ took' \in BOOLEAN
          /\ faulty' \in BOOLEAN
      BY <1>1 DEF TypeInv
    <2>. QED BY <1>1, <2>1, <2>3, <2>4, RaiseKeeps
  <1>3. CASE switch = "here"
    <2>1. /\ IF role = "b" THEN Pass(1) ELSE UNCHANGED <<passed, pipe>>
          /\ held' = TRUE /\ error' = error /\ intact' = intact
          /\ step' = IF program = "direct" THEN "unwind" ELSE "session"
      BY <1>1, <1>3 DEF Hold
    <2>2. role \in {"a", "b"} /\ program \in {"direct", "distributed"} /\ passed \in Nat
      BY Numbers DEF TypeInv
    <2>3. /\ role = "a" => passed' = passed /\ pipe' = pipe
          /\ role = "b" => /\ passed = 8 /\ passed' = 9
                           /\ program # "direct" => pipe' = pipe
                           /\ program = "direct" => pipe' = Append(pipe, passed)
          /\ pipe' \in Seq(Nat)
      <3>1. CASE role = "a"
        BY <2>1, <3>1 DEF TypeInv
      <3>2. CASE role = "b"
        <4>1. Pass(1) /\ pipe \in Seq(Nat) /\ 1 \in {1, 2}
          BY <2>1, <3>2 DEF TypeInv
        <4>2. /\ passed' = passed + 1
              /\ program # "direct" => pipe' = pipe
              /\ program = "direct" => pipe' = Append(pipe, passed)
              /\ pipe' \in Seq(Nat)
          BY <4>1, <2>2, PassWrites
        <4>3. passed = 8
          BY <1>1, <3>2 DEF StageInv
        <4>. QED BY <3>2, <4>2, <4>3
      <3>. QED BY <2>2, <3>1, <3>2
    <2>4. TypeInv'
      <3>1. OpenInv' /\ Last' = Last
        BY <1>1, OpenStays, SameNumbers DEF TypeInv
      <3>2. passed' \in 0..Last' + 1 /\ seen' \in 0..passed'
        BY <1>1, <2>2, <2>3, <3>1, Numbers
      <3>3. step' \in Steps
        BY <2>1 DEF Steps
      <3>4. /\ role' \in {"a", "b"} /\ program' \in {"direct", "distributed"}
            /\ error' \in BOOLEAN /\ intact' \in BOOLEAN /\ report' \in Reports
            /\ switch' \in {"away", "here", "gone"} /\ faulty' \in BOOLEAN /\ held' \in BOOLEAN
        BY <1>1, <2>1 DEF TypeInv
      <3>5. /\ owner' \in Owners /\ commands' \in Seq({"continue", "closing"}) /\ took' \in BOOLEAN
            /\ claim' \in {"", "released", "refused", "abandoned"} /\ control' \in {"waiting", "passed", "failed"}
        BY <1>1, <2>1 DEF TypeInv
      <3>. QED BY <2>3, <3>1, <3>2, <3>3, <3>4, <3>5 DEF TypeInv
    <2>5. StageInv'
      BY <1>1, <2>1, <2>2 DEF StageInv, Running
    <2>6. ReleaseInv'
      <3>1. role = "b" => passed' = 9 /\ Len(open) >= 6
        BY <1>1, <2>3 DEF ReleaseInv, Running
      <3>. QED BY <1>1, <2>1, <3>1 DEF ReleaseInv, Running, NoReport
    <2>7. ClaimInv'
      <3>1. program = "distributed" => owner \notin {"start", "consent"} /\ claim # "released"
        BY <1>1 DEF ClaimInv
      <3>. QED BY <1>1, <3>1 DEF ClaimInv
    <2>8. HeldInv'
      BY <1>1, <2>1 DEF HeldInv, NoReport
    <2>9. PipeInv'
      <3>1. CASE program = "direct" /\ control = "waiting" /\ role = "b"
        <4>1. Holds(pipe, seen, passed, FALSE)
          BY <3>1, <1>1 DEF PipeInv, NoReport
        <4>2. Holds(Append(pipe, passed), seen, passed + 1, FALSE)
          BY <4>1, PipePasses, Numbers
        <4>3. Holds(pipe', seen, passed', FALSE)
          <5>1. pipe' = Append(pipe, passed) /\ passed' = passed + 1
            BY <2>3, <3>1
          <5>. QED BY <4>2, <5>1
        <4>4. Holds(pipe, seen, passed, FALSE)'
          BY <4>3, <1>1, SameNumbers DEF Holds
        <4>. QED BY <3>1, <4>4, <1>1 DEF PipeInv, NoReport
      <3>2. CASE program = "direct" /\ control = "waiting" /\ role = "a"
        BY <3>2, <1>1, <2>3, SameNumbers DEF PipeInv, Holds
      <3>3. CASE ~(program = "direct" /\ control = "waiting")
        BY <3>3, <1>1, <2>1, <2>2, <2>3, SameNumbers DEF PipeInv
      <3>. QED BY <2>2, <3>1, <3>2, <3>3
    <2>10. FaultInv'
      <3>1. role' = "a" \/ passed' > 5 => switch' # "away"
        BY <1>1, <1>3
      <3>. QED BY <1>1, <2>1, <3>1 DEF FaultInv, NoReport
    <2>. QED BY <2>4, <2>5, <2>6, <2>7, <2>8, <2>9, <2>10
  <1>. QED BY <1>2, <1>3

LEMMA StageConsentKeeps ==
  ASSUME IInv, StageConsent
  PROVE  IInv'
  <1>. USE DEF IInv
  <1>1. /\ step = "checkpoint" /\ role' = role /\ program' = program /\ passed' = passed
        /\ open' = open /\ report' = report /\ switch' = switch /\ left' = left /\ held' = held
        /\ pipe' = pipe /\ seen' = seen /\ control' = control /\ owner' = owner /\ claim' = claim
        /\ report = NoReport /\ error = FALSE /\ left = {} /\ step \in Running
    BY DEF StageConsent, controlVars, StageInv, Running, TypeInv
  <1>2. commands' \in Seq({"continue", "closing"}) /\ took' \in BOOLEAN /\ faulty' \in BOOLEAN
    BY CommandRead DEF StageConsent, TypeInv
  <1>3. CASE Raises
    <2>1. faulty => faulty'
      BY DEF StageConsent
    <2>2. faulty' \/ took'
      BY <1>1, <1>3 DEF StageConsent, Raises
    <2>. QED BY <1>1, <1>2, <1>3, <2>1, <2>2, RaiseKeeps DEF Mind, controlVars
  <1>4. CASE ~Raises
    <2>1. step' = "gates" /\ error' = error /\ intact' = intact /\ faulty' = faulty
      BY <1>4 DEF StageConsent
    <2>2. TypeInv'
      <3>1. OpenInv' /\ Last' = Last /\ step' \in Steps
        BY <1>1, <2>1, OpenStays, SameNumbers DEF TypeInv, Steps
      <3>. QED BY <1>1, <1>2, <2>1, <3>1 DEF TypeInv
    <2>3. StageInv'
      BY <1>1, <2>1 DEF StageInv, Running
    <2>4. ReleaseInv'
      BY <1>1, <2>1 DEF ReleaseInv, Running
    <2>5. ClaimInv'
      BY <1>1, <2>1 DEF ClaimInv
    <2>6. HeldInv'
      BY <1>1, <2>1, SameNumbers DEF HeldInv, AllPassed, NoReport
    <2>7. PipeInv'
      BY <1>1, SameHolds
    <2>8. FaultInv'
      BY <1>1, <2>1 DEF FaultInv
    <2>. QED BY <2>2, <2>3, <2>4, <2>5, <2>6, <2>7, <2>8
  <1>. QED BY <1>3, <1>4

LEMMA SessionKeeps ==
  ASSUME IInv, Session
  PROVE  IInv'
  <1>. USE DEF IInv
  <1>1. /\ step = "session" /\ role' = role /\ program' = program /\ passed' = passed
        /\ open' = open /\ report' = report /\ switch' = switch /\ left' = left /\ held' = held
        /\ pipe' = pipe /\ seen' = seen /\ control' = control /\ owner' = owner /\ claim' = claim
        /\ commands' = commands /\ took' = took
        /\ report = NoReport /\ error = FALSE /\ left = {} /\ step \in Running
        /\ program = "distributed"
    BY DEF Session, controlVars, ownerVars, StageInv, Running, TypeInv
  <1>2. CASE Raises /\ faulty' = TRUE
    BY <1>1, <1>2, RaiseKeeps DEF Mind, controlVars, TypeInv
  <1>3. CASE step' = "unwind" /\ UNCHANGED <<error, intact, faulty>>
    <2>1. step' = "unwind" /\ error' = error /\ intact' = intact /\ faulty' = faulty
      BY <1>3
    <2>2. TypeInv'
      <3>1. OpenInv' /\ Last' = Last /\ step' \in Steps
        BY <1>1, <2>1, OpenStays, SameNumbers DEF TypeInv, Steps
      <3>2. /\ role' \in {"a", "b"} /\ program' \in {"direct", "distributed"}
            /\ error' \in BOOLEAN /\ intact' \in BOOLEAN /\ report' \in Reports
            /\ switch' \in {"away", "here", "gone"} /\ faulty' \in BOOLEAN /\ held' \in BOOLEAN
        BY <1>1, <2>1 DEF TypeInv
      <3>3. passed' \in 0..Last' + 1 /\ seen' \in 0..passed' /\ pipe' \in Seq(Nat)
        BY <1>1, <3>1 DEF TypeInv
      <3>4. /\ owner' \in Owners /\ commands' \in Seq({"continue", "closing"}) /\ took' \in BOOLEAN
            /\ claim' \in {"", "released", "refused", "abandoned"} /\ control' \in {"waiting", "passed", "failed"}
        BY <1>1 DEF TypeInv
      <3>. QED BY <3>1, <3>2, <3>3, <3>4 DEF TypeInv
    <2>3. StageInv'
      BY <1>1, <2>1 DEF StageInv, Running
    <2>4. ReleaseInv'
      BY <1>1, <2>1 DEF ReleaseInv, Running
    <2>5. ClaimInv'
      BY <1>1, <2>1 DEF ClaimInv
    <2>6. HeldInv'
      BY <1>1, <2>1, SameNumbers DEF HeldInv, AllPassed, NoReport
    <2>7. PipeInv'
      BY <1>1, SameHolds
    <2>8. FaultInv'
      BY <1>1, <2>1 DEF FaultInv
    <2>. QED BY <2>2, <2>3, <2>4, <2>5, <2>6, <2>7, <2>8
  <1>. QED BY <1>2, <1>3 DEF Session

-----------------------------------------------------------------------------
(* The way out.                                                              *)

LEMMA UnwindKeeps ==
  ASSUME IInv, Unwind
  PROVE  IInv'
  <1>. USE DEF IInv
  <1>1. /\ step = "unwind" /\ open # <<>> /\ open' = SubSeq(open, 1, Len(open) - 1)
        /\ step' = step /\ role' = role /\ program' = program /\ passed' = passed
        /\ report' = report /\ switch' = switch /\ held' = held
        /\ pipe' = pipe /\ seen' = seen /\ control' = control /\ owner' = owner /\ claim' = claim
        /\ commands' = commands /\ took' = took /\ report = NoReport
    BY DEF Unwind, controlVars, ownerVars, StageInv
  <1>2. \/ error' = error /\ intact' = intact /\ left' = left /\ faulty' = faulty
        \/ error' = TRUE /\ intact' = FALSE /\ faulty' = TRUE
    BY DEF Unwind
  <1>3. TypeInv'
    <2>1. OpenInv' /\ Last' = Last
      BY <1>1, OpenShrinks, SameNumbers DEF TypeInv
    <2>2. error' \in BOOLEAN /\ intact' \in BOOLEAN /\ faulty' \in BOOLEAN
      BY <1>2 DEF TypeInv
    <2>. QED BY <1>1, <2>1, <2>2 DEF TypeInv
  <1>4. StageInv'
    BY <1>1 DEF StageInv, Running
  <1>5. ReleaseInv'
    <2>1. role = "b" => passed >= 3
      BY <1>1 DEF ReleaseInv
    <2>2. step' = "unwind" /\ report'.released = "absent" /\ report'.quiet = "absent"
      BY <1>1 DEF NoReport
    <2>3. role = "b" /\ left' # {} => error' /\ ~intact'
      BY <1>1, <1>2 DEF ReleaseInv
    <2>. QED BY <1>1, <2>1, <2>2, <2>3 DEF ReleaseInv, Running
  <1>6. ClaimInv'
    BY <1>1 DEF ClaimInv
  <1>7. HeldInv'
    BY <1>1, <1>2, SameNumbers DEF HeldInv, AllPassed, NoReport
  <1>8. PipeInv'
    BY <1>1, SameHolds
  <1>9. FaultInv'
    BY <1>1, <1>2 DEF FaultInv, NoReport
  <1>. QED BY <1>3, <1>4, <1>5, <1>6, <1>7, <1>8, <1>9

LEMMA ConcludeKeeps ==
  ASSUME IInv, Conclude
  PROVE  IInv'
  <1>. USE DEF IInv
  <1>. DEFINE released == IF role = "b" THEN IF Released THEN "yes" ELSE "no" ELSE "absent"
  <1>1. /\ step = "unwind" /\ open = <<>> /\ step' = "over"
        /\ role' = role /\ program' = program /\ passed' = passed /\ open' = open
        /\ error' = error /\ intact' = intact /\ faulty' = faulty /\ left' = left
        /\ switch' = switch /\ held' = held
        /\ pipe' = pipe /\ seen' = seen /\ control' = control /\ owner' = owner /\ claim' = claim
        /\ commands' = commands /\ took' = took /\ report = NoReport
    BY DEF Conclude, worldVars, controlVars, ownerVars, StageInv
  <1>2. report' = [status |-> Outcome, gates |-> passed, released |-> released, quiet |-> "absent"]
    BY DEF Conclude, NoReport
  <1>3. passed \in Nat /\ role \in {"a", "b"} /\ Outcome \in {"passed", "failed"} /\ released \in Answers
    BY Numbers DEF Outcome, Answers, TypeInv
  <1>4. /\ report'.status = Outcome /\ report'.gates = passed /\ report'.quiet = "absent"
        /\ report'.released = released /\ report' \in Reports
    BY <1>2, <1>3 DEF Reports, Answers
  <1>5. TypeInv'
    <2>1. OpenInv' /\ Last' = Last /\ step' \in Steps
      BY <1>1, OpenStays, SameNumbers DEF TypeInv, Steps
    <2>2. report' \in Reports
      BY <1>4
    <2>. HIDE DEF released
    <2>3. /\ role' \in {"a", "b"} /\ program' \in {"direct", "distributed"}
          /\ error' \in BOOLEAN /\ intact' \in BOOLEAN
          /\ switch' \in {"away", "here", "gone"} /\ faulty' \in BOOLEAN /\ held' \in BOOLEAN
      BY <1>1 DEF TypeInv
    <2>4. passed' \in 0..Last' + 1 /\ seen' \in 0..passed'
      BY <1>1, <2>1 DEF TypeInv
    <2>5. /\ pipe' \in Seq(Nat) /\ control' \in {"waiting", "passed", "failed"}
          /\ owner' \in Owners /\ commands' \in Seq({"continue", "closing"}) /\ took' \in BOOLEAN
          /\ claim' \in {"", "released", "refused", "abandoned"}
      BY <1>1 DEF TypeInv
    <2>. QED BY <2>1, <2>2, <2>3, <2>4, <2>5 DEF TypeInv
  <1>6. StageInv'
    BY <1>1 DEF StageInv, Running
  <1>7. ReleaseInv'
    <2>1. role = "b" => released = IF Released THEN "yes" ELSE "no"
      OBVIOUS
    <2>2. role = "b" /\ Released => left = {}
      BY <1>1, <1>3 DEF Released, ReleaseInv
    <2>. HIDE DEF released
    <2>3. role = "b" => /\ report'.released = "yes" => left' = {}
                        /\ report'.released # "absent"
      BY <1>1, <1>4, <2>1, <2>2
    <2>. QED BY <1>1, <1>4, <2>3 DEF ReleaseInv, Running
  <1>8. ClaimInv'
    BY <1>1 DEF ClaimInv
  <1>9. HeldInv'
    <2>1. report'.status = "passed" => ~error \/ (role = "b" /\ AllPassed)
      BY <1>4 DEF Outcome
    <2>2. program = "direct" /\ report'.status = "passed" => held
      BY <1>1, <2>1 DEF HeldInv
    <2>. QED BY <1>1, <1>4, <2>2, SameNumbers DEF HeldInv, AllPassed
  <1>10. PipeInv'
    <2>1. (report.quiet # "absent") = FALSE /\ (report'.quiet # "absent") = FALSE
      BY <1>1, <1>4 DEF NoReport
    <2>. QED BY <1>1, <2>1, SameNumbers DEF PipeInv, Holds
  <1>11. FaultInv'
    <2>1. report'.status = "failed" => error
      BY <1>4 DEF Outcome, TypeInv
    <2>. QED BY <1>1, <2>1 DEF FaultInv
  <1>. QED BY <1>5, <1>6, <1>7, <1>8, <1>9, <1>10, <1>11

\* A stage that is gone leaves its contexts behind; who claimed a release had left them before.
LEMMA DeadKeeps ==
  ASSUME IInv, step \notin {"off"}, step' = "dead", open' = <<>>,
         left' = left \cup {open[i] : i \in DOMAIN open},
         UNCHANGED <<role, program, passed, error, intact, report, switch, held, seen, ownerVars>>,
         faulty' \in BOOLEAN, faulty => faulty', control' \in {"waiting", "failed"},
         pipe' \in Seq(Nat), program = "direct" => control' = "failed",
         program = "distributed" => /\ owner = "ended" /\ step # "over"
                                    /\ pipe' = pipe /\ control' = control
  PROVE  IInv'
  <1>. USE DEF IInv
  <1>1. /\ role' = role /\ program' = program /\ passed' = passed /\ error' = error
        /\ intact' = intact /\ report' = report /\ switch' = switch /\ held' = held /\ seen' = seen
        /\ owner' = owner /\ commands' = commands /\ took' = took /\ claim' = claim
    BY DEF ownerVars
  <1>2. open = <<>> => left' = left
    OBVIOUS
  <1>3. TypeInv'
    <2>1. OpenInv' /\ Last' = Last /\ step' \in Steps
      BY <1>1, OpenEmpty, SameNumbers DEF TypeInv, Steps
    <2>2. /\ role' \in {"a", "b"} /\ program' \in {"direct", "distributed"}
          /\ error' \in BOOLEAN /\ intact' \in BOOLEAN /\ report' \in Reports
          /\ switch' \in {"away", "here", "gone"} /\ faulty' \in BOOLEAN /\ held' \in BOOLEAN
      BY <1>1 DEF TypeInv
    <2>3. passed' \in 0..Last' + 1 /\ seen' \in 0..passed'
      BY <1>1, <2>1 DEF TypeInv
    <2>4. /\ pipe' \in Seq(Nat) /\ control' \in {"waiting", "passed", "failed"}
          /\ owner' \in Owners /\ commands' \in Seq({"continue", "closing"}) /\ took' \in BOOLEAN
          /\ claim' \in {"", "released", "refused", "abandoned"}
      BY <1>1 DEF TypeInv
    <2>. QED BY <2>1, <2>2, <2>3, <2>4 DEF TypeInv
  <1>4. StageInv'
    BY <1>1 DEF StageInv, Running
  <1>5. ReleaseInv'
    <2>1. step \in {"over", "dead"} => left' = left
      BY <1>2 DEF StageInv
    <2>2. step \notin {"over", "dead"} => report.released = "absent" /\ report.quiet = "absent"
      BY DEF StageInv, NoReport
    <2>. QED BY <1>1, <2>1, <2>2 DEF ReleaseInv, Running
  <1>6. ClaimInv'
    <2>1. claim # "released"
      BY DEF ClaimInv
    <2>. QED BY <1>1, <2>1 DEF ClaimInv
  <1>7. HeldInv'
    BY <1>1, SameNumbers DEF HeldInv, AllPassed
  <1>8. PipeInv'
    BY <1>1, SameNumbers DEF PipeInv, TypeInv
  <1>9. FaultInv'
    BY <1>1 DEF FaultInv
  <1>. QED BY <1>3, <1>4, <1>5, <1>6, <1>7, <1>8, <1>9

LEMMA GiveUpKeeps ==
  ASSUME IInv, GiveUp
  PROVE  IInv'
  <1>1. <<>> \in Seq(Nat)
    OBVIOUS
  <1>. QED BY <1>1, DeadKeeps DEF GiveUp

LEMMA ExitKeeps ==
  ASSUME IInv, Exit
  PROVE  IInv'
  <1>1. program = "distributed" => control \in {"waiting", "failed"}
    BY DEF IInv, PipeInv
  <1>2. /\ pipe' = pipe /\ control' = control /\ seen' = seen /\ faulty' = faulty
        /\ program = "distributed" /\ owner = "ended" /\ step \notin {"off", "over"}
    BY DEF Exit, controlVars
  <1>3. pipe \in Seq(Nat) /\ faulty \in BOOLEAN
    BY DEF IInv, TypeInv
  <1>. QED BY <1>1, <1>2, <1>3, DeadKeeps DEF Exit, controlVars

-----------------------------------------------------------------------------
(* The report, the control process, and the Switch.                          *)

LEMMA DirectReportKeeps ==
  ASSUME IInv, DirectReport
  PROVE  IInv'
  <1>. USE DEF IInv
  <1>1. /\ program = "direct" /\ step = "over" /\ report.quiet = "absent" /\ step' = step
        /\ role' = role /\ program' = program /\ passed' = passed /\ open' = open
        /\ error' = error /\ intact' = intact /\ seen' = seen /\ control' = control
        /\ switch' = switch /\ held' = held /\ owner' = owner /\ claim' = claim
        /\ commands' = commands /\ took' = took /\ pipe' = Append(pipe, Last + 1)
    BY DEF DirectReport, ownerVars
  <1>2. PICK q \in {"yes", "no"} :
          /\ report' = [report EXCEPT !.quiet = q,
                          !.released = IF role = "a" THEN "yes" ELSE report.released]
          /\ q = "yes" => left' = Quiesced /\ faulty' = faulty
          /\ q = "no" => left' = left /\ faulty' = TRUE
    BY DEF DirectReport
  <1>3. /\ report'.status = report.status /\ report'.gates = report.gates /\ report'.quiet = q
        /\ role = "b" => report'.released = report.released
        /\ report' \in Reports
    BY <1>2 DEF TypeInv, Reports, Answers
  <1>4. TypeInv'
    <2>1. OpenInv' /\ Last' = Last
      BY <1>1, OpenStays, SameNumbers DEF TypeInv
    <2>2. pipe' \in Seq(Nat)
      <3>. DEFINE l == Last + 1
      <3>1. l \in Nat
        BY Numbers
      <3>2. pipe \in Seq(Nat) /\ pipe' = Append(pipe, l)
        BY <1>1 DEF TypeInv
      <3>. HIDE DEF l
      <3>. QED BY ONLY <3>1, <3>2
    <2>3. faulty' \in BOOLEAN
      BY <1>2 DEF TypeInv
    <2>4. report' \in Reports
      BY <1>3
    <2>5. /\ role' \in {"a", "b"} /\ program' \in {"direct", "distributed"}
          /\ error' \in BOOLEAN /\ intact' \in BOOLEAN
          /\ switch' \in {"away", "here", "gone"} /\ faulty' \in BOOLEAN /\ held' \in BOOLEAN
      BY <1>1, <2>3 DEF TypeInv
    <2>6. passed' \in 0..Last' + 1 /\ seen' \in 0..passed' /\ step' \in Steps
      BY <1>1, <2>1 DEF TypeInv
    <2>7. /\ owner' \in Owners /\ commands' \in Seq({"continue", "closing"}) /\ took' \in BOOLEAN
          /\ claim' \in {"", "released", "refused", "abandoned"} /\ control' \in {"waiting", "passed", "failed"}
      BY <1>1 DEF TypeInv
    <2>. QED BY <2>1, <2>2, <2>4, <2>5, <2>6, <2>7 DEF TypeInv
  <1>5. StageInv'
    BY <1>1 DEF StageInv, Running
  <1>6. ReleaseInv'
    <2>1. role = "b" => (left = {} => left' = {}) /\ (q = "yes" => left' \cap RadioContexts = {})
      BY <1>2 DEF Quiesced
    <2>. QED BY <1>1, <1>3, <2>1 DEF ReleaseInv, Running
  <1>7. ClaimInv'
    BY <1>1 DEF ClaimInv
  <1>8. HeldInv'
    BY <1>1, <1>3, SameNumbers DEF HeldInv, AllPassed
  <1>9. PipeInv'
    <2>1. CASE control = "waiting"
      <3>1. Holds(pipe, seen, passed, FALSE)
        BY <2>1, <1>1 DEF PipeInv
      <3>2. Holds(Append(pipe, Last + 1), seen, passed, TRUE)
        BY <3>1, PipeReports, Numbers
      <3>3. Holds(pipe, seen, passed, TRUE)'
        BY <3>2, <1>1, SameNumbers DEF Holds
      <3>4. (report'.quiet # "absent") = TRUE
        BY <1>3
      <3>. QED BY <1>1, <2>1, <3>3, <3>4 DEF PipeInv
    <2>2. CASE control # "waiting"
      BY <2>2, <1>1, SameNumbers DEF PipeInv
    <2>. QED BY <2>1, <2>2
  <1>10. FaultInv'
    BY <1>1, <1>2, <1>3 DEF FaultInv
  <1>. QED BY <1>4, <1>5, <1>6, <1>7, <1>8, <1>9, <1>10

LEMMA ControlKeeps ==
  ASSUME IInv, TakeGate \/ TakeReport
  PROVE  IInv'
  <1>. USE DEF IInv
  <1>1. /\ control = "waiting" /\ pipe # <<>> /\ pipe' = Tail(pipe)
        /\ role' = role /\ program' = program /\ step' = step /\ passed' = passed /\ open' = open
        /\ error' = error /\ intact' = intact /\ report' = report
        /\ switch' = switch /\ left' = left /\ faulty' = faulty /\ held' = held
        /\ owner' = owner /\ commands' = commands /\ took' = took /\ claim' = claim
    BY DEF TakeGate, TakeReport, stageVars, worldVars, ownerVars
  <1>. DEFINE reported == report.quiet # "absent"
  <1>2. program = "direct" /\ Holds(pipe, seen, passed, reported) /\ reported \in BOOLEAN
    BY <1>1 DEF PipeInv, TypeInv
  <1>. HIDE DEF reported
  <1>3. /\ Head(pipe) <= Last => /\ seen < passed /\ Head(pipe) = seen
                                 /\ Holds(Tail(pipe), seen + 1, passed, reported)
        /\ Head(pipe) = Last + 1 => seen = passed /\ reported
    BY <1>1, <1>2, PipeCounts, Numbers
  <1>4. \/ seen' = seen + 1 /\ control' = control /\ seen < passed
           /\ Holds(Tail(pipe), seen + 1, passed, reported)
        \/ seen' = seen /\ control' = "failed"
        \/ seen' = seen /\ control' = "passed" /\ seen = Last + 1 /\ held
    <2>1. CASE TakeGate
      BY <2>1, <1>3 DEF TakeGate
    <2>2. CASE TakeReport
      <3>1. seen' = seen /\ seen = passed
        BY <2>2, <1>3 DEF TakeReport
      <3>2. CASE report.status = "passed" /\ Valid
        <4>1. control' = "passed" /\ report.gates = Last + 1
          BY <2>2, <3>2 DEF TakeReport, Valid
        <4>2. held /\ report.gates = passed
          BY <1>2, <3>2 DEF HeldInv
        <4>. QED BY <3>1, <4>1, <4>2
      <3>3. CASE ~(report.status = "passed" /\ Valid)
        BY <2>2, <3>1, <3>3 DEF TakeReport
      <3>. QED BY <3>2, <3>3
    <2>. QED BY <2>1, <2>2
  <1>5. TypeInv'
    <2>1. OpenInv' /\ Last' = Last
      BY <1>1, OpenStays, SameNumbers DEF TypeInv
    <2>2. pipe' \in Seq(Nat)
      <3>1. pipe \in Seq(Nat) /\ pipe # <<>> /\ pipe' = Tail(pipe)
        BY <1>1 DEF TypeInv
      <3>. QED BY ONLY <3>1
    <2>3. seen' \in 0..passed' /\ control' \in {"waiting", "passed", "failed"}
      BY <1>1, <1>4, Numbers
    <2>4. /\ role' \in {"a", "b"} /\ program' \in {"direct", "distributed"}
          /\ error' \in BOOLEAN /\ intact' \in BOOLEAN /\ report' \in Reports
          /\ switch' \in {"away", "here", "gone"} /\ faulty' \in BOOLEAN /\ held' \in BOOLEAN
      BY <1>1 DEF TypeInv
    <2>5. passed' \in 0..Last' + 1 /\ step' \in Steps
      BY <1>1, <2>1 DEF TypeInv
    <2>6. /\ owner' \in Owners /\ commands' \in Seq({"continue", "closing"}) /\ took' \in BOOLEAN
          /\ claim' \in {"", "released", "refused", "abandoned"}
      BY <1>1 DEF TypeInv
    <2>. QED BY <2>1, <2>2, <2>3, <2>4, <2>5, <2>6 DEF TypeInv
  <1>6. StageInv'
    BY <1>1 DEF StageInv
  <1>7. ReleaseInv'
    BY <1>1 DEF ReleaseInv
  <1>8. ClaimInv'
    BY <1>1 DEF ClaimInv
  <1>9. HeldInv'
    BY <1>1, SameNumbers DEF HeldInv, AllPassed
  <1>10. PipeInv'
    <2>1. CASE control' = "waiting"
      <3>1. seen' = seen + 1 /\ Holds(Tail(pipe), seen + 1, passed, reported)
        BY <2>1, <1>1, <1>4
      <3>2. Holds(pipe', seen', passed', reported')
        BY <3>1, <1>1 DEF reported
      <3>3. Holds(pipe, seen, passed, reported)'
        BY <3>2, <1>1, SameNumbers DEF Holds
      <3>. QED BY <3>3, <2>1, <1>1, <1>2 DEF PipeInv, reported
    <2>2. CASE control' # "waiting"
      BY <2>2, <1>1, <1>2, <1>4, SameNumbers DEF PipeInv
    <2>. QED BY <2>1, <2>2
  <1>11. FaultInv'
    BY <1>1 DEF FaultInv
  <1>. QED BY <1>5, <1>6, <1>7, <1>8, <1>9, <1>10, <1>11

LEMMA SwitchKeeps ==
  ASSUME IInv, SwitchMoves
  PROVE  IInv'
  <1>. USE DEF IInv
  <1>1. /\ role' = role /\ program' = program /\ step' = step /\ passed' = passed /\ open' = open
        /\ error' = error /\ intact' = intact /\ report' = report /\ left' = left /\ held' = held
        /\ pipe' = pipe /\ seen' = seen /\ control' = control
        /\ owner' = owner /\ commands' = commands /\ took' = took /\ claim' = claim
    BY DEF SwitchMoves, stageVars, controlVars, ownerVars
  <1>2. \/ switch' = "here" /\ faulty' = faulty
        \/ switch' = "gone" /\ faulty' = TRUE
    BY DEF SwitchMoves
  <1>3. TypeInv'
    <2>1. OpenInv' /\ Last' = Last
      BY <1>1, OpenStays, SameNumbers DEF TypeInv
    <2>2. faulty' \in BOOLEAN /\ switch' \in {"away", "here", "gone"}
      BY <1>2 DEF TypeInv
    <2>. QED BY <1>1, <2>1, <2>2 DEF TypeInv
  <1>4. StageInv'
    BY <1>1 DEF StageInv
  <1>5. ReleaseInv'
    BY <1>1 DEF ReleaseInv
  <1>6. ClaimInv'
    BY <1>1 DEF ClaimInv
  <1>7. HeldInv'
    BY <1>1, SameNumbers DEF HeldInv, AllPassed
  <1>8. PipeInv'
    BY <1>1, SameHolds
  <1>9. FaultInv'
    BY <1>1, <1>2 DEF FaultInv
  <1>. QED BY <1>3, <1>4, <1>5, <1>6, <1>7, <1>8, <1>9

LEMMA NothingKeeps ==
  ASSUME IInv, UNCHANGED vars
  PROVE  IInv'
  <1>. USE DEF IInv
  <1>1. /\ role' = role /\ program' = program /\ step' = step /\ passed' = passed /\ open' = open
        /\ error' = error /\ intact' = intact /\ report' = report /\ left' = left /\ held' = held
        /\ switch' = switch /\ faulty' = faulty /\ pipe' = pipe /\ seen' = seen
        /\ control' = control /\ owner' = owner /\ commands' = commands /\ took' = took
        /\ claim' = claim
    BY DEF vars, stageVars, worldVars, controlVars, ownerVars
  <1>2. TypeInv'
    <2>1. OpenInv'
      BY <1>1, OpenStays DEF TypeInv
    <2>2. /\ step' \in Steps /\ error' \in BOOLEAN /\ intact' \in BOOLEAN
          /\ switch' \in {"away", "here", "gone"} /\ faulty' \in BOOLEAN
      BY <1>1 DEF TypeInv
    <2>. QED BY <1>1, <2>1, <2>2, TypeStays
  <1>3. PipeInv'
    BY <1>1, SameHolds
  <1>4. StageInv' /\ ReleaseInv'
    BY <1>1 DEF StageInv, ReleaseInv
  <1>5. ClaimInv' /\ FaultInv'
    BY <1>1 DEF ClaimInv, FaultInv
  <1>6. HeldInv'
    BY <1>1, SameNumbers DEF HeldInv, AllPassed
  <1>. QED BY <1>2, <1>3, <1>4, <1>5, <1>6

-----------------------------------------------------------------------------
(* The theorems.                                                             *)

LEMMA Starts == Init => IInv
  <1>. SUFFICES ASSUME Init PROVE IInv
    OBVIOUS
  <1>1. role \in {"a", "b"} /\ program \in {"direct", "distributed"}
    BY StageAssumption DEF Init
  <1>2. step = "off" /\ control = "waiting" /\ owner = "start" /\ claim = "" /\ report = NoReport
    BY DEF Init
  <1>3. passed = 0 /\ seen = 0
    BY DEF Init
  <1>4. open = <<>> /\ pipe = <<>> /\ commands = <<>>
    BY DEF Init
  <1>5. ~error /\ error \in BOOLEAN /\ intact \in BOOLEAN /\ faulty \in BOOLEAN
    BY DEF Init
  <1>6. held \in BOOLEAN /\ took \in BOOLEAN
    BY DEF Init
  <1>7. switch \in {"away", "here"} /\ (role = "a" => switch = "here") /\ left = {}
    BY DEF Init
  <1>8. Last \in Nat /\ Last >= 8
    BY DEF Last
  <1>9. Len(Stack) \in Nat
    <2>1. CASE role = "a"
      BY <2>1 DEF Stack
    <2>2. CASE role = "b"
      BY <2>2 DEF Stack
    <2>. QED BY <1>1, <2>1, <2>2
  <1>10. TypeInv
    <2>1. OpenInv
      BY <1>4, <1>9 DEF OpenInv
    <2>2. report \in Reports
      BY <1>2 DEF NoReport, Reports, Answers
    <2>3. pipe \in Seq(Nat) /\ commands \in Seq({"continue", "closing"})
      BY <1>4
    <2>4. /\ step \in Steps /\ owner \in Owners /\ control \in {"waiting", "passed", "failed"}
          /\ claim \in {"", "released", "refused", "abandoned"}
      BY <1>2 DEF Steps, Owners
    <2>5. passed \in 0..Last + 1 /\ seen \in 0..passed
      BY <1>3, <1>8
    <2>6. switch \in {"away", "here", "gone"}
      BY <1>7
    <2>. QED BY <1>1, <1>5, <1>6, <2>1, <2>2, <2>3, <2>4, <2>5, <2>6 DEF TypeInv
  <1>11. StageInv
    BY <1>2, <1>3, <1>4, <1>5, <1>7 DEF StageInv, Running
  <1>12. report.released = "absent" /\ report.quiet = "absent" /\ report.status = "none"
    BY <1>2 DEF NoReport
  <1>13. ReleaseInv
    BY <1>2, <1>3, <1>4, <1>7, <1>12 DEF ReleaseInv, Running
  <1>14. ClaimInv
    BY <1>2 DEF ClaimInv
  <1>15. HeldInv
    <2>1. ~AllPassed
      BY <1>3, <1>8 DEF AllPassed
    <2>2. step = "off"
      BY <1>2
    <2>. QED BY <1>12, <2>1, <2>2 DEF HeldInv
  <1>16. PipeInv
    <2>1. (report.quiet # "absent") = FALSE
      BY <1>12
    <2>2. Holds(pipe, seen, passed, FALSE)
      BY <1>3, <1>4 DEF Holds
    <2>. QED BY <1>2, <1>4, <2>1, <2>2 DEF PipeInv
  <1>17. FaultInv
    BY <1>1, <1>3, <1>5, <1>7, <1>12 DEF FaultInv
  <1>. QED BY <1>10, <1>11, <1>13, <1>14, <1>15, <1>16, <1>17 DEF IInv

LEMMA StepKeeps == IInv /\ [Next]_vars => IInv'
  <1>. SUFFICES ASSUME IInv, [Next]_vars PROVE IInv'
    OBVIOUS
  <1>1. CASE Start
    BY <1>1, StartKeeps
  <1>2. CASE EnterContext
    BY <1>2, EnterKeeps
  <1>3. CASE PassGate
    BY <1>3, PassGateKeeps
  <1>4. CASE GateFails \/ Expires
    BY <1>4, GateFailsKeeps
  <1>5. CASE Hold
    BY <1>5, HoldKeeps
  <1>6. CASE Session
    BY <1>6, SessionKeeps
  <1>7. CASE Unwind
    BY <1>7, UnwindKeeps
  <1>8. CASE Conclude
    BY <1>8, ConcludeKeeps
  <1>9. CASE StageConsent
    BY <1>9, StageConsentKeeps
  <1>10. CASE DirectReport
    BY <1>10, DirectReportKeeps
  <1>11. CASE TakeGate \/ TakeReport
    BY <1>11, ControlKeeps
  <1>12. CASE GiveUp
    BY <1>12, GiveUpKeeps
  <1>13. CASE OwnerAction
    BY <1>13, OwnerActionKeeps
  <1>14. CASE Exit
    BY <1>14, ExitKeeps
  <1>15. CASE SwitchMoves
    BY <1>15, SwitchKeeps
  <1>16. CASE UNCHANGED vars
    BY <1>16, NothingKeeps
  <1>. QED BY <1>1, <1>2, <1>3, <1>4, <1>5, <1>6, <1>7, <1>8, <1>9, <1>10, <1>11, <1>12,
              <1>13, <1>14, <1>15, <1>16 DEF Next, StageThread, Control, OwnerAction

LEMMA Invariant == Spec => []IInv
  BY Starts, StepKeeps, PTL DEF Spec

\* ReleaseIsReal: a release the D stage claims is the end of the stage, on B with nothing left
\* behind, and a radio the report calls quiet has no interface running (StageSession.stop,
\* _tracked_network_context, quiesce_selected_phy).
THEOREM StageReleaseIsReal == Spec => []ReleaseIsReal
  <1>1. IInv => ReleaseIsReal
    <2>. SUFFICES ASSUME IInv PROVE ReleaseIsReal
      OBVIOUS
    <2>. USE DEF IInv
    <2>1. StageTypeOK
      <3>1. open = SubSeq(Stack, 1, Len(open))
        <4>. DEFINE n == Len(open)
                    whole == Stack
        <4>0. OpenInv
          BY DEF TypeInv
        <4>1. /\ open \in Seq(Contexts) /\ n \in Nat /\ n <= Len(whole) /\ Len(open) = n
              /\ \A i \in 1..n : open[i] = whole[i]
          BY <4>0 DEF OpenInv
        <4>2. whole \in Seq(Contexts)
          BY Shape DEF TypeInv
        <4>. HIDE DEF n, whole
        <4>3. \A i \in 1..n : whole[i] \in Contexts
          BY <4>1, <4>2
        <4>4. 1 \in Int /\ n \in Int /\ n - 1 + 1 = n /\ (~(1 <= n) => n = 0)
          BY <4>1
        <4>5. /\ SubSeq(whole, 1, n) \in Seq(Contexts)
              /\ Len(SubSeq(whole, 1, n)) = IF 1 <= n THEN n - 1 + 1 ELSE 0
              /\ \A i \in 1..n - 1 + 1 : SubSeq(whole, 1, n)[i] = whole[1 + i - 1]
          BY ONLY <4>3, <4>4, SubSeqProperties
        <4>6. Len(SubSeq(whole, 1, n)) = n
          BY ONLY <4>4, <4>5
        <4>7. \A i \in 1..n : SubSeq(whole, 1, n)[i] = whole[i]
          <5>. TAKE i \in 1..n
          <5>1. i \in 1..n - 1 + 1 /\ 1 + i - 1 = i
            BY <4>4
          <5>. QED BY <5>1, <4>5
        <4>. DEFINE part == SubSeq(whole, 1, n)
        <4>8. part \in Seq(Contexts) /\ Len(part) = n /\ \A i \in 1..n : part[i] = open[i]
          BY <4>1, <4>5, <4>6, <4>7
        <4>. HIDE DEF part
        <4>9. open = part
          BY ONLY <4>1, <4>8, SeqEqual
        <4>. QED BY <4>9 DEF part, n, whole
      <3>2. passed \in 0..Last + 1 /\ seen \in 0..Last + 1
        BY Numbers
      <3>. QED BY <3>1, <3>2 DEF StageTypeOK, TypeInv, Steps, Owners, Reports
    <2>2. ReleasedMeansExited
      BY DEF ReleasedMeansExited, StageInv, ReleaseInv, ClaimInv, Running
    <2>3. QuietMeansStopped
      BY DEF QuietMeansStopped, ReleaseInv
    <2>. QED BY <2>1, <2>2, <2>3 DEF ReleaseIsReal
  <1>. QED BY <1>1, Invariant, PTL

\* PassedMeansHeld: the control calls a run passed when it has counted every gate, in order, and
\* a bounded hold has ended with the Switch in the room (ConnectionRunExecutor._run, _hold).
THEOREM StagePassedMeansHeld == Spec => []PassedMeansHeld
  <1>1. IInv => PassedMeansHeld
    BY DEF IInv, PipeInv, PassedMeansHeld
  <1>. QED BY <1>1, Invariant, PTL

\* NoFailureWithoutFault: with a data plane that is given to the stage, a stage fails only when
\* something around it did (the gates of run; StagePlane.cfg shows the other plane).
THEOREM StageFaultless ==
  ASSUME Plane = "injected"
  PROVE  Spec => []NoFailureWithoutFault
  <1>1. IInv => NoFailureWithoutFault
    BY DEF IInv, FaultInv, NoFailureWithoutFault
  <1>. QED BY <1>1, Invariant, PTL
=============================================================================
