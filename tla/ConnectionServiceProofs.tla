---------------------- MODULE ConnectionServiceProofs ----------------------
(***************************************************************************)
(* The connection service, for any number of commands, repeats, runs and    *)
(* crashes, and any length of its queue and of what it remembers.           *)
(*                                                                         *)
(* OnceInv: a command whose revision is still the present one has not been  *)
(* applied, in the queue and in the hands of the user interface; applying   *)
(* any command outdates them all.  QueueInv: nothing of the present run     *)
(* is in the queue before its thread starts or behind its "finished".       *)
(* RunInv: the thread, its control and what it holds are of a run that is   *)
(* not resolved.                                                           *)
(***************************************************************************)
EXTENDS ConnectionService, SequenceTheorems, TLAPS
-----------------------------------------------------------------------------
(* The shapes of the messages, the record and the control.                  *)
Ops == {"stop", "connect", "continue", "end", "leave", "shutdown", "start", "retry"}
Changes == {"preflight", "gate", "authority", "checkpoint", "cleared", "cleanup", "watchdog",
            "termination", "endpoint", "finished"}
Commands == [op : Ops, id : Ids, run : Nat, fresh : BOOLEAN]
Events == [op : {"event"}, id : {0}, run : Nat, fresh : {FALSE}, event : Changes]
Messages == Commands \cup Events

Records ==
  [run : Nat,
   phase : {"none", "created", "preflight", "running", "awaiting_user", "cleaning", "terminal"},
   role : BOOLEAN, ckpt : BOOLEAN, room : BOOLEAN,
   failure : {"none", "heartbeat", "run", "interrupted"},
   functional : {"pending", "passed", "failed", "canceled", "interrupted"},
   cleanup : {"pending", "running", "verified", "failed"}, known : Seq(Ids)]

Controls ==
  [run : Nat, listed : BOOLEAN, ckpt : BOOLEAN, continued : BOOLEAN, term : {"none", "stop", "end"},
   role : BOOLEAN, cleanup : BOOLEAN, started : BOOLEAN]

Reports ==
  [functional : {"none", "passed", "failed", "canceled"}, cleanup : {"none", "verified", "failed"},
   failure : {"none", "run"}, room : BOOLEAN]

Places == {"none", "establish", "role", "launch", "drive", "await", "confirm", "cleanup", "returned", "ended"}

RecordShape == record \in Records /\ Len(record.known) <= MaxKnown /\ disk = record
ControlShape == ctl \in Controls
QueueShape == queue \in Seq(Messages) /\ ui \subseteq Commands
ThreadShape ==
  /\ rpc \in Places /\ report \in Reports /\ watchdog \in {"off", "on"}
  /\ pending \in 0..MaxCommands /\ mode \in {"up", "closing", "closed", "down"}
  /\ issued \in 0..MaxCommands /\ applied \in [Ids -> Nat] /\ held \in BOOLEAN

TypeInv == RecordShape /\ ControlShape /\ QueueShape /\ ThreadShape

-----------------------------------------------------------------------------
\* A command in the queue or in the hands of the user interface has not been applied if
\* nothing has changed since it was decided on.
OnceInv ==
  /\ \A i \in Ids : applied[i] <= 1 /\ (i > issued => applied[i] = 0)
  /\ \A k \in 1..Len(queue) : queue[k].id <= issued /\ (queue[k].fresh => applied[queue[k].id] = 0)
  /\ \A c \in ui : c.id <= issued /\ (c.fresh => applied[c.id] = 0)

\* The k-th message is an event of the present run.
Of(k) == queue[k].op = "event" /\ queue[k].run = record.run

\* The run thread is alone in speaking for its run, and "finished" is its last word.
QueueInv ==
  /\ \A k \in 1..Len(queue) : queue[k].op = "event" => queue[k].run <= record.run
  /\ rpc = "none" => \A k \in 1..Len(queue) : ~Of(k)
  /\ \A k \in 1..Len(queue) : Of(k) /\ queue[k].event = "finished" =>
        rpc = "ended" /\ \A j \in k+1..Len(queue) : ~Of(j)
  /\ mode = "down" => queue = <<>>

\* A run that has a thread, a control or something in its hands is not resolved.
RunInv ==
  /\ rpc # "none" => ctl.run = record.run /\ ctl.listed /\ ~Resolved(record)
  /\ rpc = "none" => watchdog = "off"
  /\ ctl.listed => ctl.run = record.run /\ ~Resolved(record) /\ mode # "down"
  /\ ctl.listed /\ rpc = "none" => pending # 0 /\ record.phase = "created"
  /\ ~ctl.listed => ctl.term = "none"
  /\ record.phase = "created" /\ mode # "down" => ctl.listed
  /\ record.phase = "terminal" => record.cleanup = "verified"
  /\ record.run = 0 => record.phase = "none"
  /\ held => ~Resolved(record)
  /\ rpc \in {"cleanup", "returned", "ended"} => report.functional # "none"
  /\ rpc \in {"returned", "ended"} => ctl.cleanup /\ report.cleanup # "none"
                                       /\ (report.cleanup = "verified" => ~held)
  /\ rpc = "ended" => watchdog = "off"
  /\ mode = "down" => pending = 0

IInv == TypeInv /\ OnceInv /\ QueueInv /\ RunInv
-----------------------------------------------------------------------------
(* What the handlers make of a record.                                      *)

LEMMA NothingIsShaped == NoRecord \in Records /\ NoControl \in Controls /\ NoReport \in Reports
<1>1. <<>> \in Seq(Ids)
  OBVIOUS
<1>2. NoRecord \in Records
  BY <1>1 DEF NoRecord, Records
<1> QED
  BY <1>2 DEF NoControl, NoReport, Controls, Reports

LEMMA NewRunFields ==
  ASSUME record \in Records
  PROVE  /\ NewRun(record) \in Records
         /\ NewRun(record).run = record.run + 1 /\ NewRun(record).phase = "created"
         /\ NewRun(record).known = record.known
<1>1. record.run + 1 \in Nat /\ record.known \in Seq(Ids)
  BY DEF Records
<1>2. NoRecord \in Records
  BY NothingIsShaped
<1>3. NewRun(record) = [NoRecord EXCEPT !.run = record.run + 1, !.phase = "created", !.known = record.known]
  BY DEF NewRun
<1> QED
  BY <1>1, <1>2, <1>3 DEF Records

\* A published change moves the record on, but never to its end, and never loses a failure.
LEMMA AppliedFields ==
  ASSUME record \in Records, NEW e \in Changes
  PROVE  /\ Applied(e) \in Records
         /\ Applied(e).run = record.run /\ Applied(e).known = record.known
         /\ Applied(e).phase \in {record.phase, "preflight", "running", "awaiting_user", "cleaning"}
         /\ record.failure # "none" => Applied(e).failure = record.failure
         /\ Applied(e).phase = "terminal" => Applied(e).cleanup = record.cleanup
<1> USE DEF Records
<1>1. CASE e \in {"preflight", "gate", "authority"}
  BY <1>1 DEF Applied
<1>2. CASE e \in {"checkpoint", "cleared"}
  BY <1>2 DEF Applied
<1>3. CASE e = "cleanup"
  <2> DEFINE one == [record EXCEPT !.phase = "cleaning", !.ckpt = FALSE]
  <2>1. one \in Records /\ one.run = record.run /\ one.known = record.known /\ one.phase = "cleaning"
        /\ one.failure = record.failure
    OBVIOUS
  <2>2. Applied(e) = [one EXCEPT !.cleanup = "running"]
    BY <1>3 DEF Applied
  <2> HIDE DEF one
  <2> QED
    BY <2>1, <2>2
<1>4. CASE e = "watchdog"
  BY <1>4 DEF Applied
<1>5. CASE e \in {"termination", "endpoint", "finished"}
  BY <1>5 DEF Applied
<1> QED
  BY <1>1, <1>2, <1>3, <1>4, <1>5 DEF Changes

LEMMA FinishedFields ==
  ASSUME record \in Records, report \in Reports, report.functional # "none", report.cleanup # "none"
  PROVE  /\ Finished(record) \in Records
         /\ Finished(record).run = record.run /\ Finished(record).known = record.known
         /\ Finished(record).phase = IF report.cleanup = "verified" THEN "terminal" ELSE "cleaning"
         /\ Finished(record).cleanup = report.cleanup
         /\ record.failure # "none" => Finished(record).failure = record.failure
<1> DEFINE f == IF record.failure = "none" THEN report.failure ELSE record.failure
           u == IF report.functional = "canceled" /\ f # "none" THEN "failed" ELSE report.functional
           p == IF report.cleanup = "verified" THEN "terminal" ELSE "cleaning"
           m == record.room /\ report.room
<1>1. f \in {"none", "heartbeat", "run", "interrupted"} /\ u \in {"passed", "failed", "canceled"}
  BY DEF Records, Reports
<1>2. m \in BOOLEAN
  OBVIOUS
<1>3. p \in {"terminal", "cleaning"} /\ report.cleanup \in {"verified", "failed"}
  BY DEF Reports
<1>4. Finished(record) = [record EXCEPT !.failure = f, !.functional = u, !.cleanup = report.cleanup,
                                        !.room = m, !.phase = p]
  BY DEF Finished
<1>5. record.failure # "none" => f = record.failure
  OBVIOUS
<1> HIDE DEF f, u, p, m
<1>6. Finished(record).run = record.run /\ Finished(record).known = record.known
      /\ Finished(record).phase = p /\ Finished(record).cleanup = report.cleanup
      /\ Finished(record).failure = f
  BY <1>4 DEF Records
<1>7. Finished(record) \in Records
  <2> DEFINE one == [record EXCEPT !.failure = f]
             two == [one EXCEPT !.functional = u]
             clean == report.cleanup
             three == [two EXCEPT !.cleanup = clean]
             four == [three EXCEPT !.room = m]
  <2>1. one \in Records
    BY <1>1 DEF Records
  <2> HIDE DEF one
  <2>2. two \in Records
    BY <1>1, <2>1 DEF Records
  <2> HIDE DEF two
  <2>3. clean \in {"verified", "failed"}
    BY <1>3
  <2> HIDE DEF clean
  <2>4. three \in Records
    BY <2>2, <2>3 DEF Records
  <2> HIDE DEF three
  <2>5. four \in Records
    BY <1>2, <2>4 DEF Records
  <2> HIDE DEF four
  <2>6. [four EXCEPT !.phase = p] \in Records
    BY <1>3, <2>5 DEF Records
  <2>7. Finished(record) = [four EXCEPT !.phase = p]
    BY <1>4 DEF one, two, three, four, clean
  <2> QED
    BY <2>6, <2>7
<1> QED
  BY <1>5, <1>6, <1>7 DEF p

LEMMA KeptIsShort ==
  ASSUME NEW known \in Seq(Ids), Len(known) <= MaxKnown, NEW i \in Ids
  PROVE  Kept(Append(known, i)) \in Seq(Ids) /\ Len(Kept(Append(known, i))) <= MaxKnown
<1> DEFINE all == Append(known, i)
<1>1. all \in Seq(Ids) /\ Len(all) = Len(known) + 1
  OBVIOUS
<1>2. Tail(all) \in Seq(Ids) /\ Len(Tail(all)) = Len(all) - 1
  BY <1>1
<1> HIDE DEF all
<1>3. Kept(all) \in Seq(Ids) /\ Len(Kept(all)) <= MaxKnown
  BY <1>1, <1>2, ServiceAssumption DEF Kept
<1> QED
  BY <1>3 DEF all

LEMMA HeadIsMessage ==
  ASSUME QueueShape, queue # <<>>
  PROVE  /\ Head(queue) \in Commands \cup Events /\ Head(queue) = queue[1] /\ 1 \in 1..Len(queue)
         /\ Head(queue).op = "event" => Head(queue) \in Events
         /\ Head(queue).op # "event" => Head(queue) \in Commands
<1>1. Head(queue) \in Commands \cup Events /\ Head(queue) = queue[1] /\ 1 \in 1..Len(queue)
  BY DEF QueueShape, Messages
<1>2. \A c \in Commands : c.op # "event"
  BY DEF Commands, Ops
<1>3. \A e \in Events : e.op = "event"
  BY DEF Events
<1> QED
  BY <1>1, <1>2, <1>3

-----------------------------------------------------------------------------
(* What a step leaves in the record.                                        *)

LEMMA EventStep ==
  ASSUME TypeInv, QueueInv, RunInv, TakeEvent
  PROVE  LET e == Head(queue)
         IN  /\ e \in Events /\ e = queue[1] /\ 1 \in 1..Len(queue)
             /\ e.run = record.run => rpc # "none"
             /\ e.run = record.run /\ e.event = "finished" => rpc = "ended"
<1>1. Head(queue) \in Events /\ Head(queue) = queue[1] /\ 1 \in 1..Len(queue)
  BY HeadIsMessage DEF TypeInv, TakeEvent
<1>2. Head(queue).op = "event"
  BY DEF TakeEvent
<1> QED
  BY <1>1, <1>2 DEF QueueInv, Of

LEMMA CommandStep ==
  ASSUME TypeInv, RunInv, TakeCommand, applied' # applied
  PROVE  LET c == Head(queue)
         IN  /\ c \in Commands /\ c = queue[1] /\ 1 \in 1..Len(queue) /\ c.fresh
             /\ pending' = c.id /\ applied' = [applied EXCEPT ![c.id] = @ + 1]
             /\ Accepts(c) /\ (ApplyStart(c) \/ ApplyCommand(c))
             /\ queue' = Stale(Echo(c)) /\ StaleUi /\ pending = 0 /\ mode # "down"
<1>1. Head(queue) \in Commands /\ Head(queue) = queue[1] /\ 1 \in 1..Len(queue)
  BY HeadIsMessage DEF TypeInv, TakeCommand
<1>2. Accepts(Head(queue)) => Head(queue).fresh
  BY DEF Accepts
<1> QED
  BY <1>1, <1>2 DEF TakeCommand, Busy

\* What an accepted command does to the record and to the control of the run.
LEMMA StartStep ==
  ASSUME TypeInv, NEW c \in Commands, Accepts(c), ApplyStart(c)
  PROVE  /\ StartAllowed(record) /\ Resolved(record)
         /\ record' = NewRun(record) /\ disk' = record'
         /\ ctl' \in Controls /\ ctl'.run = record.run + 1 /\ ctl'.listed /\ ctl'.term = "none"
<1>1. StartAllowed(record)
  BY DEF Accepts, ApplyStart
<1>2. record.run \in Nat
  BY DEF TypeInv, RecordShape, Records
<1>3. Resolved(record)
  BY <1>1 DEF StartAllowed, Resolved
<1>4. ctl' = [run |-> record.run + 1, listed |-> TRUE, ckpt |-> FALSE, continued |-> FALSE,
              term |-> "none", role |-> FALSE, cleanup |-> FALSE, started |-> FALSE]
  BY DEF ApplyStart, NoControl
<1>5. record' = NewRun(record) /\ disk' = record'
  BY DEF ApplyStart, Save
<1>6. record.run + 1 \in Nat
  BY <1>2
<1> QED
  BY <1>1, <1>3, <1>4, <1>5, <1>6 DEF Controls

LEMMA OrderStep ==
  ASSUME TypeInv, NEW c \in Commands, Accepts(c), ApplyCommand(c)
  PROVE  /\ record' \in Records /\ disk' = record'
         /\ record'.run = record.run /\ record'.phase = record.phase /\ record'.known = record.known
         /\ record'.cleanup = record.cleanup /\ record'.failure = record.failure
         /\ ctl' \in Controls /\ ctl'.run = ctl.run /\ ctl'.listed = ctl.listed
         /\ ctl'.cleanup = ctl.cleanup
         /\ ctl'.term = ctl.term \/ (ctl.listed /\ ~ctl.cleanup)
<1>1. PICK room \in BOOLEAN, role \in BOOLEAN : record' = [record EXCEPT !.room = room, !.role = role]
  <2>1. (record.room /\ c.op # "leave") \in BOOLEAN /\ (record.role \/ c.op = "connect") \in BOOLEAN
    OBVIOUS
  <2> QED
    BY <2>1 DEF ApplyCommand, Save
<1>2. record \in Records /\ ctl \in Controls
  BY DEF TypeInv, RecordShape, ControlShape
<1>3. /\ record' \in Records /\ record'.run = record.run /\ record'.phase = record.phase
      /\ record'.known = record.known /\ record'.cleanup = record.cleanup
      /\ record'.failure = record.failure
  BY <1>1, <1>2 DEF Records
<1>4. PICK t \in {"none", "stop", "end"}, owner \in BOOLEAN, continued \in BOOLEAN :
         /\ ctl' = [ctl EXCEPT !.term = t, !.role = owner, !.continued = continued]
         /\ t = ctl.term \/ c.op \in {"stop", "end"} \/ (c.op = "shutdown" /\ record.phase # "terminal")
  <2>1. (ctl.role \/ c.op = "connect") \in BOOLEAN /\ (ctl.continued \/ c.op = "continue") \in BOOLEAN
    OBVIOUS
  <2>2. ctl.term \in {"none", "stop", "end"}
    BY <1>2 DEF Controls
  <2> DEFINE t == CASE c.op \in {"stop", "end"} -> c.op
                    [] c.op = "shutdown" /\ record.phase # "terminal" -> "stop"
                    [] OTHER -> ctl.term
  <2>3. /\ t \in {"none", "stop", "end"}
        /\ t = ctl.term \/ c.op \in {"stop", "end"} \/ (c.op = "shutdown" /\ record.phase # "terminal")
    BY <2>2
  <2>4. ctl' = [ctl EXCEPT !.term = t, !.role = (ctl.role \/ c.op = "connect"),
                           !.continued = (ctl.continued \/ c.op = "continue")]
    BY DEF ApplyCommand
  <2> HIDE DEF t
  <2> QED
    BY <2>1, <2>3, <2>4
<1>5. /\ ctl' \in Controls /\ ctl'.run = ctl.run /\ ctl'.listed = ctl.listed
      /\ ctl'.cleanup = ctl.cleanup /\ ctl'.term = t
  BY <1>2, <1>4 DEF Controls
<1>6. t = ctl.term \/ (ctl.listed /\ ~ctl.cleanup)
  BY <1>4 DEF Accepts, MayTerminate
<1> QED
  BY <1>3, <1>5, <1>6 DEF ApplyCommand, Save
-----------------------------------------------------------------------------
(* What becomes of the queue.                                               *)

\* The same message, or a copy whose revision is old.
Kin(a, b) == /\ a.op = b.op /\ a.id = b.id /\ a.run = b.run
             /\ a.op = "event" => a.event = b.event
             /\ a.fresh => b.fresh

\* q is p without its first d messages and with some of N behind.
Comes(q, p, d, N) ==
  \A k \in 1..Len(q) : \/ k + d \in 1..Len(p) /\ Kin(q[k], p[k + d])
                       \/ k + d > Len(p) /\ q[k] \in N

Said(run) == {e \in Events : e.run = run /\ e.event # "finished"}

LEMMA EventIsShaped ==
  \A e \in Changes, r \in Nat :
     /\ Event(e, r) \in Events /\ Event(e, r).run = r /\ Event(e, r).event = e
     /\ Event(e, r).op = "event" /\ ~Event(e, r).fresh /\ Event(e, r).id = 0
     /\ e # "finished" => Event(e, r) \in Said(r)
BY DEF Event, Events, Said

LEMMA SameComes ==
  ASSUME NEW p \in Seq(Messages), NEW N PROVE Comes(p, p, 0, N)
BY DEF Comes, Kin

LEMMA TailComes ==
  ASSUME NEW p \in Seq(Messages), p # <<>>, NEW N
  PROVE  Tail(p) \in Seq(Messages) /\ Comes(Tail(p), p, 1, N)
<1>1. Tail(p) \in Seq(Messages) /\ Len(Tail(p)) = Len(p) - 1 /\ Len(p) \in Nat
  OBVIOUS
<1>2. \A k \in 1..Len(Tail(p)) : Tail(p)[k] = p[k + 1] /\ k + 1 \in 1..Len(p)
  BY <1>1
<1> QED
  BY <1>1, <1>2 DEF Comes, Kin

LEMMA AppendComes ==
  ASSUME NEW q \in Seq(Messages), NEW p \in Seq(Messages), NEW d \in {0, 1}, NEW N,
         Comes(q, p, d, N), Len(q) + d >= Len(p), NEW e \in N, e \in Messages
  PROVE  Append(q, e) \in Seq(Messages) /\ Comes(Append(q, e), p, d, N)
<1>1. /\ Append(q, e) \in Seq(Messages) /\ Len(Append(q, e)) = Len(q) + 1
      /\ Len(q) \in Nat /\ Len(p) \in Nat
  OBVIOUS
<1>2. \A k \in 1..Len(q) : Append(q, e)[k] = q[k]
  BY <1>1
<1>3. Append(q, e)[Len(q) + 1] = e
  BY <1>1
<1> QED
  BY <1>1, <1>2, <1>3 DEF Comes

LEMMA StaleMessage ==
  ASSUME NEW m \in Messages
  PROVE  /\ [m EXCEPT !.fresh = FALSE] \in Messages /\ ~[m EXCEPT !.fresh = FALSE].fresh
         /\ Kin([m EXCEPT !.fresh = FALSE], m)
         /\ \A r \in Nat : m \in Said(r) => [m EXCEPT !.fresh = FALSE] \in Said(r)
         /\ m \in Commands => [m EXCEPT !.fresh = FALSE] \in Commands
<1> DEFINE s == [m EXCEPT !.fresh = FALSE]
<1>1. CASE m \in Commands
  <2>1. s \in Commands /\ ~s.fresh /\ s.op = m.op /\ s.id = m.id /\ s.run = m.run
    BY <1>1 DEF Commands
  <2>2. m.op # "event"
    BY <1>1 DEF Commands, Ops
  <2>3. m \notin Events
    BY <2>2 DEF Events
  <2> QED
    BY <2>1, <2>2, <2>3 DEF Kin, Said, Messages
<1>2. CASE m \in Events
  <2>1. s \in Events /\ ~s.fresh /\ s.op = m.op /\ s.id = m.id /\ s.run = m.run /\ s.event = m.event
    BY <1>2 DEF Events
  <2>2. m \notin Commands
    BY <1>2 DEF Commands, Events, Ops
  <2> QED
    BY <2>1, <2>2 DEF Kin, Said, Messages
<1> QED
  BY <1>1, <1>2 DEF Messages

LEMMA StaleComes ==
  ASSUME NEW q \in Seq(Messages), NEW p \in Seq(Messages), NEW d \in {0, 1}, NEW r \in Nat,
         Comes(q, p, d, Said(r))
  PROVE  /\ Stale(q) \in Seq(Messages) /\ Comes(Stale(q), p, d, Said(r)) /\ Len(Stale(q)) = Len(q)
         /\ \A k \in 1..Len(Stale(q)) : ~Stale(q)[k].fresh
<1>1. Len(q) \in Nat /\ DOMAIN q = 1..Len(q) /\ \A k \in 1..Len(q) : q[k] \in Messages
  OBVIOUS
<1>2. \A k \in 1..Len(q) : Stale(q)[k] = [q[k] EXCEPT !.fresh = FALSE]
  BY <1>1 DEF Stale
<1>3. \A k \in 1..Len(q) : Stale(q)[k] \in Messages
  BY <1>1, <1>2, StaleMessage
<1>4. Stale(q) \in [1..Len(q) -> Messages]
  BY <1>1, <1>3 DEF Stale
<1>5. Stale(q) \in Seq(Messages) /\ Len(Stale(q)) = Len(q)
  BY <1>1, <1>4
<1>6. \A k \in 1..Len(q) : ~Stale(q)[k].fresh /\ Kin(Stale(q)[k], q[k])
                           /\ (q[k] \in Said(r) => Stale(q)[k] \in Said(r))
  <2> TAKE k \in 1..Len(q)
  <2>1. q[k] \in Messages /\ Stale(q)[k] = [q[k] EXCEPT !.fresh = FALSE]
    BY <1>1, <1>2
  <2>2. ~[q[k] EXCEPT !.fresh = FALSE].fresh /\ Kin([q[k] EXCEPT !.fresh = FALSE], q[k])
        /\ (q[k] \in Said(r) => [q[k] EXCEPT !.fresh = FALSE] \in Said(r))
    BY <2>1, StaleMessage
  <2> QED
    BY <2>1, <2>2
<1>7. \A a, b, c : Kin(a, b) /\ Kin(b, c) => Kin(a, c)
  BY DEF Kin
<1> QED
  BY <1>5, <1>6, <1>7 DEF Comes

LEMMA JoinComes ==
  ASSUME NEW p \in Seq(Messages), NEW s \in Seq(Messages), NEW N, \A k \in 1..Len(s) : s[k] \in N
  PROVE  p \o s \in Seq(Messages) /\ Comes(p \o s, p, 0, N)
<1>1. /\ p \o s \in Seq(Messages) /\ Len(p \o s) = Len(p) + Len(s)
      /\ \A k \in 1..Len(p) + Len(s) : (p \o s)[k] = IF k <= Len(p) THEN p[k] ELSE s[k - Len(p)]
  BY ConcatProperties
<1>2. Len(p) \in Nat /\ Len(s) \in Nat
  OBVIOUS
<1>3. ASSUME NEW k \in 1..Len(p) + Len(s), k > Len(p)
      PROVE  (p \o s)[k] \in N
  <2>1. k - Len(p) \in 1..Len(s) /\ ~(k <= Len(p))
    BY <1>2, <1>3
  <2> QED
    BY <1>1, <2>1
<1>4. \A k \in 1..Len(p) + Len(s) : k <= Len(p) => (p \o s)[k] = p[k + 0] /\ k + 0 \in 1..Len(p)
  BY <1>1, <1>2
<1>5. \A k \in 1..Len(p) + Len(s) : k <= Len(p) \/ (k > Len(p) /\ k + 0 > Len(p))
  BY <1>2
<1> QED
  BY <1>1, <1>3, <1>4, <1>5 DEF Comes, Kin

LEMMA PublishedComes ==
  ASSUME queue \in Seq(Messages), ctl.run \in Nat, NEW es \in Seq(Changes \ {"finished"}), Published(es)
  PROVE  queue' \in Seq(Messages) /\ Comes(queue', queue, 0, Said(ctl.run))
<1>1. CASE mode = "closed"
  BY <1>1, SameComes DEF Published
<1>2. CASE mode # "closed"
  <2> DEFINE s == [k \in 1..Len(es) |-> Event(es[k], ctl.run)]
  <2>1. \A k \in 1..Len(es) : s[k] \in Said(ctl.run) /\ s[k] \in Messages
    BY EventIsShaped DEF Messages
  <2>2. s \in Seq(Messages) /\ Len(s) = Len(es)
    BY <2>1
  <2>3. queue' = queue \o s
    BY <1>2 DEF Published
  <2> HIDE DEF s
  <2> QED
    BY <2>1, <2>2, <2>3, JoinComes
<1> QED
  BY <1>1, <1>2
-----------------------------------------------------------------------------
(* What a step of the run thread does.                                      *)

\* The last places of a run have a report, and the last two a measured cleanup.
Late ==
  /\ rpc \in {"cleanup", "returned", "ended"} => report.functional # "none"
  /\ rpc \in {"returned", "ended"} => ctl.cleanup /\ report.cleanup # "none"
                                       /\ (report.cleanup = "verified" => ~held)
  /\ rpc = "ended" => watchdog = "off"

Plain == UNCHANGED <<record, disk, pending, mode, issued, ui, repeats, applied, boots>>

\* Only the end of the run sends "finished", as the last of its messages.
Tells(d, N) ==
  /\ queue' \in Seq(Messages) /\ Comes(queue', queue, d, N)
  /\ \A k \in 1..Len(queue') :
        k + d > Len(queue) /\ queue'[k].op = "event" /\ queue'[k].event = "finished" =>
           k = Len(queue') /\ rpc' = "ended"

Onward ==
  /\ Plain /\ mode # "down"
  /\ rpc \in Places \ {"none", "ended"} /\ rpc' \in Places \ {"none"}
  /\ ctl' \in Controls /\ ctl'.run = ctl.run /\ ctl'.listed = ctl.listed /\ ctl'.term = ctl.term
  /\ report' \in Reports /\ held' \in BOOLEAN /\ watchdog' \in {watchdog, "off"}
  /\ Late'
  /\ Tells(0, {m \in Events : m.run = ctl.run})

LEMMA PublishedTells ==
  ASSUME QueueShape, ControlShape, NEW es \in Seq(Changes \ {"finished"}), Published(es)
  PROVE  Tells(0, {m \in Events : m.run = ctl.run}) /\ Tells(0, Said(ctl.run))
<1>1. queue \in Seq(Messages) /\ ctl.run \in Nat
  BY DEF QueueShape, ControlShape, Controls, Messages
<1>2. queue' \in Seq(Messages) /\ Comes(queue', queue, 0, Said(ctl.run))
  BY <1>1, PublishedComes
<1>3. \A k \in 1..Len(queue') : k + 0 > Len(queue) => queue'[k] \in Said(ctl.run)
  BY <1>1, <1>2 DEF Comes
<1>4. Said(ctl.run) \subseteq {m \in Events : m.run = ctl.run}
  BY DEF Said
<1>5. Comes(queue', queue, 0, {m \in Events : m.run = ctl.run})
  BY <1>2, <1>4 DEF Comes
<1>6. \A m \in Said(ctl.run) : m.event # "finished"
  BY DEF Said
<1> QED
  BY <1>2, <1>3, <1>5, <1>6 DEF Tells

LEMMA SameTells ==
  ASSUME QueueShape, queue' = queue, NEW N
  PROVE  Tells(0, N)
<1>1. queue \in Seq(Messages) /\ Len(queue) \in Nat
  BY DEF QueueShape, Messages
<1> QED
  BY <1>1, SameComes DEF Tells

LEMMA ReturnTells ==
  ASSUME QueueShape, ControlShape, Return
  PROVE  Tells(0, {m \in Events : m.run = ctl.run})
<1>1. queue \in Seq(Messages) /\ ctl.run \in Nat
  BY DEF QueueShape, ControlShape, Controls, Messages
<1>2. CASE mode = "closed"
  BY <1>2, SameTells DEF Return
<1>3. CASE mode # "closed"
  <2> DEFINE s == <<Event("cleanup", ctl.run), Event("finished", ctl.run)>>
             M == {m \in Events : m.run = ctl.run}
  <2>1. /\ Event("cleanup", ctl.run) \in M /\ Event("finished", ctl.run) \in M
        /\ Event("cleanup", ctl.run).event = "cleanup"
    BY <1>1, EventIsShaped DEF Changes
  <2>2. M \subseteq Messages
    BY DEF Messages
  <2>3. s \in Seq(Messages) /\ Len(s) = 2 /\ s[1].event = "cleanup" /\ \A k \in 1..Len(s) : s[k] \in M
    BY <2>1, <2>2
  <2>4. queue' = queue \o s /\ rpc' = "ended"
    BY <1>3 DEF Return
  <2> HIDE DEF s
  <2>5. queue' \in Seq(Messages) /\ Comes(queue', queue, 0, M)
    BY <1>1, <2>3, <2>4, JoinComes
  <2>6. /\ Len(queue') = Len(queue) + Len(s)
        /\ \A k \in 1..Len(queue) + Len(s) : queue'[k] = IF k <= Len(queue) THEN queue[k] ELSE s[k - Len(queue)]
    BY <1>1, <2>3, <2>4, ConcatProperties
  <2>7. Len(queue) \in Nat
    BY <1>1
  <2>8. ASSUME NEW k \in 1..Len(queue'), k + 0 > Len(queue), queue'[k].event = "finished"
        PROVE  k = Len(queue')
    <3>1. k = Len(queue) + 1 \/ k = Len(queue) + 2
      BY <2>3, <2>6, <2>7, <2>8
    <3>2. CASE k = Len(queue) + 1
      <4>1. queue'[k] = s[1]
        BY <2>3, <2>6, <2>7, <3>2
      <4> QED
        BY <2>3, <2>8, <4>1
    <3> QED
      BY <2>3, <2>6, <3>1, <3>2
  <2> HIDE DEF M
  <2>9. Tells(0, M)
    BY <2>4, <2>5, <2>8 DEF Tells
  <2> QED
    BY <2>9 DEF M
<1> QED
  BY <1>2, <1>3

LEMMA ReportFields ==
  /\ \A u \in {"passed", "failed", "canceled"}, f \in {"none", "run"} :
        [NoReport EXCEPT !.functional = u, !.failure = f] \in Reports
        /\ [NoReport EXCEPT !.functional = u, !.failure = f].functional = u
  /\ \A u \in {"passed", "failed", "canceled"} :
        [NoReport EXCEPT !.functional = u] \in Reports /\ [NoReport EXCEPT !.functional = u].functional = u
  /\ report \in Reports =>
        \A c \in {"verified", "failed"}, o \in BOOLEAN :
           /\ [report EXCEPT !.cleanup = c, !.room = o] \in Reports
           /\ [report EXCEPT !.cleanup = c, !.room = o].cleanup = c
           /\ [report EXCEPT !.cleanup = c, !.room = o].functional = report.functional
BY DEF NoReport, Reports

\* Giving up at a place leads to the cleanup.
LEMMA GivesUp ==
  ASSUME TypeInv, NEW at \in Places \ {"none", "ended"}, NEW f \in {"none", "run"},
         Fails(at, f) \/ Canceled(at)
  PROVE  Onward
<1>1. /\ queue' = queue /\ rpc' = "cleanup" /\ ctl' = ctl /\ held' = held /\ watchdog' = watchdog
      /\ rpc = at /\ Plain /\ mode # "down"
  BY DEF Fails, Canceled, RunStep, Plain, historyVars
<1>2. report' \in Reports /\ report'.functional # "none"
  <2>1. CASE Fails(at, f)
    BY <2>1, ReportFields DEF Fails
  <2>2. CASE Canceled(at)
    BY <2>2, ReportFields DEF Canceled
  <2> QED
    BY <2>1, <2>2
<1>3. Tells(0, {m \in Events : m.run = ctl.run})
  BY <1>1, SameTells DEF TypeInv
<1>4. ctl \in Controls /\ held \in BOOLEAN
  BY DEF TypeInv, ControlShape, ThreadShape
<1> QED
  BY <1>1, <1>2, <1>3, <1>4 DEF Onward, Late, Places

LEMMA OnwardPublishes ==
  ASSUME TypeInv, NEW at \in {"establish", "role", "launch", "drive", "await"}, RunStep(at),
         NEW e \in Changes \ {"finished"}, Published(<<e>>),
         rpc' \in {"role", "launch", "drive", "await"}, watchdog' = watchdog, report' = report,
         held' \in BOOLEAN,
         ctl' \in Controls, ctl'.run = ctl.run, ctl'.listed = ctl.listed, ctl'.term = ctl.term
  PROVE  Onward
<1>1. Plain /\ mode # "down" /\ rpc = at
  BY DEF RunStep, Plain, historyVars
<1>3. <<e>> \in Seq(Changes \ {"finished"})
  <2>1. \A S : \A x \in S : <<x>> \in Seq(S)
    OBVIOUS
  <2> QED
    BY <2>1
<1>4. Tells(0, {m \in Events : m.run = ctl.run})
  BY <1>3, PublishedTells DEF TypeInv
<1>5. report' \in Reports
  BY DEF TypeInv, ThreadShape
<1> QED
  BY <1>1, <1>4, <1>5 DEF Onward, Late, Places

LEMMA ThreadMovesOn ==
  ASSUME TypeInv, RunInv, RunThread
  PROVE  Onward
<1> USE DEF Places
<1>1. CASE Establish
  <2>1. CASE Fails("establish", "run") \/ Canceled("establish")
    BY <2>1, GivesUp
  <2>2. CASE RunStep("establish") /\ Published(<<"authority">>) /\ rpc' = "role" /\ held' = TRUE
             /\ UNCHANGED <<ctl, report, watchdog, beats>>
    BY <2>2, OnwardPublishes DEF Changes, TypeInv, ControlShape
  <2> QED
    BY <1>1, <2>1, <2>2 DEF Establish
<1>2. CASE AwaitRole
  <2>1. CASE Fails("role", "run") \/ Canceled("role")
    BY <2>1, GivesUp
  <2>2. CASE RunStep("role") /\ Published(<<"gate">>) /\ rpc' = "launch"
             /\ UNCHANGED <<ctl, report, watchdog, beats, held>>
    BY <2>2, OnwardPublishes DEF Changes, TypeInv, ControlShape, ThreadShape
  <2> QED
    BY <1>2, <2>1, <2>2 DEF AwaitRole
<1>3. CASE MarkEndpointStarted
  <2>1. CASE Fails("launch", "run") \/ Canceled("launch")
    BY <2>1, GivesUp
  <2>2. CASE RunStep("launch") /\ ctl' = [ctl EXCEPT !.started = TRUE]
             /\ rpc' = "drive" /\ Published(<<"endpoint">>) /\ UNCHANGED <<report, watchdog, held>>
    <3>1. /\ ctl' \in Controls /\ ctl'.run = ctl.run /\ ctl'.listed = ctl.listed
          /\ ctl'.term = ctl.term
      BY <2>2 DEF TypeInv, ControlShape, Controls
    <3> QED
      BY <2>2, <3>1, OnwardPublishes DEF Changes, TypeInv, ThreadShape
  <2> QED
    BY <1>3, <2>1, <2>2 DEF MarkEndpointStarted
<1>4. CASE DriveTurn
  <2>1. CASE Canceled("drive")
    BY <2>1, GivesUp
  <2>2. CASE RunStep("drive") /\ Published(<<"checkpoint">>) /\ rpc' = "await"
             /\ ctl' = [ctl EXCEPT !.ckpt = TRUE] /\ UNCHANGED <<report, watchdog, beats, held>>
    <3>1. /\ ctl' \in Controls /\ ctl'.run = ctl.run /\ ctl'.listed = ctl.listed
          /\ ctl'.term = ctl.term
      BY <2>2 DEF TypeInv, ControlShape, Controls
    <3> QED
      BY <2>2, <3>1, OnwardPublishes DEF Changes, TypeInv, ThreadShape
  <2>3. CASE RunStep("drive") /\ rpc' = "confirm" /\ UNCHANGED <<ctl, queue, report, watchdog, beats, held>>
    <3>1. Tells(0, {m \in Events : m.run = ctl.run})
      BY <2>3, SameTells DEF TypeInv
    <3>2. Plain /\ mode # "down" /\ rpc = "drive"
      BY <2>3 DEF RunStep, Plain, historyVars
    <3> QED
      BY <2>3, <3>1, <3>2 DEF Onward, Late, TypeInv, ControlShape, ThreadShape
  <2>4. CASE /\ RunStep("drive") /\ rpc' = "cleanup"
             /\ \E f \in {"passed", "failed"} :
                   report' = [NoReport EXCEPT !.functional = f,
                                              !.failure = IF f = "failed" THEN "run" ELSE "none"]
             /\ UNCHANGED <<ctl, queue, watchdog, beats, held>>
    <3>1. Tells(0, {m \in Events : m.run = ctl.run})
      BY <2>4, SameTells DEF TypeInv
    <3>2. report' \in Reports /\ report'.functional # "none"
      <4>1. PICK f \in {"passed", "failed"} :
               report' = [NoReport EXCEPT !.functional = f, !.failure = IF f = "failed" THEN "run" ELSE "none"]
        BY <2>4
      <4>2. (IF f = "failed" THEN "run" ELSE "none") \in {"none", "run"}
        OBVIOUS
      <4> QED
        BY <4>1, <4>2, ReportFields
    <3>3. Plain /\ mode # "down" /\ rpc = "drive"
      BY <2>4 DEF RunStep, Plain, historyVars
    <3> QED
      BY <2>4, <3>1, <3>2, <3>3 DEF Onward, Late, TypeInv, ControlShape, ThreadShape
  <2> QED
    BY <1>4, <2>1, <2>2, <2>3, <2>4 DEF DriveTurn
<1>5. CASE AwaitUser
  <2>1. CASE Fails("await", "run") \/ Canceled("await")
    BY <2>1, GivesUp
  <2>2. CASE RunStep("await") /\ Published(<<"cleared">>) /\ rpc' = "drive"
             /\ ctl' = [ctl EXCEPT !.continued = FALSE, !.ckpt = FALSE]
             /\ UNCHANGED <<report, watchdog, beats, held>>
    <3>1. /\ ctl' \in Controls /\ ctl'.run = ctl.run /\ ctl'.listed = ctl.listed
          /\ ctl'.term = ctl.term
      BY <2>2 DEF TypeInv, ControlShape, Controls
    <3> QED
      BY <2>2, <3>1, OnwardPublishes DEF Changes, TypeInv, ThreadShape
  <2> QED
    BY <1>5, <2>1, <2>2 DEF AwaitUser
<1>6. CASE AwaitTermination
  <2>1. CASE Fails("confirm", "run")
    BY <2>1, GivesUp
  <2>2. CASE /\ RunStep("confirm") /\ rpc' = "cleanup"
             /\ report' = [NoReport EXCEPT !.functional = IF ctl.term = "end" THEN "passed" ELSE "canceled"]
             /\ UNCHANGED <<ctl, queue, watchdog, beats, held>>
    <3>1. Tells(0, {m \in Events : m.run = ctl.run})
      BY <2>2, SameTells DEF TypeInv
    <3>2. report' \in Reports /\ report'.functional # "none"
      BY <2>2, ReportFields
    <3>3. Plain /\ mode # "down" /\ rpc = "confirm"
      BY <2>2 DEF RunStep, Plain, historyVars
    <3> QED
      BY <2>2, <3>1, <3>2, <3>3 DEF Onward, Late, TypeInv, ControlShape, ThreadShape
  <2> QED
    BY <1>6, <2>1, <2>2 DEF AwaitTermination
<1>7. CASE Cleanup
  <2>1. Plain /\ mode # "down" /\ rpc = "cleanup" /\ rpc' = "returned" /\ watchdog' = watchdog
    BY <1>7 DEF Cleanup, RunStep, Plain, historyVars
  <2>2. PICK clean \in {"verified", "failed"}, kept \in BOOLEAN :
           /\ report' = [report EXCEPT !.cleanup = clean, !.room = kept]
           /\ held' = (held /\ clean = "failed")
           /\ Published(IF ctl.started /\ clean = "verified" THEN <<"cleanup", "gate">> ELSE <<"cleanup">>)
    BY <1>7 DEF Cleanup
  <2>3. report \in Reports /\ report.functional # "none" /\ held \in BOOLEAN /\ ctl \in Controls
    BY <2>1 DEF TypeInv, ThreadShape, ControlShape, RunInv
  <2>4. report' \in Reports /\ report'.cleanup = clean /\ report'.functional # "none"
    BY <2>2, <2>3, ReportFields
  <2>5. <<"cleanup", "gate">> \in Seq(Changes \ {"finished"}) /\ <<"cleanup">> \in Seq(Changes \ {"finished"})
    BY DEF Changes
  <2>6. Tells(0, {m \in Events : m.run = ctl.run})
    BY <2>2, <2>5, PublishedTells DEF TypeInv
  <2>7. /\ ctl' \in Controls /\ ctl'.run = ctl.run /\ ctl'.listed = ctl.listed /\ ctl'.term = ctl.term
        /\ ctl'.cleanup
    BY <1>7, <2>3 DEF Cleanup, BeginsCleanup, Controls
  <2>8. held' \in BOOLEAN /\ (clean = "verified" => ~held')
    BY <2>2, <2>3
  <2> QED
    BY <2>1, <2>4, <2>6, <2>7, <2>8 DEF Onward, Late
<1>8. CASE Return
  <2>1. Plain /\ mode # "down" /\ rpc = "returned" /\ rpc' = "ended" /\ watchdog' = "off"
        /\ UNCHANGED <<ctl, report, held>>
    BY <1>8 DEF Return, RunStep, Plain, historyVars
  <2>2. Tells(0, {m \in Events : m.run = ctl.run})
    BY <1>8, ReturnTells DEF TypeInv
  <2>3. /\ report.functional # "none" /\ ctl.cleanup /\ report.cleanup # "none"
        /\ (report.cleanup = "verified" => ~held)
    BY <2>1 DEF RunInv
  <2> QED
    BY <2>1, <2>2, <2>3 DEF Onward, Late, TypeInv, ControlShape, ThreadShape
<1> QED
  BY <1>1, <1>2, <1>3, <1>4, <1>5, <1>6, <1>7, <1>8 DEF RunThread
-----------------------------------------------------------------------------
(* What keeps the queue in order.                                           *)

LEMMA QueueKept ==
  ASSUME TypeInv, QueueInv, record'.run \in Nat, record.run <= record'.run, mode' # "down",
         NEW N, NEW d \in {0, 1}, Tells(d, N),
         \A m \in N : m.op = "event" => m.run = record.run /\ record'.run = record.run
                                        /\ rpc' # "none" /\ rpc # "ended",
         rpc' = "none" => rpc = "none", rpc = "ended" => rpc' = "ended"
  PROVE  QueueInv'
<1>1. /\ queue \in Seq(Messages) /\ queue' \in Seq(Messages) /\ record.run \in Nat
      /\ Len(queue) \in Nat /\ Len(queue') \in Nat
  BY DEF TypeInv, QueueShape, RecordShape, Records, Tells, Messages
<1>2. \A k \in 1..Len(queue') : \/ k + d \in 1..Len(queue) /\ Kin(queue'[k], queue[k + d])
                                \/ k + d > Len(queue) /\ queue'[k] \in N
  BY DEF Tells, Comes
<1>3. \A k \in 1..Len(queue') : k + d \in 1..Len(queue) /\ Kin(queue'[k], queue[k + d]) =>
         /\ queue'[k].op = "event" => queue'[k].run \in Nat /\ queue'[k].run <= record.run
         /\ Of(k)' => Of(k + d) /\ record'.run = record.run /\ queue'[k].event = queue[k + d].event
  <2> TAKE k \in 1..Len(queue')
  <2> HAVE k + d \in 1..Len(queue) /\ Kin(queue'[k], queue[k + d])
  <2>1. queue[k + d] \in Messages
    BY <1>1
  <2>2. queue[k + d].op = "event" => queue[k + d].run \in Nat /\ queue[k + d].run <= record.run
    BY <2>1 DEF QueueInv, Messages, Commands, Events
  <2>3. queue'[k].op = queue[k + d].op /\ queue'[k].run = queue[k + d].run
        /\ (queue'[k].op = "event" => queue'[k].event = queue[k + d].event)
    BY DEF Kin
  <2>4. Of(k)' <=> queue'[k].op = "event" /\ queue'[k].run = record'.run
    BY DEF Of
  <2> QED
    BY <1>1, <2>2, <2>3, <2>4 DEF Of
<1>4. ASSUME NEW k \in 1..Len(queue'), queue'[k].op = "event"
      PROVE  queue'[k].run <= record'.run
  <2>1. CASE k + d \in 1..Len(queue) /\ Kin(queue'[k], queue[k + d])
    <3>1. queue'[k].run \in Nat /\ queue'[k].run <= record.run
      BY <1>3, <1>4, <2>1
    <3> QED
      BY <1>1, <3>1
  <2>2. CASE k + d > Len(queue) /\ queue'[k] \in N
    BY <1>1, <1>4, <2>2
  <2> QED
    BY <1>2, <2>1, <2>2
<1>5. ASSUME rpc' = "none", NEW k \in 1..Len(queue'), Of(k)'
      PROVE  FALSE
  <2>1. CASE k + d \in 1..Len(queue) /\ Kin(queue'[k], queue[k + d])
    BY <1>3, <1>5, <2>1 DEF QueueInv
  <2>2. CASE k + d > Len(queue) /\ queue'[k] \in N
    BY <1>5, <2>2 DEF Of
  <2> QED
    BY <1>2, <2>1, <2>2
<1>6. ASSUME NEW k \in 1..Len(queue'), Of(k)', queue'[k].event = "finished"
      PROVE  rpc' = "ended" /\ \A j \in k + 1..Len(queue') : ~Of(j)'
  <2>1. CASE k + d \in 1..Len(queue) /\ Kin(queue'[k], queue[k + d])
    <3>1. Of(k + d) /\ queue[k + d].event = "finished"
      BY <1>3, <1>6, <2>1
    <3>2. rpc = "ended" /\ \A j \in k + d + 1..Len(queue) : ~Of(j)
      BY <2>1, <3>1 DEF QueueInv
    <3>3. ASSUME NEW j \in k + 1..Len(queue'), Of(j)'
          PROVE  FALSE
      <4>1. j \in 1..Len(queue')
        BY <1>1
      <4>2. CASE j + d \in 1..Len(queue) /\ Kin(queue'[j], queue[j + d])
        <5>1. j + d \in k + d + 1..Len(queue)
          BY <1>1, <4>2
        <5> QED
          BY <1>3, <3>2, <3>3, <4>1, <4>2, <5>1
      <4>3. CASE j + d > Len(queue) /\ queue'[j] \in N
        BY <3>2, <3>3, <4>3 DEF Of
      <4> QED
        BY <1>2, <4>1, <4>2, <4>3
    <3> QED
      BY <3>2, <3>3
  <2>2. CASE k + d > Len(queue) /\ queue'[k] \in N
    <3>1. k = Len(queue') /\ rpc' = "ended"
      BY <1>6, <2>2 DEF Tells, Of
    <3> QED
      BY <1>1, <3>1
  <2> QED
    BY <1>2, <2>1, <2>2
<1> QED
  BY <1>4, <1>5, <1>6 DEF QueueInv

\* A message that has not been applied: it is of a command issued, or stale.
Unapplied(m, times, last) == m.id <= last /\ (m.fresh => times[m.id] = 0)

LEMMA OnceKept ==
  ASSUME TypeInv, OnceInv, NEW N, NEW d \in {0, 1}, Tells(d, N),
         applied' = applied, issued' \in Nat, issued <= issued',
         \A m \in N : m \in Messages /\ Unapplied(m, applied, issued'),
         \A c \in ui' : c \in Commands /\ (Unapplied(c, applied, issued') \/ \E b \in ui : Kin(c, b))
  PROVE  OnceInv'
<1>1. /\ queue \in Seq(Messages) /\ queue' \in Seq(Messages) /\ issued \in Nat
      /\ Len(queue) \in Nat /\ Len(queue') \in Nat /\ ui \subseteq Commands
  BY DEF TypeInv, QueueShape, ThreadShape, Tells, Messages
<1>2. \A m \in Messages : m.id \in Nat
  <2>1. \A m \in Commands : m.id \in Nat
    BY DEF Commands, Ids
  <2>2. \A m \in Events : m.id \in Nat
    BY DEF Events
  <2> QED
    BY <2>1, <2>2 DEF Messages
<1>3. \A a \in Messages, b \in Messages : Kin(a, b) /\ Unapplied(b, applied, issued) => Unapplied(a, applied, issued')
  BY <1>1, <1>2 DEF Kin, Unapplied
<1>4. \A i \in Ids : applied'[i] <= 1 /\ (i > issued' => applied'[i] = 0)
  BY <1>1 DEF OnceInv, Ids
<1>5. ASSUME NEW k \in 1..Len(queue')
      PROVE  Unapplied(queue'[k], applied, issued')
  <2>1. CASE k + d \in 1..Len(queue) /\ Kin(queue'[k], queue[k + d])
    <3>1. queue'[k] \in Messages /\ queue[k + d] \in Messages /\ Unapplied(queue[k + d], applied, issued)
      BY <1>1, <2>1 DEF OnceInv, Unapplied
    <3> QED
      BY <1>3, <2>1, <3>1
  <2>2. CASE k + d > Len(queue) /\ queue'[k] \in N
    <3>1. queue'[k] \in N
      BY <2>2
    <3> QED
      BY <3>1
  <2> QED
    BY <2>1, <2>2 DEF Tells, Comes
<1>6. ASSUME NEW c \in ui'
      PROVE  Unapplied(c, applied, issued')
  <2>1. \A b \in ui : b \in Messages /\ Unapplied(b, applied, issued)
    BY <1>1 DEF OnceInv, Unapplied, Messages
  <2> QED
    BY <1>3, <2>1 DEF Messages
<1>7. \A k \in 1..Len(queue') : queue'[k].id <= issued' /\ (queue'[k].fresh => applied'[queue'[k].id] = 0)
  BY <1>5 DEF Unapplied
<1>8. \A c \in ui' : c.id <= issued' /\ (c.fresh => applied'[c.id] = 0)
  BY <1>6 DEF Unapplied
<1> QED
  BY <1>4, <1>7, <1>8 DEF OnceInv

\* Applying a command outdates every copy of it, and of every other.
LEMMA OnceApplied ==
  ASSUME TypeInv, OnceInv, queue' \in Seq(Messages), issued' = issued,
         NEW c \in Commands, c.fresh, Unapplied(c, applied, issued), applied' = [applied EXCEPT ![c.id] = @ + 1],
         NEW N, NEW d \in {0, 1}, Comes(queue', queue, d, N), N \subseteq Events,
         \A k \in 1..Len(queue') : ~queue'[k].fresh, StaleUi
  PROVE  OnceInv'
<1>1. /\ queue \in Seq(Messages) /\ issued \in Nat /\ applied \in [Ids -> Nat]
      /\ Len(queue) \in Nat /\ Len(queue') \in Nat /\ ui \subseteq Commands /\ c.id \in Ids
  BY DEF TypeInv, QueueShape, ThreadShape, Messages, Commands
<1>2. \A i \in Ids : applied'[i] <= 1 /\ (i > issued' => applied'[i] = 0)
  <2> TAKE i \in Ids
  <2>1. applied[c.id] = 0 /\ c.id <= issued /\ i \in Nat /\ c.id \in Nat
    BY <1>1 DEF Unapplied, Ids
  <2>2. applied[i] <= 1 /\ (i > issued => applied[i] = 0) /\ applied[i] \in Nat
    BY <1>1 DEF OnceInv
  <2>3. applied'[i] = IF i = c.id THEN 1 ELSE applied[i]
    BY <1>1, <2>1
  <2> QED
    BY <1>1, <2>1, <2>2, <2>3
<1>3. ASSUME NEW k \in 1..Len(queue')
      PROVE  queue'[k].id <= issued'
  <2>1. CASE k + d \in 1..Len(queue) /\ Kin(queue'[k], queue[k + d])
    BY <2>1 DEF OnceInv, Kin
  <2>2. CASE k + d > Len(queue) /\ queue'[k] \in N
    <3>1. queue'[k] \in Events
      BY <2>2
    <3>2. queue'[k].id = 0
      BY <3>1 DEF Events
    <3> QED
      BY <1>1, <3>2
  <2> QED
    BY <2>1, <2>2 DEF Comes
<1>4. ASSUME NEW b \in ui'
      PROVE  b.id <= issued' /\ ~b.fresh
  <2>1. PICK a \in ui : b = [a EXCEPT !.fresh = FALSE]
    BY DEF StaleUi
  <2>2. a \in Commands /\ a.id <= issued
    BY <1>1 DEF OnceInv
  <2> QED
    BY <2>1, <2>2 DEF Commands
<1> QED
  BY <1>2, <1>3, <1>4 DEF OnceInv
-----------------------------------------------------------------------------
(* The messages, step by step.                                              *)

MessagesInv == QueueShape /\ OnceInv /\ QueueInv

LEMMA OfferedOps == Offered(record) \subseteq Ops
<1>1. Allowed(record) \subseteq Ops
  BY DEF Allowed, Ops
<1> QED
  BY <1>1 DEF Offered, Ops

LEMMA StillMessages ==
  ASSUME MessagesInv, UNCHANGED <<record, queue, ui, issued, applied, rpc>>, mode' \in {mode, "closing", "closed"}
  PROVE  MessagesInv'
<1>1. QueueShape' /\ OnceInv'
  BY DEF MessagesInv, QueueShape, OnceInv
<1>2. QueueInv'
  BY DEF MessagesInv, QueueInv, Of
<1> QED
  BY <1>1, <1>2 DEF MessagesInv

\* A request puts one command in the queue.
LEMMA RequestMessages ==
  ASSUME TypeInv, OnceInv, QueueInv, NEW c \in Commands, Sends(c), mode = "up", mode' = mode,
         record' = record, rpc' = rpc, applied' = applied, issued' \in Nat, issued <= issued',
         Unapplied(c, applied, issued'), ui' \subseteq ui \cup {c}
  PROVE  MessagesInv'
<1>1. /\ queue \in Seq(Messages) /\ ui \subseteq Commands /\ record.run \in Nat
      /\ c \in Messages /\ c.op # "event" /\ Len(queue) \in Nat
  BY DEF TypeInv, QueueShape, RecordShape, Records, Messages, Commands, Ops
<1>2. Comes(queue, queue, 0, {c})
  BY <1>1, SameComes
<1>3. queue' \in Seq(Messages) /\ Comes(queue', queue, 0, {c})
  <2>1. 0 \in {0, 1} /\ Len(queue) + 0 >= Len(queue) /\ c \in {c} /\ queue' = Append(queue, c)
    BY <1>1 DEF Sends
  <2> QED
    BY <1>1, <1>2, <2>1, AppendComes
<1>4. Tells(0, {c})
  <2>1. \A k \in 1..Len(queue') : k + 0 > Len(queue) => queue'[k] = c
    BY <1>1, <1>3 DEF Comes
  <2> QED
    BY <1>1, <1>3, <2>1 DEF Tells
<1>5. QueueInv'
  BY <1>1, <1>4, QueueKept
<1>6. OnceInv'
  <2>1. \A m \in {c} : m \in Messages /\ Unapplied(m, applied, issued')
    BY <1>1
  <2>2. \A b \in ui' : b \in Commands /\ (Unapplied(b, applied, issued') \/ \E a \in ui : Kin(b, a))
    BY <1>1 DEF Kin
  <2> QED
    BY <1>4, <2>1, <2>2, OnceKept
<1>7. QueueShape'
  BY <1>1, <1>3 DEF QueueShape, Messages
<1> QED
  BY <1>5, <1>6, <1>7 DEF MessagesInv

LEMMA SubmitMessages ==
  ASSUME TypeInv, OnceInv, QueueInv, Submit
  PROVE  MessagesInv'
<1>1. PICK op \in Offered(record) :
         /\ ui' = (IF repeats < MaxRepeats THEN ui \cup {Cmd(op, issued + 1, record)} ELSE {})
         /\ Sends(Cmd(op, issued + 1, record))
  BY DEF Submit
<1>2. /\ mode = "up" /\ issued < MaxCommands /\ issued' = issued + 1 /\ mode' = mode
      /\ record' = record /\ rpc' = rpc /\ applied' = applied
  BY DEF Submit, threadVars, historyVars
<1>3. issued \in Nat /\ issued' \in Nat /\ issued <= issued' /\ issued + 1 \in Ids /\ issued + 1 > issued
  BY <1>2, ServiceAssumption DEF TypeInv, ThreadShape, Ids
<1>4. record.run \in Nat
  BY DEF TypeInv, RecordShape, Records
<1> DEFINE c == Cmd(op, issued + 1, record)
<1>5. c \in Commands /\ c.id = issued + 1
  BY <1>1, <1>3, <1>4, OfferedOps DEF Cmd, Commands
<1>6. applied[issued + 1] = 0
  BY <1>3 DEF OnceInv
<1> HIDE DEF c
<1>7. Unapplied(c, applied, issued')
  BY <1>2, <1>3, <1>5, <1>6 DEF Unapplied
<1>8. Sends(c) /\ ui' \subseteq ui \cup {c}
  BY <1>1 DEF c
<1> QED
  BY <1>2, <1>3, <1>5, <1>7, <1>8, RequestMessages

LEMMA ResubmitMessages ==
  ASSUME TypeInv, OnceInv, QueueInv, Resubmit
  PROVE  MessagesInv'
<1>1. PICK c \in ui : Sends(c)
  BY DEF Resubmit
<1>2. /\ mode = "up" /\ issued' = issued /\ mode' = mode /\ ui' \subseteq ui
      /\ record' = record /\ rpc' = rpc /\ applied' = applied
  BY DEF Resubmit, threadVars, historyVars
<1>3. c \in Commands /\ Unapplied(c, applied, issued') /\ issued \in Nat /\ issued <= issued'
  BY <1>2 DEF TypeInv, QueueShape, ThreadShape, OnceInv, Unapplied
<1> QED
  BY <1>1, <1>2, <1>3, RequestMessages

\* The loop takes the head of the queue away.
LEMMA HeadGone ==
  ASSUME TypeInv, queue # <<>>
  PROVE  /\ \A N : queue' = Tail(queue) => Tells(1, N)
         /\ queue' = Stale(Tail(queue)) =>
               Tells(1, {}) /\ \A k \in 1..Len(queue') : ~queue'[k].fresh
         /\ \A r \in Nat : \A e \in Said(r) : queue' = Stale(Append(Tail(queue), e)) =>
               Tells(1, Said(r)) /\ \A k \in 1..Len(queue') : ~queue'[k].fresh
<1>1. queue \in Seq(Messages) /\ Len(queue) \in Nat /\ Len(Tail(queue)) = Len(queue) - 1
  BY DEF TypeInv, QueueShape, Messages
<1>2. Tail(queue) \in Seq(Messages) /\ \A N : Comes(Tail(queue), queue, 1, N)
  BY <1>1, TailComes
<1>3. ASSUME NEW N, queue' = Tail(queue)
      PROVE  Tells(1, N)
  <2>1. queue' \in Seq(Messages) /\ Comes(queue', queue, 1, N) /\ Len(queue') = Len(queue) - 1
    BY <1>1, <1>2, <1>3
  <2>2. \A k \in 1..Len(queue') : ~(k + 1 > Len(queue))
    BY <1>1, <2>1
  <2> QED
    BY <2>1, <2>2 DEF Tells
<1>4. ASSUME NEW q \in Seq(Messages), NEW r \in Nat, Comes(q, queue, 1, Said(r)), queue' = Stale(q)
      PROVE  Tells(1, Said(r)) /\ \A k \in 1..Len(queue') : ~queue'[k].fresh
  <2>1. /\ queue' \in Seq(Messages) /\ Comes(queue', queue, 1, Said(r))
        /\ \A k \in 1..Len(queue') : ~queue'[k].fresh
    BY <1>1, <1>4, StaleComes
  <2>2. \A k \in 1..Len(queue') : k + 1 > Len(queue) => queue'[k] \in Said(r)
    BY <1>1, <2>1 DEF Comes
  <2>3. \A m \in Said(r) : m.event # "finished"
    BY DEF Said
  <2> QED
    BY <2>1, <2>2, <2>3 DEF Tells
<1>5. ASSUME NEW r \in Nat, NEW e \in Said(r)
      PROVE  Append(Tail(queue), e) \in Seq(Messages) /\ Comes(Append(Tail(queue), e), queue, 1, Said(r))
  <2>1. e \in Messages
    BY DEF Said, Messages
  <2>2. 1 \in {0, 1} /\ Len(Tail(queue)) + 1 >= Len(queue)
    BY <1>1
  <2> QED
    BY <1>1, <1>2, <2>1, <2>2, AppendComes
<1>6. ASSUME queue' = Stale(Tail(queue))
      PROVE  Tells(1, {}) /\ \A k \in 1..Len(queue') : ~queue'[k].fresh
  <2>1. Tells(1, Said(0)) /\ \A k \in 1..Len(queue') : ~queue'[k].fresh
    BY <1>2, <1>4, <1>6
  <2>2. Len(queue') = Len(queue) - 1
    BY <1>1, <1>2, <1>6, StaleComes
  <2>3. \A k \in 1..Len(queue') : ~(k + 1 > Len(queue))
    BY <1>1, <2>2
  <2> QED
    BY <2>1, <2>3 DEF Tells, Comes
<1> QED
  BY <1>3, <1>4, <1>5, <1>6

\* Messages that change nothing but the queue and what the user interface may repeat.
LEMMA EventMessages ==
  ASSUME TypeInv, OnceInv, QueueInv, mode' # "down",
         record'.run = record.run, applied' = applied, issued' = issued,
         ui' = ui \/ StaleUi, NEW d \in {0, 1}, NEW N \in SUBSET Events, Tells(d, N),
         \A m \in N : m.run = record.run /\ rpc' # "none" /\ rpc # "ended",
         rpc' = "none" => rpc = "none", rpc = "ended" => rpc' = "ended"
  PROVE  MessagesInv'
<1>1. record.run \in Nat /\ issued \in Nat /\ ui \subseteq Commands
  BY DEF TypeInv, RecordShape, Records, ThreadShape, QueueShape
<1>2. QueueInv'
  BY <1>1, QueueKept
<1>3. \A m \in N : m \in Messages /\ Unapplied(m, applied, issued')
  <2> TAKE m \in N
  <2>1. m \in Events /\ m \in Messages
    BY DEF Messages
  <2>2. m.id = 0 /\ ~m.fresh
    BY <2>1 DEF Events
  <2> QED
    BY <1>1, <2>1, <2>2 DEF Unapplied
<1>4. \A c \in ui' : c \in Commands /\ \E b \in ui : Kin(c, b)
  <2>1. CASE ui' = ui
    BY <1>1, <2>1 DEF Kin
  <2>2. CASE StaleUi
    <3> TAKE c \in ui'
    <3>1. PICK b \in ui : c = [b EXCEPT !.fresh = FALSE]
      BY <2>2 DEF StaleUi
    <3>2. b \in Commands /\ b \in Messages
      BY <1>1 DEF Messages
    <3> QED
      BY <3>1, <3>2, StaleMessage
  <2> QED
    BY <2>1, <2>2
<1>5. OnceInv'
  BY <1>1, <1>3, <1>4, OnceKept
<1>6. QueueShape'
  BY <1>4 DEF QueueShape, Messages, Tells
<1> QED
  BY <1>2, <1>5, <1>6 DEF MessagesInv

LEMMA DroppedMessages ==
  ASSUME TypeInv, OnceInv, QueueInv, queue # <<>>, queue' = Tail(queue), mode' # "down",
         UNCHANGED <<record, rpc, applied, issued, ui>>
  PROVE  MessagesInv'
<1>1. Tells(1, {})
  BY HeadGone
<1>2. 1 \in {0, 1} /\ {} \in SUBSET Events
  OBVIOUS
<1> QED
  BY <1>1, <1>2, EventMessages

LEMMA CommandMessages ==
  ASSUME TypeInv, OnceInv, QueueInv, RunInv, TakeCommand
  PROVE  MessagesInv'
<1> DEFINE c == Head(queue)
<1>1. mode # "down" /\ mode' = mode /\ rpc' = rpc /\ issued' = issued /\ queue # <<>>
  BY DEF TakeCommand, threadVars
<1>2. CASE queue' = Tail(queue) /\ UNCHANGED <<record, applied, ui>>
  BY <1>1, <1>2, DroppedMessages
<1>3. CASE Accepts(c) /\ (ApplyStart(c) \/ ApplyCommand(c)) /\ applied' = [applied EXCEPT ![c.id] = @ + 1]
           /\ queue' = Stale(Echo(c)) /\ StaleUi
  <2>1. c \in Commands /\ c = queue[1] /\ 1 \in 1..Len(queue) /\ c.fresh
    BY <1>1, <1>3, HeadIsMessage DEF TypeInv, TakeCommand, Accepts
  <2>2. Unapplied(c, applied, issued)
    BY <2>1 DEF OnceInv, Unapplied
  <2>3. record.run \in Nat /\ ctl.run \in Nat /\ pending = 0
    BY DEF TypeInv, RecordShape, Records, ControlShape, Controls, TakeCommand, Busy
  <2>4. CASE ApplyStart(c)
    <3>1. Resolved(record) /\ record' = NewRun(record) /\ ctl'.term = "none"
      BY <1>3, <2>1, <2>4, StartStep
    <3>2. ~ctl.listed /\ ctl.term = "none" /\ rpc = "none"
      BY <3>1 DEF RunInv
    <3>3. queue' = Stale(Tail(queue))
      BY <1>3, <3>1, <3>2 DEF Echo
    <3>4. Tells(1, {}) /\ \A k \in 1..Len(queue') : ~queue'[k].fresh
      BY <1>1, <3>3, HeadGone
    <3>5. record'.run = record.run + 1
      BY <3>1, NewRunFields DEF TypeInv, RecordShape
    <3>6. record'.run \in Nat /\ record.run <= record'.run /\ 1 \in {0, 1}
      BY <2>3, <3>5
    <3>7. QueueInv'
      BY <1>1, <3>2, <3>4, <3>6, QueueKept
    <3>8. OnceInv'
      <4>1. PICK N \in {{}} : Comes(queue', queue, 1, N) /\ queue' \in Seq(Messages) /\ N \subseteq Events
        BY <3>4 DEF Tells
      <4> QED
        BY <1>1, <1>3, <2>1, <2>2, <3>4, <3>6, <4>1, OnceApplied
    <3> QED
      BY <1>3, <3>4, <3>7, <3>8, StaleMessage DEF MessagesInv, QueueShape, TypeInv, Tells, StaleUi, Messages
  <2>5. CASE ApplyCommand(c)
    <3>1. record'.run = record.run /\ (ctl'.term = ctl.term \/ (ctl.listed /\ ~ctl.cleanup))
      BY <1>3, <2>1, <2>5, OrderStep
    <3>2. PICK N \in {{}, Said(ctl.run)} :
             /\ Tells(1, N) /\ \A k \in 1..Len(queue') : ~queue'[k].fresh
             /\ N = {} \/ (ctl.listed /\ ~ctl.cleanup)
      <4>1. CASE ctl'.term = ctl.term
        <5>1. queue' = Stale(Tail(queue))
          BY <1>3, <4>1 DEF Echo
        <5> QED
          BY <1>1, <5>1, HeadGone
      <4>2. CASE ctl'.term # ctl.term
        <5>1. queue' = Stale(Append(Tail(queue), Event("termination", ctl.run)))
          BY <1>3, <4>2 DEF Echo
        <5>2. Event("termination", ctl.run) \in Said(ctl.run)
          BY <2>3, EventIsShaped DEF Changes
        <5> QED
          BY <1>1, <2>3, <3>1, <4>2, <5>1, <5>2, HeadGone
      <4> QED
        BY <4>1, <4>2
    <3>3. N \in SUBSET Events /\ 1 \in {0, 1}
      BY DEF Said
    <3>4. \A m \in N : m.run = record.run /\ rpc' # "none" /\ rpc # "ended"
      <4>1. ctl.listed /\ ~ctl.cleanup => rpc \notin {"none", "ended"} /\ ctl.run = record.run
        BY <2>3 DEF RunInv
      <4>2. \A m \in Said(ctl.run) : m.run = ctl.run
        BY DEF Said
      <4> QED
        BY <1>1, <3>2, <4>1, <4>2
    <3>5. QueueInv'
      <4>1. record'.run \in Nat /\ record.run <= record'.run
        BY <2>3, <3>1
      <4> QED
        BY <1>1, <3>1, <3>2, <3>3, <3>4, <4>1, QueueKept
    <3>6. OnceInv'
      <4>1. Comes(queue', queue, 1, N) /\ queue' \in Seq(Messages) /\ N \subseteq Events
        BY <3>2, <3>3 DEF Tells
      <4> QED
        BY <1>1, <1>3, <2>1, <2>2, <3>2, <3>3, <4>1, OnceApplied
    <3> QED
      BY <1>3, <3>2, <3>5, <3>6, StaleMessage DEF MessagesInv, QueueShape, TypeInv, Tells, StaleUi, Messages
  <2> QED
    BY <1>3, <2>4, <2>5
<1> QED
  BY <1>2, <1>3 DEF TakeCommand

LEMMA RememberMessages ==
  ASSUME TypeInv, OnceInv, QueueInv, RunInv, Remember
  PROVE  MessagesInv'
<1>1. /\ mode # "down" /\ mode' = mode /\ issued' = issued /\ ui' = ui /\ applied' = applied
      /\ record.run \in Nat /\ record'.run = record.run /\ queue \in Seq(Messages) /\ Len(queue) \in Nat
  BY DEF Remember, Save, TypeInv, RecordShape, Records, QueueShape, Messages
<1>2. Said(record.run) \in SUBSET Events /\ 0 \in {0, 1} /\ {} \in SUBSET Events
  BY DEF Said
<1>3. CASE record.phase = "created" /\ rpc = "none"
  <2>1. rpc' = "establish" /\ queue' = Append(queue, Event("preflight", record.run))
    BY <1>3 DEF Remember
  <2>2. Event("preflight", record.run) \in Said(record.run) /\ Event("preflight", record.run) \in Messages
    BY <1>1, EventIsShaped DEF Changes, Messages
  <2>3. Comes(queue, queue, 0, Said(record.run)) /\ Len(queue) + 0 >= Len(queue)
    BY <1>1, SameComes
  <2>4. queue' \in Seq(Messages) /\ Comes(queue', queue, 0, Said(record.run))
    BY <1>1, <1>2, <2>1, <2>2, <2>3, AppendComes
  <2>5. Tells(0, Said(record.run))
    <3>1. \A k \in 1..Len(queue') : k + 0 > Len(queue) => queue'[k] \in Said(record.run)
      BY <1>1, <2>4 DEF Comes
    <3>2. \A m \in Said(record.run) : m.event # "finished" /\ m.run = record.run
      BY DEF Said
    <3> QED
      BY <2>4, <3>1, <3>2 DEF Tells
  <2>6. \A m \in Said(record.run) : m.run = record.run
    BY DEF Said
  <2> QED
    BY <1>1, <1>2, <1>3, <2>1, <2>5, <2>6, EventMessages
<1>4. CASE ~(record.phase = "created" /\ rpc = "none")
  <2>1. rpc' = rpc /\ queue' = queue
    BY <1>4 DEF Remember
  <2>2. Tells(0, {})
    BY <2>1, SameTells DEF TypeInv
  <2> QED
    BY <1>1, <1>2, <2>1, <2>2, EventMessages
<1> QED
  BY <1>3, <1>4

LEMMA EventTaken ==
  ASSUME TypeInv, OnceInv, QueueInv, RunInv, TakeEvent
  PROVE  MessagesInv'
<1> DEFINE e == Head(queue)
<1>1. /\ mode # "down" /\ mode' = mode /\ issued' = issued /\ applied' = applied /\ queue # <<>>
      /\ record \in Records /\ record.run \in Nat
  BY DEF TakeEvent, TypeInv, RecordShape, Records, historyVars
<1>2. /\ e \in Events /\ e = queue[1] /\ 1 \in 1..Len(queue) /\ e.event \in Changes
      /\ e.run = record.run /\ e.event = "finished" => rpc = "ended"
  <2>1. e \in Events /\ e = queue[1] /\ 1 \in 1..Len(queue)
        /\ (e.run = record.run /\ e.event = "finished" => rpc = "ended")
    BY EventStep
  <2> QED
    BY <2>1 DEF Events
<1>3. 1 \in {0, 1} /\ {} \in SUBSET Events
  OBVIOUS
<1>4. CASE e.run # record.run
  <2>1. queue' = Tail(queue) /\ UNCHANGED <<record, rpc, ui>>
    BY <1>4 DEF TakeEvent
  <2> QED
    BY <1>1, <2>1, DroppedMessages
<1>5. CASE e.run = record.run
  <2>1. queue' = Stale(Tail(queue)) /\ StaleUi
    BY <1>5 DEF TakeEvent
  <2>2. Tells(1, {})
    BY <1>1, <2>1, HeadGone
  <2>3. CASE e.event # "finished"
    <3>1. record' = Applied(e.event) /\ rpc' = rpc
      BY <1>5, <2>3 DEF TakeEvent, Save
    <3>2. record'.run = record.run
      BY <1>1, <1>2, <3>1, AppliedFields
    <3> QED
      BY <1>1, <1>3, <2>1, <2>2, <3>1, <3>2, EventMessages
  <2>4. CASE e.event = "finished"
    <3>1. record' = Finished(record) /\ rpc' = "none" /\ rpc = "ended"
      BY <1>2, <1>5, <2>4 DEF TakeEvent, Save
    <3>2. record'.run = record.run
      <4>1. report \in Reports /\ report.functional # "none" /\ report.cleanup # "none"
        BY <3>1 DEF TypeInv, ThreadShape, RunInv
      <4> QED
        BY <1>1, <3>1, <4>1, FinishedFields
    <3>3. \A j \in 2..Len(queue) : ~Of(j)
      <4>1. Of(1) /\ queue[1].event = "finished"
        BY <1>2, <1>5, <2>4 DEF Of, TakeEvent
      <4>2. \A j \in 1 + 1..Len(queue) : ~Of(j)
        BY <1>2, <4>1 DEF QueueInv
      <4> QED
        BY <4>2
    <3>4. \A k \in 1..Len(queue') : k + 1 \in 1..Len(queue) /\ Kin(queue'[k], queue[k + 1])
      BY <2>2 DEF Tells, Comes
    <3>5. queue \in Seq(Messages) /\ Len(queue) \in Nat /\ Len(queue') \in Nat /\ queue' \in Seq(Messages)
      BY <2>2 DEF TypeInv, QueueShape, Messages, Tells
    <3>6. \A k \in 1..Len(queue') : ~Of(k)'
      <4> TAKE k \in 1..Len(queue')
      <4>1. k + 1 \in 2..Len(queue) /\ Kin(queue'[k], queue[k + 1])
        BY <3>4, <3>5
      <4>2. ~Of(k + 1)
        BY <3>3, <4>1
      <4> QED
        BY <3>2, <4>1, <4>2 DEF Of, Kin
    <3>7. \A k \in 1..Len(queue') : queue'[k].op = "event" => queue'[k].run <= record'.run
      <4> TAKE k \in 1..Len(queue')
      <4>1. k + 1 \in 1..Len(queue) /\ Kin(queue'[k], queue[k + 1])
        BY <3>4
      <4>2. queue[k + 1].op = "event" => queue[k + 1].run <= record.run
        BY <4>1 DEF QueueInv
      <4> QED
        BY <3>2, <4>1, <4>2 DEF Kin
    <3>8. QueueInv'
      BY <1>1, <3>6, <3>7 DEF QueueInv
    <3>9. \A c \in ui' : c \in Commands /\ \E b \in ui : Kin(c, b)
      <4> TAKE c \in ui'
      <4>1. PICK b \in ui : c = [b EXCEPT !.fresh = FALSE]
        BY <2>1 DEF StaleUi
      <4>2. b \in Commands /\ b \in Messages
        BY DEF Messages, TypeInv, QueueShape
      <4> QED
        BY <4>1, <4>2, StaleMessage
    <3>10. issued \in Nat /\ issued' \in Nat /\ issued <= issued'
      BY <1>1 DEF TypeInv, ThreadShape
    <3>11. OnceInv'
      BY <1>1, <1>3, <2>2, <3>9, <3>10, OnceKept
    <3> QED
      BY <3>5, <3>8, <3>9, <3>11 DEF MessagesInv, QueueShape, Messages
  <2> QED
    BY <2>3, <2>4
<1> QED
  BY <1>4, <1>5

LEMMA ThreadMessages ==
  ASSUME TypeInv, OnceInv, QueueInv, RunInv, Onward
  PROVE  MessagesInv'
<1> DEFINE N == {m \in Events : m.run = ctl.run}
<1>1. /\ mode' # "down" /\ record'.run = record.run /\ applied' = applied /\ issued' = issued /\ ui' = ui
      /\ rpc \notin {"none", "ended"} /\ rpc' # "none" /\ Tells(0, N)
  BY DEF Onward, Plain
<1>2. N \in SUBSET Events /\ 0 \in {0, 1} /\ ctl.run = record.run
  BY <1>1 DEF RunInv
<1>3. \A m \in N : m.run = record.run /\ rpc' # "none" /\ rpc # "ended"
  BY <1>1, <1>2
<1> HIDE DEF N
<1> QED
  BY <1>1, <1>2, <1>3, EventMessages

LEMMA WatchdogMessages ==
  ASSUME TypeInv, OnceInv, QueueInv, RunInv, WatchdogFires
  PROVE  MessagesInv'
<1>1. /\ mode' # "down" /\ record'.run = record.run /\ applied' = applied /\ issued' = issued /\ ui' = ui
      /\ rpc' = rpc /\ rpc \notin {"none", "ended"} /\ ctl.run = record.run
  BY DEF WatchdogFires, RunInv, historyVars
<1>2. <<"watchdog", "termination">> \in Seq(Changes \ {"finished"}) /\ <<"watchdog">> \in Seq(Changes \ {"finished"})
  BY DEF Changes
<1>3. Tells(0, Said(ctl.run))
  BY <1>2, PublishedTells DEF WatchdogFires, TypeInv
<1>4. Said(ctl.run) \in SUBSET Events /\ 0 \in {0, 1} /\ \A m \in Said(ctl.run) : m.run = ctl.run
  BY DEF Said
<1> QED
  BY <1>1, <1>3, <1>4, EventMessages

LEMMA GoneMessages ==
  ASSUME TypeInv, OnceInv, QueueInv, Gone
  PROVE  MessagesInv'
<1>1. queue' = <<>> /\ UNCHANGED <<ui, issued, applied>>
  BY DEF Gone, historyVars
<1>2. QueueShape' /\ OnceInv'
  BY <1>1 DEF TypeInv, QueueShape, OnceInv
<1>3. QueueInv'
  BY <1>1 DEF QueueInv
<1> QED
  BY <1>2, <1>3 DEF MessagesInv

LEMMA BootMessages ==
  ASSUME TypeInv, OnceInv, QueueInv, Boot
  PROVE  MessagesInv'
<1>1. queue = <<>> /\ queue' = <<>> /\ UNCHANGED <<issued, applied>> /\ ui \subseteq Commands
  BY DEF Boot, QueueInv, TypeInv, QueueShape
<1>2. ui' = ui \/ StaleUi
  BY DEF Boot
<1>3. \A c \in ui' : c \in Commands /\ \E b \in ui : Kin(c, b)
  <2>1. CASE ui' = ui
    BY <1>1, <2>1 DEF Kin
  <2>2. CASE StaleUi
    <3> TAKE c \in ui'
    <3>1. PICK b \in ui : c = [b EXCEPT !.fresh = FALSE]
      BY <2>2 DEF StaleUi
    <3>2. b \in Commands /\ b \in Messages
      BY <1>1 DEF Messages
    <3> QED
      BY <3>1, <3>2, StaleMessage
  <2> QED
    BY <1>2, <2>1, <2>2
<1>4. OnceInv' /\ QueueShape'
  <2>1. \A c \in ui' : c.id <= issued' /\ (c.fresh => applied'[c.id] = 0)
    BY <1>1, <1>3 DEF OnceInv, Kin
  <2>2. \A i \in Ids : applied'[i] <= 1 /\ (i > issued' => applied'[i] = 0)
    BY <1>1 DEF OnceInv
  <2> QED
    BY <1>1, <1>3, <2>1, <2>2 DEF OnceInv, QueueShape
<1>5. QueueInv'
  BY <1>1 DEF QueueInv
<1> QED
  BY <1>4, <1>5 DEF MessagesInv

LEMMA MessageSteps ==
  ASSUME IInv, [Next]_vars
  PROVE  MessagesInv'
<1>1. TypeInv /\ OnceInv /\ QueueInv /\ RunInv /\ MessagesInv
  BY DEF IInv, TypeInv, MessagesInv
<1>2. CASE Submit \/ Resubmit
  BY <1>1, <1>2, SubmitMessages, ResubmitMessages
<1>3. CASE CommandLoop
  BY <1>1, <1>3, CommandMessages, RememberMessages, EventTaken DEF CommandLoop
<1>4. CASE RunThread
  BY <1>1, <1>4, ThreadMovesOn, ThreadMessages
<1>5. CASE WatchdogFires
  BY <1>1, <1>5, WatchdogMessages
<1>6. CASE EndpointSilent \/ Close \/ StopLoop \/ UNCHANGED vars
  <2>1. UNCHANGED <<record, queue, ui, issued, applied, rpc>> /\ mode' \in {mode, "closing", "closed"}
    BY <1>6 DEF EndpointSilent, Close, StopLoop, vars, threadVars, historyVars
  <2> QED
    BY <1>1, <2>1, StillMessages
<1>7. CASE Exit \/ Dies
  BY <1>1, <1>7, GoneMessages DEF Exit, Dies
<1>8. CASE Boot
  BY <1>1, <1>8, BootMessages
<1> QED
  BY <1>2, <1>3, <1>4, <1>5, <1>6, <1>7, <1>8 DEF Next

-----------------------------------------------------------------------------
(* The shapes, step by step.                                                *)

\* What the loop and the start of the process leave in the record.
LEMMA RecordSteps ==
  ASSUME IInv, [Next]_vars
  PROVE  RecordShape'
<1>1. record \in Records /\ Len(record.known) <= MaxKnown /\ disk = record /\ record.known \in Seq(Ids)
  BY DEF IInv, TypeInv, RecordShape, Records
<1>2. ASSUME record' \in Records, disk' = record', record'.known = record.known
      PROVE  RecordShape'
  BY <1>1, <1>2 DEF RecordShape
<1>3. CASE UNCHANGED <<record, disk>>
  BY <1>1, <1>3 DEF RecordShape
<1>4. CASE TakeCommand
  <2> DEFINE c == Head(queue)
  <2>1. CASE Accepts(c) /\ (ApplyStart(c) \/ ApplyCommand(c))
    <3>1. c \in Commands /\ TypeInv
      BY <1>4, HeadIsMessage DEF TakeCommand, IInv, TypeInv
    <3>2. CASE ApplyStart(c)
      <4>1. record' = NewRun(record) /\ disk' = record'
        BY <2>1, <3>1, <3>2, StartStep
      <4> QED
        BY <1>1, <1>2, <4>1, NewRunFields
    <3>3. CASE ApplyCommand(c)
      BY <1>2, <2>1, <3>1, <3>3, OrderStep
    <3> QED
      BY <2>1, <3>2, <3>3
  <2>2. CASE UNCHANGED <<record, disk>>
    BY <1>3, <2>2
  <2> QED
    BY <1>4, <2>1, <2>2 DEF TakeCommand
<1>5. CASE Remember
  <2>1. pending \in Ids
    BY <1>5, ServiceAssumption DEF Remember, Busy, IInv, TypeInv, ThreadShape, Ids
  <2>2. record' = [record EXCEPT !.known = Kept(Append(record.known, pending))] /\ disk' = record'
    BY <1>5 DEF Remember, Save
  <2>3. Kept(Append(record.known, pending)) \in Seq(Ids) /\ Len(Kept(Append(record.known, pending))) <= MaxKnown
    BY <1>1, <2>1, KeptIsShort
  <2>4. record' \in Records /\ record'.known = Kept(Append(record.known, pending))
    BY <1>1, <2>2, <2>3 DEF Records
  <2> QED
    BY <2>2, <2>3, <2>4 DEF RecordShape
<1>6. CASE TakeEvent
  <2> DEFINE e == Head(queue)
  <2>1. e \in Events /\ e.event \in Changes /\ (e.run = record.run /\ e.event = "finished" => rpc = "ended")
    <3>1. e \in Events /\ (e.run = record.run /\ e.event = "finished" => rpc = "ended")
      BY <1>6, EventStep DEF IInv
    <3> QED
      BY <3>1 DEF Events
  <2>2. CASE e.run # record.run
    BY <1>3, <1>6, <2>2 DEF TakeEvent
  <2>3. CASE e.run = record.run /\ e.event # "finished"
    <3>1. record' = Applied(e.event) /\ disk' = Applied(e.event)
      BY <1>6, <2>3 DEF TakeEvent, Save
    <3>2. Applied(e.event) \in Records /\ Applied(e.event).known = record.known
      BY <1>1, <2>1, AppliedFields
    <3> QED
      BY <1>2, <3>1, <3>2
  <2>4. CASE e.run = record.run /\ e.event = "finished"
    <3>1. record' = Finished(record) /\ disk' = Finished(record) /\ rpc = "ended"
      BY <1>6, <2>1, <2>4 DEF TakeEvent, Save
    <3>2. report \in Reports /\ report.functional # "none" /\ report.cleanup # "none"
      BY <3>1 DEF IInv, TypeInv, ThreadShape, RunInv
    <3> QED
      BY <1>1, <1>2, <3>1, <3>2, FinishedFields
  <2> QED
    BY <2>2, <2>3, <2>4
<1>7. CASE Boot
  <2>1. CASE record' = disk /\ disk' = disk
    BY <1>1, <1>2, <2>1
  <2>2. CASE Save([disk EXCEPT !.phase = "terminal", !.functional = "interrupted",
                               !.failure = "interrupted", !.cleanup = "verified"])
    <3>1. record' \in Records /\ record'.known = record.known /\ disk' = record'
      BY <1>1, <2>2 DEF Save, Records
    <3> QED
      BY <1>2, <3>1
  <2>3. CASE Save([disk EXCEPT !.phase = "cleaning", !.cleanup = "failed"])
    <3>1. record' \in Records /\ record'.known = record.known /\ disk' = record'
      BY <1>1, <2>3 DEF Save, Records
    <3> QED
      BY <1>2, <3>1
  <2> QED
    BY <1>7, <2>1, <2>2, <2>3 DEF Boot
<1>8. CASE RunThread
  BY <1>3, <1>8, ThreadMovesOn DEF Onward, Plain, IInv
<1>9. CASE Submit \/ Resubmit \/ EndpointSilent \/ WatchdogFires \/ Close \/ StopLoop \/ Exit \/ Dies \/ UNCHANGED vars
  BY <1>3, <1>9 DEF Submit, Resubmit, EndpointSilent, WatchdogFires, Close, StopLoop, Exit, Dies, Gone, vars
<1> QED
  BY <1>4, <1>5, <1>6, <1>7, <1>8, <1>9 DEF Next, CommandLoop

\* A request to terminate changes nothing else of a control.
LEMMA TermFields ==
  ASSUME ctl \in Controls, ctl' = ctl \/ ctl' = [ctl EXCEPT !.term = "stop"]
  PROVE  /\ ctl' \in Controls /\ ctl'.run = ctl.run /\ ctl'.listed = ctl.listed
         /\ ctl'.cleanup = ctl.cleanup
         /\ ctl'.term # ctl.term => ctl' = [ctl EXCEPT !.term = "stop"]
BY DEF Controls

LEMMA ControlSteps ==
  ASSUME IInv, [Next]_vars
  PROVE  ControlShape'
<1>1. ctl \in Controls
  BY DEF IInv, TypeInv, ControlShape
<1>2. CASE ctl' = ctl
  BY <1>1, <1>2 DEF ControlShape
<1>3. CASE ctl' = NoControl
  BY <1>3, NothingIsShaped DEF ControlShape
<1>4. CASE TakeCommand
  <2> DEFINE c == Head(queue)
  <2>1. CASE Accepts(c) /\ (ApplyStart(c) \/ ApplyCommand(c))
    <3>1. c \in Commands /\ TypeInv
      BY <1>4, HeadIsMessage DEF TakeCommand, IInv, TypeInv
    <3>2. ctl' \in Controls
      BY <2>1, <3>1, StartStep, OrderStep
    <3> QED
      BY <3>2 DEF ControlShape
  <2>2. CASE ctl' = ctl
    BY <1>2, <2>2
  <2> QED
    BY <1>4, <2>1, <2>2 DEF TakeCommand
<1>5. CASE TakeEvent
  BY <1>2, <1>3, <1>5 DEF TakeEvent
<1>6. CASE RunThread
  BY <1>6, ThreadMovesOn DEF Onward, IInv, ControlShape
<1>7. CASE WatchdogFires \/ Close
  <2>1. ctl' = ctl \/ ctl' = [ctl EXCEPT !.term = "stop"]
    BY <1>7 DEF WatchdogFires, Close
  <2> QED
    BY <1>1, <2>1, TermFields DEF ControlShape
<1>8. CASE Exit \/ Dies
  BY <1>3, <1>8 DEF Exit, Dies, Gone
<1>9. CASE Submit \/ Resubmit \/ Remember \/ EndpointSilent \/ StopLoop \/ Boot \/ UNCHANGED vars
  BY <1>2, <1>9 DEF Submit, Resubmit, Remember, EndpointSilent, StopLoop, Boot, vars
<1> QED
  BY <1>4, <1>5, <1>6, <1>7, <1>8, <1>9 DEF Next, CommandLoop

LEMMA ThreadSteps ==
  ASSUME IInv, [Next]_vars
  PROVE  ThreadShape'
<1>1. ThreadShape
  BY DEF IInv, TypeInv
<1> USE <1>1 DEF ThreadShape, threadVars, historyVars
<1>2. CASE Submit
  <2>1. issued' \in 0..MaxCommands
    BY <1>2, ServiceAssumption DEF Submit
  <2> QED
    BY <1>2, <2>1 DEF Submit
<1>3. CASE TakeCommand
  <2> DEFINE c == Head(queue)
  <2>1. c \in Commands
    BY <1>3, HeadIsMessage DEF TakeCommand, IInv, TypeInv
  <2>2. c.id \in Ids /\ c.id \in 0..MaxCommands
    BY <2>1 DEF Commands, Ids
  <2>3. pending' \in 0..MaxCommands
    BY <1>3, <2>2 DEF TakeCommand
  <2>4. applied' = applied \/ applied' = [applied EXCEPT ![c.id] = @ + 1]
    BY <1>3 DEF TakeCommand
  <2>5. applied' \in [Ids -> Nat]
    BY <2>2, <2>4
  <2> QED
    BY <1>3, <2>3, <2>5 DEF TakeCommand
<1>4. CASE Remember
  BY <1>4, ServiceAssumption DEF Remember, Places
<1>5. CASE TakeEvent
  BY <1>5, NothingIsShaped DEF TakeEvent, Places
<1>6. CASE RunThread
  <2>1. Onward
    BY <1>6, ThreadMovesOn DEF IInv
  <2> QED
    BY <2>1 DEF Onward, Plain
<1>7. CASE Exit \/ Dies
  BY <1>7, NothingIsShaped, ServiceAssumption DEF Exit, Dies, Gone, Places
<1>8. CASE Boot
  BY <1>8 DEF Boot
<1>9. CASE Resubmit \/ EndpointSilent \/ WatchdogFires \/ Close \/ StopLoop \/ UNCHANGED vars
  BY <1>9 DEF Resubmit, EndpointSilent, WatchdogFires, Close, StopLoop, vars
<1> QED
  BY <1>2, <1>3, <1>4, <1>5, <1>6, <1>7, <1>8, <1>9 DEF Next, CommandLoop

-----------------------------------------------------------------------------
(* The run, step by step.                                                   *)

\* Nothing of the run changes.
LEMMA SameRun ==
  ASSUME RunInv, UNCHANGED <<record, ctl, rpc, report, watchdog, pending, held>>,
         mode' \in {mode, "closing", "closed"}, mode' # mode => mode # "down"
  PROVE  RunInv'
BY DEF RunInv, Resolved

LEMMA CommandRun ==
  ASSUME TypeInv, RunInv, TakeCommand
  PROVE  RunInv'
<1> DEFINE c == Head(queue)
<1>1. mode # "down" /\ pending = 0 /\ UNCHANGED <<rpc, report, watchdog, mode, held>>
  BY DEF TakeCommand, Busy, threadVars
<1>2. CASE UNCHANGED <<record, ctl, pending>>
  BY <1>1, <1>2, SameRun
<1>3. CASE Accepts(c) /\ (ApplyStart(c) \/ ApplyCommand(c)) /\ pending' = c.id
  <2>1. c \in Commands
    BY HeadIsMessage DEF TakeCommand, TypeInv
  <2>2. pending' # 0
    BY <1>3, <2>1, ServiceAssumption DEF Commands, Ids
  <2>3. CASE ApplyStart(c)
    <3>1. /\ Resolved(record) /\ record' = NewRun(record)
          /\ ctl'.run = record.run + 1 /\ ctl'.listed /\ ctl'.term = "none"
      BY <1>3, <2>1, <2>3, StartStep
    <3>2. record'.run = record.run + 1 /\ record'.phase = "created"
      BY <3>1, NewRunFields DEF TypeInv, RecordShape
    <3>3. record.run \in Nat /\ record'.run # 0
      BY <3>2 DEF TypeInv, RecordShape, Records
    <3>4. ~held /\ rpc = "none" /\ watchdog = "off"
      BY <3>1 DEF RunInv
    <3>5. ~Resolved(record')
      BY <3>2, <3>3 DEF Resolved
    <3> QED
      BY <1>1, <2>2, <3>1, <3>2, <3>3, <3>4, <3>5 DEF RunInv
  <2>4. CASE ApplyCommand(c)
    <3>1. /\ record'.run = record.run /\ record'.phase = record.phase /\ record'.cleanup = record.cleanup
          /\ ctl'.run = ctl.run /\ ctl'.listed = ctl.listed /\ ctl'.cleanup = ctl.cleanup
          /\ ctl'.term = ctl.term \/ (ctl.listed /\ ~ctl.cleanup)
      BY <1>3, <2>1, <2>4, OrderStep
    <3>2. Resolved(record') = Resolved(record)
      BY <3>1 DEF Resolved
    <3> QED
      BY <1>1, <2>2, <3>1, <3>2 DEF RunInv
  <2> QED
    BY <1>3, <2>3, <2>4
<1> QED
  BY <1>2, <1>3 DEF TakeCommand

LEMMA RememberRun ==
  ASSUME TypeInv, RunInv, Remember
  PROVE  RunInv'
<1>1. /\ mode # "down" /\ UNCHANGED <<ctl, report, mode, held>> /\ pending' = 0
      /\ record'.run = record.run /\ record'.phase = record.phase /\ record'.cleanup = record.cleanup
  BY DEF Remember, Save, TypeInv, RecordShape, Records
<1>2. Resolved(record') = Resolved(record)
  BY <1>1 DEF Resolved
<1>3. CASE record.phase = "created" /\ rpc = "none"
  <2>1. rpc' = "establish" /\ watchdog' = "on"
    BY <1>3 DEF Remember
  <2> QED
    BY <1>1, <1>2, <1>3, <2>1 DEF RunInv
<1>4. CASE ~(record.phase = "created" /\ rpc = "none")
  <2>1. rpc' = rpc /\ watchdog' = watchdog
    BY <1>4 DEF Remember
  <2> QED
    BY <1>1, <1>2, <1>4, <2>1 DEF RunInv
<1> QED
  BY <1>3, <1>4

LEMMA EventRun ==
  ASSUME TypeInv, QueueInv, RunInv, TakeEvent
  PROVE  RunInv'
<1> DEFINE e == Head(queue)
<1>1. /\ mode # "down" /\ pending = 0 /\ UNCHANGED <<pending, watchdog, mode, held>> /\ record \in Records
  BY DEF TakeEvent, Busy, TypeInv, RecordShape
<1>2. CASE e.run # record.run
  BY <1>1, <1>2, SameRun DEF TakeEvent
<1>3. CASE e.run = record.run /\ e.event # "finished"
  <2>1. e.event \in Changes /\ rpc # "none"
    <3>1. e \in Events /\ rpc # "none"
      BY <1>3, EventStep
    <3> QED
      BY <3>1 DEF Events
  <2>2. record' = Applied(e.event) /\ UNCHANGED <<ctl, rpc, report>>
    BY <1>3 DEF TakeEvent, Save
  <2>3. /\ record'.run = record.run
        /\ record'.phase \in {record.phase, "preflight", "running", "awaiting_user", "cleaning"}
    BY <1>1, <2>1, <2>2, AppliedFields
  <2>4. ~Resolved(record) /\ ctl.run = record.run /\ ctl.listed
    BY <2>1 DEF RunInv
  <2>5. record.run # 0 /\ record'.phase # "terminal" /\ ~Resolved(record')
    BY <2>3, <2>4 DEF Resolved
  <2> QED
    BY <1>1, <2>1, <2>2, <2>3, <2>4, <2>5 DEF RunInv
<1>4. CASE e.run = record.run /\ e.event = "finished"
  <2>1. rpc = "ended"
    BY <1>4, EventStep
  <2>2. /\ record' = Finished(record) /\ ctl' = NoControl /\ rpc' = "none" /\ report' = NoReport
    BY <1>4 DEF TakeEvent, Save
  <2>3. /\ report \in Reports /\ report.functional # "none" /\ report.cleanup # "none"
        /\ (report.cleanup = "verified" => ~held) /\ watchdog = "off" /\ ~Resolved(record)
    BY <2>1 DEF RunInv, TypeInv, ThreadShape
  <2>4. /\ record'.run = record.run /\ record'.cleanup = report.cleanup
        /\ record'.phase = IF report.cleanup = "verified" THEN "terminal" ELSE "cleaning"
    BY <1>1, <2>2, <2>3, FinishedFields
  <2>5. record.run # 0 /\ (held => ~Resolved(record'))
    BY <2>3, <2>4 DEF Resolved
  <2>6. ~ctl'.listed /\ ctl'.term = "none"
    BY <2>2 DEF NoControl
  <2> QED
    BY <1>1, <2>2, <2>3, <2>4, <2>5, <2>6 DEF RunInv
<1> QED
  BY <1>2, <1>3, <1>4

LEMMA OnwardRun ==
  ASSUME TypeInv, RunInv, Onward
  PROVE  RunInv'
<1>1. /\ UNCHANGED <<record, pending, mode>> /\ mode # "down" /\ rpc # "none" /\ rpc' # "none"
      /\ ctl'.run = ctl.run /\ ctl'.listed = ctl.listed /\ ctl'.term = ctl.term
      /\ Late'
  BY DEF Onward, Plain
<1>2. ctl.run = record.run /\ ctl.listed /\ ~Resolved(record)
  BY <1>1 DEF RunInv
<1>3. ~Resolved(record')
  BY <1>1, <1>2
<1> QED
  BY <1>1, <1>2, <1>3 DEF RunInv, Late

LEMMA TermRun ==
  ASSUME TypeInv, RunInv, WatchdogFires \/ Close
  PROVE  RunInv'
<1>1. /\ ctl' = ctl \/ (ctl' = [ctl EXCEPT !.term = "stop"] /\ ctl.listed)
      /\ watchdog' \in {watchdog, "off"} /\ mode # "down" /\ mode' # "down"
      /\ UNCHANGED <<record, pending, rpc, report, held>>
  BY DEF WatchdogFires, Close, RunInv, threadVars
<1>2. /\ ctl'.run = ctl.run /\ ctl'.listed = ctl.listed /\ ctl'.cleanup = ctl.cleanup
      /\ (~ctl.listed => ctl'.term = ctl.term)
  <2>1. ctl' \in Controls /\ ctl'.run = ctl.run /\ ctl'.listed = ctl.listed /\ ctl'.cleanup = ctl.cleanup
    BY <1>1, TermFields DEF TypeInv, ControlShape
  <2>2. ~ctl.listed => ctl' = ctl
    BY <1>1
  <2> QED
    BY <2>1, <2>2
<1>3. Resolved(record') = Resolved(record)
  BY <1>1
<1> QED
  BY <1>1, <1>2, <1>3 DEF RunInv

LEMMA GoneRun ==
  ASSUME RunInv, Gone
  PROVE  RunInv'
<1>1. /\ mode' = "down" /\ ctl' = NoControl /\ pending' = 0 /\ rpc' = "none" /\ watchdog' = "off"
      /\ record' = record /\ held' = held
  BY DEF Gone
<1>2. ~ctl'.listed /\ ctl'.term = "none"
  BY <1>1 DEF NoControl
<1>3. Resolved(record') = Resolved(record)
  BY <1>1
<1> QED
  BY <1>1, <1>2, <1>3 DEF RunInv

LEMMA BootRun ==
  ASSUME TypeInv, RunInv, Boot
  PROVE  RunInv'
<1>1. /\ mode = "down" /\ mode' = "up" /\ UNCHANGED <<ctl, rpc, report, watchdog, pending>>
      /\ record \in Records /\ disk = record
  BY DEF Boot, threadVars, TypeInv, RecordShape
<1>2. ~ctl.listed /\ rpc = "none"
  BY <1>1 DEF RunInv
<1>3. CASE Resolved(record) /\ record' = record /\ held' = held
  <2>1. record.phase # "created" \/ record.run = 0
    BY <1>3 DEF Resolved
  <2>2. record'.phase # "created"
    BY <1>3, <2>1 DEF RunInv
  <2> QED
    BY <1>1, <1>2, <1>3, <2>2 DEF RunInv
<1>4. CASE /\ ~Resolved(record) /\ held' = FALSE
           /\ Save([disk EXCEPT !.phase = "terminal", !.functional = "interrupted",
                                !.failure = "interrupted", !.cleanup = "verified"])
  <2>1. record'.phase = "terminal" /\ record'.cleanup = "verified" /\ record'.run = record.run
    BY <1>1, <1>4 DEF Save, Records
  <2>2. record.run # 0
    BY <1>4 DEF Resolved
  <2> QED
    BY <1>1, <1>2, <1>4, <2>1, <2>2 DEF RunInv
<1>5. CASE ~Resolved(record) /\ held' = held /\ Save([disk EXCEPT !.phase = "cleaning", !.cleanup = "failed"])
  <2>1. record'.phase = "cleaning" /\ record'.run = record.run
    BY <1>1, <1>5 DEF Save, Records
  <2>2. record.run # 0 /\ ~Resolved(record')
    BY <1>5, <2>1 DEF Resolved
  <2> QED
    BY <1>1, <1>2, <1>5, <2>1, <2>2 DEF RunInv
<1> QED
  BY <1>1, <1>3, <1>4, <1>5 DEF Boot

LEMMA RunSteps ==
  ASSUME IInv, [Next]_vars
  PROVE  RunInv'
<1>1. TypeInv /\ QueueInv /\ RunInv
  BY DEF IInv
<1>2. CASE TakeCommand \/ Remember \/ TakeEvent
  BY <1>1, <1>2, CommandRun, RememberRun, EventRun
<1>3. CASE RunThread
  BY <1>1, <1>3, ThreadMovesOn, OnwardRun
<1>4. CASE WatchdogFires \/ Close
  BY <1>1, <1>4, TermRun
<1>5. CASE Exit \/ Dies
  BY <1>1, <1>5, GoneRun DEF Exit, Dies
<1>6. CASE Boot
  BY <1>1, <1>6, BootRun
<1>7. CASE Submit \/ Resubmit \/ EndpointSilent \/ StopLoop \/ UNCHANGED vars
  <2>1. /\ UNCHANGED <<record, ctl, rpc, report, watchdog, pending, held>>
        /\ mode' \in {mode, "closing", "closed"} /\ (mode' # mode => mode # "down")
    BY <1>7 DEF Submit, Resubmit, EndpointSilent, StopLoop, vars, threadVars
  <2> QED
    BY <1>1, <2>1, SameRun
<1> QED
  BY <1>2, <1>3, <1>4, <1>5, <1>6, <1>7 DEF Next, CommandLoop

-----------------------------------------------------------------------------
(* The service.                                                             *)

LEMMA Beginning == Init => IInv
<1> SUFFICES ASSUME Init PROVE IInv
  OBVIOUS
<1>1. /\ record = NoRecord /\ disk = NoRecord /\ ctl = NoControl /\ queue = <<>> /\ pending = 0
      /\ rpc = "none" /\ report = NoReport /\ watchdog = "off"
      /\ mode = "up" /\ issued = 0 /\ ui = {} /\ held = FALSE /\ applied = [i \in Ids |-> 0]
  BY DEF Init
<1>2. /\ NoRecord.run = 0 /\ NoRecord.phase = "none" /\ NoRecord.known = <<>>
      /\ ~NoControl.listed /\ NoControl.term = "none"
  BY DEF NoRecord, NoControl
<1>3. Len(NoRecord.known) <= MaxKnown /\ 0 \in 0..MaxCommands
  BY <1>2, ServiceAssumption
<1>4. TypeInv
  <2>1. RecordShape /\ ControlShape
    BY <1>1, <1>3, NothingIsShaped DEF RecordShape, ControlShape
  <2>2. QueueShape
    BY <1>1 DEF QueueShape
  <2>3. ThreadShape
    BY <1>1, <1>3, NothingIsShaped DEF ThreadShape, Places
  <2> QED
    BY <2>1, <2>2, <2>3 DEF TypeInv
<1>5. OnceInv
  BY <1>1 DEF OnceInv
<1>6. QueueInv
  BY <1>1 DEF QueueInv
<1>7. RunInv
  BY <1>1, <1>2 DEF RunInv, Resolved
<1> QED
  BY <1>4, <1>5, <1>6, <1>7 DEF IInv

LEMMA Induction == IInv /\ [Next]_vars => IInv'
BY RecordSteps, ControlSteps, ThreadSteps, MessageSteps, RunSteps DEF IInv, TypeInv, MessagesInv

(* The invariant of the service, for any number of commands, repeats, runs and crashes, and any
   length of the queue and of what it remembers: a command that is fresh was not
   applied, no message is of a run to come, and whatever is held is of a run that is not resolved. *)
THEOREM ServiceInvariance == Spec => []IInv
<1>1. Init => IInv
  BY Beginning
<1>2. IInv /\ [Next]_vars => IInv'
  BY Induction
<1> QED
  BY <1>1, <1>2, PTL DEF Spec

(* However often the user interface repeats a command whose answer it did not get, also after a
   crash and after the answer was forgotten, it takes effect at most once:
   CommandsAreConsistent (_idempotent, _remember, _require). *)
THEOREM CommandsConsistent == Spec => []CommandsAreConsistent
<1>1. IInv => CommandsAreConsistent
  <2> SUFFICES ASSUME IInv PROVE CommandsAreConsistent
    OBVIOUS
  <2>1. ServiceTypeOK
    BY DEF IInv, TypeInv, RecordShape, ControlShape, ThreadShape, Records, Controls, ServiceTypeOK
  <2>2. CommandAppliedOnce
    BY DEF IInv, OnceInv, CommandAppliedOnce
  <2> QED
    BY <2>1, <2>2 DEF CommandsAreConsistent
<1> QED
  BY <1>1, ServiceInvariance, PTL

\* Only a start counts the runs up, and no step but it and a recovery changes a failure.
LEMMA RunsChange ==
  ASSUME IInv, [Next]_vars, mode # "down"
  PROVE  /\ record'.run > record.run => ~held
         /\ record'.run = record.run /\ record.failure # "none" => record'.failure = record.failure
<1>1. TypeInv /\ QueueInv /\ RunInv /\ record \in Records /\ record.run \in Nat
  BY DEF IInv, TypeInv, RecordShape, Records
<1>2. CASE record'.run = record.run /\ (record.failure # "none" => record'.failure = record.failure)
  BY <1>1, <1>2
<1>3. CASE TakeCommand
  <2> DEFINE c == Head(queue)
  <2>1. c \in Commands
    BY <1>1, <1>3, HeadIsMessage DEF TakeCommand, TypeInv
  <2>2. CASE Accepts(c) /\ ApplyStart(c)
    <3>1. Resolved(record) /\ record' = NewRun(record)
      BY <1>1, <2>1, <2>2, StartStep
    <3>2. record'.run = record.run + 1 /\ ~held
      BY <1>1, <3>1, NewRunFields DEF RunInv
    <3>3. record'.run # record.run
      BY <1>1, <3>2
    <3> QED
      BY <3>2, <3>3
  <2>3. CASE Accepts(c) /\ ApplyCommand(c)
    BY <1>1, <1>2, <2>1, <2>3, OrderStep
  <2>4. CASE record' = record
    BY <1>2, <2>4
  <2> QED
    BY <1>3, <2>2, <2>3, <2>4 DEF TakeCommand
<1>4. CASE Remember
  <2>1. record'.run = record.run /\ record'.failure = record.failure
    BY <1>1, <1>4 DEF Remember, Save, Records
  <2> QED
    BY <1>2, <2>1
<1>5. CASE TakeEvent
  <2> DEFINE e == Head(queue)
  <2>1. e.event \in Changes /\ (e.run = record.run /\ e.event = "finished" => rpc = "ended")
    <3>1. e \in Events /\ (e.run = record.run /\ e.event = "finished" => rpc = "ended")
      BY <1>1, <1>5, EventStep
    <3> QED
      BY <3>1 DEF Events
  <2>2. CASE e.run # record.run
    BY <1>2, <1>5, <2>2 DEF TakeEvent
  <2>3. CASE e.run = record.run /\ e.event # "finished"
    <3>1. record' = Applied(e.event)
      BY <1>5, <2>3 DEF TakeEvent, Save
    <3> QED
      BY <1>1, <1>2, <2>1, <3>1, AppliedFields
  <2>4. CASE e.run = record.run /\ e.event = "finished"
    <3>1. record' = Finished(record) /\ rpc = "ended"
      BY <1>5, <2>1, <2>4 DEF TakeEvent, Save
    <3>2. report \in Reports /\ report.functional # "none" /\ report.cleanup # "none"
      BY <1>1, <3>1 DEF TypeInv, ThreadShape, RunInv
    <3> QED
      BY <1>1, <1>2, <3>1, <3>2, FinishedFields
  <2> QED
    BY <2>2, <2>3, <2>4
<1>6. CASE RunThread
  BY <1>1, <1>2, <1>6, ThreadMovesOn DEF Onward, Plain
<1>7. CASE Submit \/ Resubmit \/ EndpointSilent \/ WatchdogFires \/ Close \/ StopLoop \/ Exit \/ Dies
           \/ UNCHANGED vars
  BY <1>2, <1>7 DEF Submit, Resubmit, EndpointSilent, WatchdogFires, Close, StopLoop, Exit, Dies, Gone, vars
<1>8. ~Boot
  BY DEF Boot
<1> QED
  BY <1>3, <1>4, <1>5, <1>6, <1>7, <1>8 DEF Next, CommandLoop

(* A run starts only when everything the last one held was verified to be given back, and within a
   run the first failure stays the recorded one, in whatever order the watchdog, the runner
   and the recovery report: RunsAreSeparate (_cmd_start, _cmd_event, _cmd_finished). *)
THEOREM RunsSeparate == Spec => RunsAreSeparate
<1>1. IInv /\ [Next]_vars => [record'.run > record.run /\ mode = "up" => ~held]_vars
  BY RunsChange
<1>2. IInv /\ [Next]_vars =>
        [record.failure # "none" /\ record'.run = record.run /\ mode # "down" =>
            record'.failure = record.failure]_vars
  BY RunsChange
<1> QED
  BY <1>1, <1>2, ServiceInvariance, PTL DEF Spec, RunsAreSeparate, NewRunFindsMachineFree, FirstFailureStays
=============================================================================
