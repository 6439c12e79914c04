------------------------- MODULE CoordinatorProofs -------------------------
(***************************************************************************)
(* What the record files say is final, and a run that took the adapter      *)
(* stays guarded: proved for every number of runs and identity values.      *)
(*                                                                         *)
(* Every command is reduced once to what it may do: answer from memory, or  *)
(* persist a record that grows the one in memory (CommandStep).  The        *)
(* invariants then meet four kinds of step only.                            *)
(***************************************************************************)
EXTENDS Coordinator, TLAPS

\* b keeps what a settled: its run, its bound identities and its outcome.
Grows(a, b) ==
    /\ b.run = a.run
    /\ \A s \in Slots : Bound(a, s) => b.id[s] = a.id[s]
    /\ a.functional # "pending" => b.functional = a.functional

\* Every command but Start and BindOtherRole.
Command ==
    \/ \E phase \in Phases : Transition(phase)
    \/ PassGate
    \/ \E v \in Values :
        \/ BindAuthority(v) \/ AcquireWrapper(v)
        \/ LockAttempt(v) \/ ReserveEndpointLaunch(v)
        \/ \E w \in Values : MarkP0Ready(w, v) \/ AcknowledgeEndpoint(w, v)
    \/ RequestCancel
    \/ \E outcome \in Reported : CloseRun(outcome)
    \/ BeginCleanup \/ RetryCleanup
    \/ \E verified \in BOOLEAN : CompleteCleanup(verified)

\* What a command may do.
CommandStep ==
    /\ HasRun
    /\ \/ Answer
       \/ \E r \in Records : ~Resolved(current) /\ Grows(current, r) /\ Persist(r)

\* Binding one unbound slot, or answering that it is bound.
LEMMA BindOnceGrows ==
    ASSUME TypeOK, HasRun, current.phase = "running",
           NEW slot \in Slots, NEW v \in Values, BindOnce(slot, v)
    PROVE  CommandStep
<1>1. current \in Records
  BY DEF TypeOK, HasRun
<1>2. CASE current.id[slot] = v /\ Answer
  BY <1>2 DEF CommandStep
<1>3. CASE ~Bound(current, slot) /\ Persist([current EXCEPT !.id[slot] = v])
  <2> DEFINE r == [current EXCEPT !.id[slot] = v]
  <2>1. r \in Records
    BY <1>1 DEF Records
  <2>2. Grows(current, r)
    BY <1>1, <1>3 DEF Grows, Bound, Records
  <2>3. ~Resolved(current)
    BY DEF Resolved
  <2> QED
    BY <1>3, <2>1, <2>2, <2>3 DEF CommandStep
<1> QED
  BY <1>2, <1>3 DEF BindOnce

\* Closing a run keeps its first outcome.
LEMMA SetFunctionalKeeps ==
    ASSUME NEW r \in Records, NEW outcome \in Outcomes
    PROVE  /\ SetFunctional(r, outcome) \in Outcomes \cup {"pending"}
           /\ r.functional # "pending" => SetFunctional(r, outcome) = r.functional
           /\ ClosingPhase(r) \in Phases
BY DEF SetFunctional, ClosingPhase, Records, Phases

LEMMA CommandsGrow == TypeOK /\ Command => CommandStep
<1> SUFFICES ASSUME TypeOK, Command PROVE CommandStep
  OBVIOUS
<1>0. HasRun => current \in Records
  BY DEF TypeOK, HasRun
<1>1. ASSUME NEW phase \in Phases, Transition(phase) PROVE CommandStep
  <2>1. CASE Persist([current EXCEPT !.phase = phase]) /\ phase # "terminal"
             /\ phase \in AllowedTransitions[current.phase] \cup {current.phase}
    <3> DEFINE r == [current EXCEPT !.phase = phase]
    <3>1. r \in Records /\ Grows(current, r)
      BY <1>0, <1>1 DEF Transition, Records, Grows, Bound
    <3>2. current.phase # "terminal"
      BY <1>0, <1>1, <2>1 DEF Transition, Records, AllowedTransitions, Phases
    <3> QED
      BY <1>1, <2>1, <3>1, <3>2 DEF CommandStep, Transition, Resolved
  <2> QED
    BY <1>1, <2>1 DEF Transition, CommandStep
<1>2. ASSUME PassGate PROVE CommandStep
  BY <1>0, <1>2 DEF PassGate, CommandStep, Resolved, Grows
<1>3. ASSUME NEW v \in Values, BindAuthority(v) PROVE CommandStep
  <2> DEFINE r == [current EXCEPT !.id["room"] = v, !.id["direction"] = v]
  <2>1. CASE Persist(r)
    <3>1. r \in Records
      BY <1>0, <1>3 DEF BindAuthority, IsRunning, Records, Slots
    <3>2. Grows(current, r)
      BY <1>0, <1>3 DEF BindAuthority, IsRunning, Records, Slots, Grows, Bound
    <3> QED
      BY <1>3, <2>1, <3>1, <3>2 DEF CommandStep, BindAuthority, IsRunning, Resolved
  <2> QED
    BY <1>3, <2>1 DEF BindAuthority, IsRunning, CommandStep
<1>4. ASSUME NEW v \in Values,
             \/ AcquireWrapper(v) \/ LockAttempt(v) \/ ReserveEndpointLaunch(v)
             \/ \E w \in Values : MarkP0Ready(w, v) \/ AcknowledgeEndpoint(w, v)
      PROVE CommandStep
  <2>1. HasRun /\ current.phase = "running" /\ \E slot \in Slots : BindOnce(slot, v)
    BY <1>4 DEF AcquireWrapper, LockAttempt, ReserveEndpointLaunch, MarkP0Ready,
                AcknowledgeEndpoint, IsRunning, Slots
  <2> QED
    BY <2>1, BindOnceGrows
<1>5. ASSUME RequestCancel PROVE CommandStep
  <2> DEFINE r == [current EXCEPT !.canceled = TRUE,
                                  !.functional = SetFunctional(current, "canceled"),
                                  !.phase = ClosingPhase(current)]
  <2>1. CASE current.phase # "terminal" /\ Persist(r)
    <3>1. HasRun /\ current \in Records
      BY <1>0, <1>5 DEF RequestCancel
    <3>2. /\ SetFunctional(current, "canceled") \in Outcomes \cup {"pending"}
          /\ current.functional # "pending" =>
                SetFunctional(current, "canceled") = current.functional
          /\ ClosingPhase(current) \in Phases
      BY <3>1, SetFunctionalKeeps DEF Outcomes
    <3>3. r \in Records /\ Grows(current, r)
      BY <3>1, <3>2 DEF Records, Grows, Bound
    <3> QED
      BY <2>1, <3>1, <3>3 DEF CommandStep, Resolved
  <2> QED
    BY <1>5, <2>1 DEF RequestCancel, CommandStep
<1>6. ASSUME NEW outcome \in Reported, CloseRun(outcome) PROVE CommandStep
  <2> DEFINE r == [current EXCEPT !.functional = SetFunctional(current, outcome),
                                  !.phase = ClosingPhase(current)]
  <2>1. CASE current.phase # "terminal" /\ Persist(r)
    <3>1. HasRun /\ current \in Records
      BY <1>0, <1>6 DEF CloseRun
    <3>2. outcome \in Outcomes
      BY CoordinatorAssumption DEF Outcomes
    <3>3. r \in Records /\ Grows(current, r)
      BY <3>1, <3>2, SetFunctionalKeeps DEF Records, Grows, Bound
    <3> QED
      BY <2>1, <3>1, <3>3 DEF CommandStep, Resolved
  <2> QED
    BY <1>6, <2>1 DEF CloseRun, CommandStep
<1>7. ASSUME BeginCleanup \/ RetryCleanup PROVE CommandStep
  <2>1. HasRun /\ current \in Records
    BY <1>0, <1>7 DEF BeginCleanup, RetryCleanup
  <2>2. ASSUME NEW c \in {"pending", "verified", "failed"}
        PROVE  /\ [current EXCEPT !.phase = "cleaning", !.cleanup = c] \in Records
               /\ Grows(current, [current EXCEPT !.phase = "cleaning", !.cleanup = c])
    BY <2>1 DEF Records, Phases, Grows, Bound
  <2>3. /\ [current EXCEPT !.phase = "cleaning"] \in Records
        /\ Grows(current, [current EXCEPT !.phase = "cleaning"])
    BY <2>1 DEF Records, Phases, Grows, Bound
  <2> QED
    BY <1>7, <2>1, <2>2, <2>3 DEF BeginCleanup, RetryCleanup, CommandStep, Resolved
<1>8. ASSUME NEW verified \in BOOLEAN, CompleteCleanup(verified) PROVE CommandStep
  <2> DEFINE r == [current EXCEPT !.cleanup = IF verified THEN "verified" ELSE "failed",
                                  !.phase = "terminal"]
  <2>1. HasRun /\ current \in Records
    BY <1>0, <1>8 DEF CompleteCleanup
  <2>2. r \in Records /\ Grows(current, r)
    BY <2>1 DEF Records, Phases, Grows, Bound
  <2> QED
    BY <1>8, <2>1, <2>2 DEF CompleteCleanup, CommandStep, Resolved
<1> QED
  BY <1>1, <1>2, <1>3, <1>4, <1>5, <1>6, <1>7, <1>8 DEF Command
-----------------------------------------------------------------------------
(* The record files are final.                                              *)

\* What memory and files have to do with each other: nothing is held by a process
\* that is down, a pending save is of the record just written, the pointer names
\* a record that exists, and the record in memory grows the one on disk.
Consistent ==
    /\ ~up => current = NoRecord /\ ~saving
    /\ saving => current # NoRecord /\ disk[current.run] = current
    /\ \A r \in Runs : disk[r] # NoRecord => disk[r].run = r
    /\ pointer # NoRun => disk[pointer] # NoRecord
    /\ current # NoRecord /\ disk[current.run] # NoRecord =>
          /\ Grows(disk[current.run], current)
          /\ Resolved(disk[current.run]) => current = disk[current.run]

RecordInv == TypeOK /\ Consistent

\* The step of HistoryIsFinal.
KeepsHistory ==
    \A r \in Runs : disk[r] # NoRecord =>
        /\ \A s \in Slots : Bound(disk[r], s) => disk'[r].id[s] = disk[r].id[s]
        /\ disk[r].functional # "pending" => disk'[r].functional = disk[r].functional
        /\ Resolved(disk[r]) => disk'[r] = disk[r]

LEMMA RecordInvInit == Init => RecordInv
<1> SUFFICES ASSUME Init PROVE RecordInv
  OBVIOUS
<1>1. TypeOK
  <2>1. faults \in 0..MaxFaults
    BY CoordinatorAssumption DEF Init
  <2>2. disk \in [Runs -> Records \cup {NoRecord}] /\ acked \in Records \cup {NoRecord}
    BY DEF Init
  <2> QED
    BY <2>1, <2>2, Zenon DEF Init, TypeOK
<1>2. Consistent
  BY DEF Init, Consistent
<1> QED
  BY <1>1, <1>2 DEF RecordInv

LEMMA GrowsTransitive ==
    ASSUME NEW a \in Records, NEW b \in Records, NEW c \in Records, Grows(a, b), Grows(b, c)
    PROVE  Grows(a, c)
BY DEF Grows, Bound, Records

LEMMA GrowsReflexive == ASSUME NEW a \in Records PROVE Grows(a, a)
BY DEF Grows

\* A persisted record that grows the one in memory.
LEMMA PersistKeeps ==
    ASSUME RecordInv, Idle, NEW r \in Records, Persist(r),
           \/ disk[r.run] = NoRecord
           \/ current # NoRecord /\ ~Resolved(current) /\ Grows(current, r)
    PROVE  RecordInv' /\ KeepsHistory
<1> USE NoRecordAssumption, CoordinatorAssumption DEF RecordInv
<1>0. r.run \in Runs /\ r # NoRecord /\ up
  BY DEF Records, Idle
<1>1. disk[r.run] # NoRecord => disk[r.run] \in Records /\ Grows(disk[r.run], r) /\ ~Resolved(disk[r.run])
  <2> SUFFICES ASSUME disk[r.run] # NoRecord
               PROVE  disk[r.run] \in Records /\ Grows(disk[r.run], r) /\ ~Resolved(disk[r.run])
    OBVIOUS
  <2>1. /\ current \in Records /\ current.run = r.run /\ Grows(current, r) /\ ~Resolved(current)
        /\ disk[r.run] \in Records
    BY <1>0 DEF TypeOK, Grows
  <2>2. Grows(disk[r.run], current) /\ ~Resolved(disk[r.run])
    BY <2>1 DEF Consistent
  <2> QED
    BY <2>1, <2>2, GrowsTransitive
<1>2. CASE disk' = [disk EXCEPT ![r.run] = r] /\ saving' = TRUE /\ UNCHANGED faults
  <2>1. TypeOK'
    BY <1>0, <1>2 DEF TypeOK, Persist
  <2>2. disk'[r.run] = r /\ \A q \in Runs : q # r.run => disk'[q] = disk[q]
    BY <1>0, <1>2 DEF TypeOK
  <2>3. Consistent'
    BY <1>0, <1>2, <2>2, GrowsReflexive DEF Consistent, TypeOK, Persist
  <2>4. KeepsHistory
    BY <1>0, <1>1, <2>2 DEF KeepsHistory, Grows
  <2> QED
    BY <2>1, <2>3, <2>4
<1>3. CASE faults < MaxFaults /\ faults' = faults + 1 /\ UNCHANGED <<disk, saving>>
  <2>1. TypeOK'
    BY <1>0, <1>3 DEF TypeOK, Persist
  <2>2. Consistent'
    BY <1>0, <1>1, <1>3 DEF Consistent, TypeOK, Persist, Idle
  <2>3. KeepsHistory
    BY <1>3 DEF KeepsHistory
  <2> QED
    BY <2>1, <2>2, <2>3
<1> QED
  BY <1>2, <1>3 DEF Persist

LEMMA RecordInvStep == RecordInv /\ [Next]_vars => RecordInv' /\ KeepsHistory
<1> SUFFICES ASSUME RecordInv, [Next]_vars PROVE RecordInv' /\ KeepsHistory
  OBVIOUS
<1> USE NoRecordAssumption, CoordinatorAssumption
<1>1. CASE Command
  <2>1. CommandStep
    BY <1>1, CommandsGrow DEF RecordInv
  <2>2. CASE HasRun /\ Answer
    <3>1. current \in Records /\ current.run \in Runs
      BY <2>2 DEF RecordInv, TypeOK, HasRun, Records
    <3> QED
      BY <2>2, <3>1 DEF Answer, Told, RecordInv, TypeOK, Consistent, KeepsHistory
  <2>3. CASE HasRun /\ \E r \in Records : ~Resolved(current) /\ Grows(current, r) /\ Persist(r)
    BY <2>3, PersistKeeps DEF HasRun
  <2> QED
    BY <2>1, <2>2, <2>3 DEF CommandStep
<1>2. ASSUME NEW r \in Runs, NEW mode \in Modes, NEW adapter \in BOOLEAN, Start(r, mode, adapter)
      PROVE RecordInv' /\ KeepsHistory
  <2> DEFINE new == [run |-> r, mode |-> mode, adapter |-> adapter, phase |-> "created",
                     functional |-> "pending", cleanup |-> "pending", canceled |-> FALSE,
                     id |-> [s \in Slots |-> Unbound]]
  <2>1. new \in Records /\ new.run = r
    BY DEF Records, Phases
  <2>2. Idle /\ disk[r] = NoRecord /\ Persist(new)
    BY <1>2 DEF Start
  <2> HIDE DEF new
  <2> QED
    BY <2>1, <2>2, PersistKeeps
<1>3. ASSUME NEW v \in Values, BindOtherRole(v) PROVE RecordInv' /\ KeepsHistory
  <2> DEFINE r == [current EXCEPT !.id["room"] = v]
  <2>1. /\ current \in Records /\ ~Resolved(current) /\ ~saving /\ up
        /\ current' = r /\ UNCHANGED <<up, disk, pointer, saving, acked, faults>>
    BY <1>3 DEF BindOtherRole, IsRunning, HasRun, Idle, RecordInv, TypeOK, Resolved
  <2>2. r \in Records /\ Grows(current, r) /\ r.run = current.run
    BY <1>3, <2>1 DEF BindOtherRole, Records, Grows, Bound, Slots
  <2>3. TypeOK' /\ KeepsHistory
    BY <2>1, <2>2 DEF RecordInv, TypeOK, KeepsHistory
  <2>4. current.run \in Runs
    BY <2>1 DEF Records
  <2>5. disk[current.run] # NoRecord =>
           disk[current.run] \in Records /\ Grows(disk[current.run], r) /\ ~Resolved(disk[current.run])
    <3>1. disk[current.run] # NoRecord =>
             disk[current.run] \in Records /\ Grows(disk[current.run], current) /\ ~Resolved(disk[current.run])
      BY <2>1, <2>4 DEF RecordInv, TypeOK, Consistent
    <3> QED
      BY <3>1, <2>1, <2>2, GrowsTransitive
  <2>6. Consistent'
    BY <2>1, <2>2, <2>5 DEF RecordInv, TypeOK, Consistent
  <2> QED
    BY <2>3, <2>6 DEF RecordInv
<1>4. CASE SavePointer
  <2>1. current \in Records /\ current.run \in Runs
    BY <1>4 DEF SavePointer, RecordInv, TypeOK, Consistent, Records
  <2>2. TypeOK'
    <3>1. faults' \in 0..MaxFaults
      BY <1>4 DEF SavePointer, RecordInv, TypeOK
    <3>2. acked' \in Records \cup {NoRecord}
      BY <1>4, <2>1 DEF SavePointer, Told, RecordInv, TypeOK
    <3>3. pointer' \in Runs \cup {NoRun}
      BY <1>4, <2>1 DEF SavePointer, RecordInv, TypeOK
    <3> QED
      BY <1>4, <3>1, <3>2, <3>3 DEF SavePointer, RecordInv, TypeOK
  <2>3. pointer' \in {pointer, NoRun, current.run} /\ UNCHANGED <<up, current, disk>> /\ saving' = FALSE
    BY <1>4 DEF SavePointer
  <2>4. disk[current.run] # NoRecord
    BY <1>4, <2>1 DEF SavePointer, RecordInv, Consistent
  <2>5. Consistent'
    BY <2>3, <2>4 DEF RecordInv, Consistent
  <2>6. KeepsHistory
    BY <2>3 DEF KeepsHistory
  <2> QED
    BY <2>2, <2>5, <2>6 DEF RecordInv
<1>5. CASE Crash
  BY <1>5 DEF Crash, RecordInv, TypeOK, Consistent, KeepsHistory
<1>6. CASE Recover
  <2>1. CASE pointer = NoRun
    BY <1>6, <2>1 DEF Recover, RecordInv, TypeOK, Consistent, KeepsHistory
  <2>2. CASE pointer # NoRun
    <3> DEFINE r == disk[pointer]
               n == [r EXCEPT !.functional = SetFunctional(r, "interrupted"),
                              !.phase = "cleaning",
                              !.cleanup = "pending"]
    <3>1. pointer \in Runs /\ r \in Records /\ r.run = pointer /\ ~up
      BY <1>6, <2>2 DEF Recover, RecordInv, TypeOK, Consistent
    <3>2. CASE Resolved(r)
      BY <1>6, <2>2, <3>1, <3>2, GrowsReflexive
         DEF Recover, RecordInv, TypeOK, Consistent, KeepsHistory
    <3>3. CASE ~Resolved(r)
      <4>1. /\ SetFunctional(r, "interrupted") \in Outcomes \cup {"pending"}
            /\ r.functional # "pending" => SetFunctional(r, "interrupted") = r.functional
        BY <3>1, SetFunctionalKeeps DEF Outcomes
      <4>2. n \in Records /\ Grows(r, n) /\ n.run = pointer
        BY <3>1, <4>1 DEF Records, Grows, Bound, Phases
      <4>3. /\ up' = TRUE /\ current' = n /\ disk' = [disk EXCEPT ![pointer] = n]
            /\ saving' = TRUE /\ UNCHANGED <<pointer, acked, faults>>
        BY <1>6, <2>2, <3>3 DEF Recover
      <4> HIDE DEF n
      <4>4. TypeOK'
        BY <3>1, <4>2, <4>3 DEF RecordInv, TypeOK
      <4>5. disk'[pointer] = n /\ \A q \in Runs : q # pointer => disk'[q] = disk[q]
        BY <3>1, <4>3 DEF RecordInv, TypeOK
      <4>6. Consistent'
        BY <3>1, <4>2, <4>3, <4>5, GrowsReflexive DEF RecordInv, Consistent
      <4>7. KeepsHistory
        BY <3>1, <3>3, <4>2, <4>5 DEF KeepsHistory, Grows
      <4> QED
        BY <4>4, <4>6, <4>7 DEF RecordInv
    <3> QED
      BY <3>2, <3>3
  <2> QED
    BY <2>1, <2>2
<1>7. CASE UNCHANGED vars
  BY <1>7 DEF vars, RecordInv, TypeOK, Consistent, KeepsHistory
<1> QED
  BY <1>1, <1>2, <1>3, <1>4, <1>5, <1>6, <1>7 DEF Next, Command

\* The coordinator's state keeps its types, and the pointer, the files and the
\* memory agree as Consistent says, through every crash and failing write.
THEOREM RecordsConsistent == Spec => []RecordInv
<1>1. RecordInv /\ [Next]_vars => RecordInv'
  BY RecordInvStep
<1> QED
  BY <1>1, RecordInvInit, PTL DEF Spec

\* Identities and outcomes on disk never change and a verified run is never
\* reopened, through every crash, recovery and failing write.
THEOREM HistoryFinal == Spec => HistoryIsFinal
<1>1. RecordInv /\ [Next]_vars => RecordInv' /\ [KeepsHistory]_vars
  BY RecordInvStep
<1> QED
  BY <1>1, RecordInvInit, PTL DEF Spec, HistoryIsFinal, KeepsHistory
-----------------------------------------------------------------------------
(* The adapter has one owner, however the process dies (no write fails).    *)

\* While a process is up, the pointer names the run in memory exactly when that run
\* is not resolved; only a record without a wrapper is ever written before it.
Guarded ==
    /\ UnresolvedIsGuarded
    /\ current # NoRecord => disk[current.run] # NoRecord
    /\ current # NoRecord /\ ~saving => pointer = IF Resolved(current) THEN NoRun ELSE current.run
    /\ saving => pointer = current.run \/ (pointer = NoRun /\ ~Bound(current, "wrapper"))

\* The step of OneOwner.
StartsAlone ==
    \A r \in Runs : disk[r] = NoRecord /\ disk'[r] # NoRecord =>
        \A q \in Runs : disk[q] # NoRecord /\ Bound(disk[q], "wrapper") => Resolved(disk[q])

LEMMA GuardedInit == Init => Guarded
BY DEF Init, Guarded, UnresolvedIsGuarded

LEMMA GuardedStep ==
    ASSUME MaxFaults = 0, RecordInv, RecordInv', Guarded, [Next]_vars
    PROVE  Guarded' /\ StartsAlone
<1> USE NoRecordAssumption, CoordinatorAssumption
<1>0. ~(faults < MaxFaults)
  BY DEF RecordInv, TypeOK
<1>1. CASE Command
  <2>1. CommandStep
    BY <1>1, CommandsGrow DEF RecordInv
  <2>2. CASE HasRun /\ Answer
    BY <2>2 DEF Answer, Guarded, UnresolvedIsGuarded, StartsAlone
  <2>3. ASSUME HasRun, NEW r \in Records, ~Resolved(current), Grows(current, r), Persist(r)
        PROVE  Guarded' /\ StartsAlone
    <3>1. /\ current # NoRecord /\ ~saving /\ r.run = current.run /\ r.run \in Runs
          /\ pointer = r.run /\ disk[r.run] # NoRecord /\ r # NoRecord
      BY <2>3 DEF HasRun, Idle, Grows, Guarded, Records
    <3>2. /\ current' = r /\ disk' = [disk EXCEPT ![r.run] = r] /\ saving' = TRUE
          /\ UNCHANGED pointer
      BY <1>0, <2>3 DEF Persist
    <3>3. disk'[r.run] = r /\ \A q \in Runs : q # r.run => disk'[q] = disk[q]
      BY <3>1, <3>2 DEF RecordInv, TypeOK
    <3>4. UnresolvedIsGuarded'
      BY <3>1, <3>2, <3>3 DEF Guarded, UnresolvedIsGuarded
    <3>5. StartsAlone
      BY <3>1, <3>3 DEF StartsAlone
    <3> QED
      BY <3>1, <3>2, <3>3, <3>4, <3>5 DEF Guarded
  <2> QED
    BY <2>1, <2>2, <2>3 DEF CommandStep
<1>2. ASSUME NEW r \in Runs, NEW mode \in Modes, NEW adapter \in BOOLEAN, Start(r, mode, adapter)
      PROVE Guarded' /\ StartsAlone
  <2> DEFINE new == [run |-> r, mode |-> mode, adapter |-> adapter, phase |-> "created",
                     functional |-> "pending", cleanup |-> "pending", canceled |-> FALSE,
                     id |-> [s \in Slots |-> Unbound]]
  <2>1. new \in Records /\ new.run = r /\ ~Bound(new, "wrapper") /\ new # NoRecord
    <3>1. new \in Records /\ new.run = r
      BY DEF Records, Phases
    <3>2. ~Bound(new, "wrapper")
      BY DEF Bound, Slots
    <3> QED
      BY <3>1, <3>2
  <2>2. pointer = NoRun /\ ~saving
    BY <1>2 DEF Start, HasCleanupGuard, Idle
  <2>3. /\ current' = new /\ disk' = [disk EXCEPT ![new.run] = new] /\ saving' = TRUE
        /\ UNCHANGED pointer
    BY <1>0, <1>2 DEF Start, Persist
  <2> HIDE DEF new
  <2>4. disk'[r] = new /\ \A q \in Runs : q # r => disk'[q] = disk[q]
    BY <2>1, <2>3 DEF RecordInv, TypeOK
  <2>5. \A q \in Runs : disk[q] # NoRecord /\ Bound(disk[q], "wrapper") => Resolved(disk[q])
    BY <2>2 DEF Guarded, UnresolvedIsGuarded
  <2>6. UnresolvedIsGuarded'
    BY <2>1, <2>4, <2>5 DEF UnresolvedIsGuarded
  <2> QED
    BY <2>1, <2>2, <2>3, <2>4, <2>5, <2>6 DEF Guarded, StartsAlone
<1>3. ASSUME NEW v \in Values, BindOtherRole(v) PROVE Guarded' /\ StartsAlone
  <2> DEFINE n == [current EXCEPT !.id["room"] = v]
  <2>1. /\ current \in Records /\ ~Resolved(current) /\ ~saving /\ current # NoRecord
        /\ current' = n /\ UNCHANGED <<disk, pointer, saving>>
    BY <1>3 DEF BindOtherRole, IsRunning, HasRun, Idle, RecordInv, TypeOK, Resolved
  <2>2. n.run = current.run /\ ~Resolved(n) /\ n # NoRecord
    <3>1. n \in Records /\ n.run = current.run /\ n.phase = "running"
      BY <1>3, <2>1 DEF BindOtherRole, IsRunning, Records, Slots
    <3> QED
      BY <3>1 DEF Resolved
  <2> HIDE DEF n
  <2>3. pointer = current.run /\ disk[current.run] # NoRecord
    BY <2>1 DEF Guarded
  <2>4. UnresolvedIsGuarded' /\ StartsAlone
    BY <2>1 DEF Guarded, UnresolvedIsGuarded, StartsAlone
  <2> QED
    BY <2>1, <2>2, <2>3, <2>4 DEF Guarded
<1>4. CASE SavePointer
  <2>1. /\ current \in Records /\ current.run \in Runs /\ current # NoRecord
        /\ disk[current.run] = current /\ saving
    BY <1>4 DEF SavePointer, RecordInv, TypeOK, Consistent, Records
  <2>2. /\ pointer' = IF Resolved(current) THEN NoRun ELSE current.run
        /\ saving' = FALSE /\ UNCHANGED <<current, disk>>
    BY <1>0, <1>4 DEF SavePointer
  <2>3. \A q \in Runs : q # current.run /\ disk[q] # NoRecord /\ Bound(disk[q], "wrapper") => Resolved(disk[q])
    BY <2>1 DEF Guarded, UnresolvedIsGuarded
  <2> QED
    BY <2>1, <2>2, <2>3 DEF Guarded, UnresolvedIsGuarded, StartsAlone
<1>5. CASE Crash
  BY <1>5 DEF Crash, Guarded, UnresolvedIsGuarded, StartsAlone
<1>6. CASE Recover
  <2>0. current = NoRecord /\ ~saving
    BY <1>6 DEF Recover, RecordInv, Consistent
  <2>1. CASE pointer = NoRun
    BY <1>6, <2>0, <2>1 DEF Recover, Guarded, UnresolvedIsGuarded, StartsAlone
  <2>2. CASE pointer # NoRun
    <3>1. pointer \in Runs /\ disk[pointer] \in Records /\ disk[pointer].run = pointer
          /\ disk[pointer] # NoRecord
      BY <2>2 DEF RecordInv, TypeOK, Consistent
    <3>2. CASE Resolved(disk[pointer])
      BY <1>6, <2>2, <3>1, <3>2, <2>0
         DEF Recover, Guarded, UnresolvedIsGuarded, StartsAlone
    <3>3. CASE ~Resolved(disk[pointer])
      <4>1. /\ current' = disk'[pointer] /\ saving' = TRUE /\ UNCHANGED pointer
            /\ \A q \in Runs : q # pointer => disk'[q] = disk[q]
        BY <1>6, <2>2, <3>1, <3>3 DEF Recover, RecordInv, TypeOK
      <4>2. current'.run = pointer /\ current' # NoRecord
        BY <1>6, <2>2, <3>1, <3>3, <4>1 DEF Recover, RecordInv, TypeOK, Consistent
      <4> QED
        BY <3>1, <4>1, <4>2 DEF Guarded, UnresolvedIsGuarded, StartsAlone
    <3> QED
      BY <3>2, <3>3
  <2> QED
    BY <2>1, <2>2
<1>7. CASE UNCHANGED vars
  BY <1>7 DEF vars, Guarded, UnresolvedIsGuarded, StartsAlone
<1> QED
  BY <1>1, <1>2, <1>3, <1>4, <1>5, <1>6, <1>7 DEF Next, Command

\* When no file operation fails, a run that took the wrapper stays named by the
\* pointer until its cleanup is verified, wherever the process dies.
THEOREM GuardKept == ASSUME MaxFaults = 0 PROVE Spec => []UnresolvedIsGuarded
<1>1. Init => RecordInv /\ Guarded
  BY RecordInvInit, GuardedInit
<1>2. RecordInv /\ Guarded /\ [Next]_vars => (RecordInv /\ Guarded)'
  BY RecordInvStep, GuardedStep
<1>3. Guarded => UnresolvedIsGuarded
  BY DEF Guarded
<1> QED
  BY <1>1, <1>2, <1>3, PTL DEF Spec

\* ... and a run is started only when every run that took the wrapper is resolved.
THEOREM AdapterHasOneOwner == ASSUME MaxFaults = 0 PROVE Spec => OneOwner
<1>1. Init => RecordInv /\ Guarded
  BY RecordInvInit, GuardedInit
<1>2. RecordInv /\ Guarded /\ [Next]_vars => (RecordInv /\ Guarded)' /\ [StartsAlone]_vars
  BY RecordInvStep, GuardedStep
<1> QED
  BY <1>1, <1>2, PTL DEF Spec, OneOwner, StartsAlone
-----------------------------------------------------------------------------
(* An endpoint on record was launched with everything it needs.             *)

\* The order the commands bind the slots in, for one record.
LaunchChain(r) ==
    /\ Bound(r, "endpoint") => Bound(r, "nonce")
    /\ Bound(r, "nonce") => Bound(r, "phy") /\ (r.mode \notin DirectModes => Bound(r, "attempt"))
    /\ Bound(r, "phy") => Bound(r, "wrapper")
    /\ Bound(r, "attempt") => Bound(r, "room")

Chained ==
    /\ current # NoRecord => LaunchChain(current)
    /\ \A r \in Runs : disk[r] # NoRecord => LaunchChain(disk[r])

\* A record whose mode and slots are those of another one inherits its order.
LEMMA SameSlots ==
    ASSUME NEW a \in Records, NEW b \in Records, LaunchChain(a), b.mode = a.mode, b.id = a.id
    PROVE  LaunchChain(b)
BY DEF LaunchChain, Bound

LEMMA PersistChained ==
    ASSUME TypeOK, Chained, NEW r \in Records, LaunchChain(r), Persist(r)
    PROVE  Chained'
<1>1. r.run \in Runs
  BY DEF Records
<1>2. disk' = disk \/ disk' = [disk EXCEPT ![r.run] = r]
  BY DEF Persist
<1> QED
  BY <1>1, <1>2 DEF Persist, Chained, TypeOK

LEMMA BindChained ==
    ASSUME TypeOK, Chained, HasRun, NEW slot \in Slots, NEW v \in Values, BindOnce(slot, v),
           slot = "endpoint" => Bound(current, "nonce"),
           slot = "nonce" => /\ Bound(current, "phy")
                             /\ current.mode \notin DirectModes => Bound(current, "attempt"),
           slot = "phy" => Bound(current, "wrapper"),
           slot = "attempt" => Bound(current, "room")
    PROVE  Chained'
<1>1. current \in Records /\ LaunchChain(current)
  BY DEF TypeOK, HasRun, Chained
<1>2. CASE Answer
  BY <1>2 DEF Answer, Chained
<1>3. CASE Persist([current EXCEPT !.id[slot] = v])
  <2> DEFINE r == [current EXCEPT !.id[slot] = v]
  <2>1. r \in Records /\ r.mode = current.mode
    BY <1>1 DEF Records
  <2>2. \A s \in Slots : Bound(r, s) <=> s = slot \/ Bound(current, s)
    BY <1>1, CoordinatorAssumption DEF Records, Bound
  <2>3. LaunchChain(r)
    <3> HIDE DEF r
    <3> QED
      BY <1>1, <2>1, <2>2 DEF LaunchChain, Slots
  <2> QED
    BY <1>3, <2>1, <2>3, PersistChained
<1> QED
  BY <1>2, <1>3 DEF BindOnce

LEMMA CommandChained == ASSUME TypeOK, Chained, Command PROVE Chained'
<1>0. HasRun => current \in Records /\ LaunchChain(current)
  BY DEF TypeOK, HasRun, Chained
<1>a. Answer => Chained'
  BY DEF Answer, Chained
<1>b. ASSUME HasRun, NEW r, r \in Records, r.mode = current.mode, r.id = current.id, Persist(r)
      PROVE  Chained'
  BY <1>0, <1>b, SameSlots, PersistChained
<1>1. ASSUME NEW phase \in Phases, Transition(phase) PROVE Chained'
  <2>1. HasRun /\ current \in Records
    BY <1>0, <1>1 DEF Transition
  <2>2. /\ [current EXCEPT !.phase = phase] \in Records
        /\ [current EXCEPT !.phase = phase].mode = current.mode
        /\ [current EXCEPT !.phase = phase].id = current.id
    BY <2>1 DEF Records
  <2> QED
    BY <1>1, <1>a, <1>b, <2>1, <2>2 DEF Transition
<1>2. ASSUME PassGate PROVE Chained'
  BY <1>0, <1>2, <1>a, <1>b DEF PassGate
<1>3. ASSUME NEW v \in Values, BindAuthority(v) PROVE Chained'
  <2> DEFINE r == [current EXCEPT !.id["room"] = v, !.id["direction"] = v]
  <2>1. current \in Records /\ LaunchChain(current)
    BY <1>0, <1>3 DEF BindAuthority, IsRunning
  <2>2. r \in Records /\ r.mode = current.mode
    BY <2>1 DEF Records, Slots
  <2>3. \A s \in Slots : Bound(r, s) <=> s \in {"room", "direction"} \/ Bound(current, s)
    BY <2>1, CoordinatorAssumption DEF Records, Bound, Slots
  <2>4. LaunchChain(r)
    <3> HIDE DEF r
    <3> QED
      BY <2>1, <2>2, <2>3 DEF LaunchChain, Slots
  <2> QED
    BY <1>3, <1>a, <2>2, <2>4, PersistChained DEF BindAuthority
<1>4. ASSUME NEW v \in Values, AcquireWrapper(v) PROVE Chained'
  BY <1>4, BindChained DEF AcquireWrapper, IsRunning, Slots
<1>5. ASSUME NEW v \in Values, LockAttempt(v) PROVE Chained'
  BY <1>5, BindChained DEF LockAttempt, IsRunning, Slots
<1>6. ASSUME NEW v \in Values, ReserveEndpointLaunch(v) PROVE Chained'
  BY <1>6, BindChained DEF ReserveEndpointLaunch, IsRunning, Slots
<1>7. ASSUME NEW v \in Values, NEW w \in Values, MarkP0Ready(w, v) PROVE Chained'
  BY <1>7, BindChained DEF MarkP0Ready, IsRunning, Slots
<1>8. ASSUME NEW v \in Values, NEW w \in Values, AcknowledgeEndpoint(w, v) PROVE Chained'
  BY <1>8, BindChained DEF AcknowledgeEndpoint, IsRunning, Slots
<1>9. CASE RequestCancel
  <2>1. HasRun /\ current \in Records
    BY <1>0, <1>9 DEF RequestCancel
  <2> DEFINE r == [current EXCEPT !.canceled = TRUE,
                                  !.functional = SetFunctional(current, "canceled"),
                                  !.phase = ClosingPhase(current)]
  <2>2. r \in Records /\ r.mode = current.mode /\ r.id = current.id
    <3>1. /\ SetFunctional(current, "canceled") \in Outcomes \cup {"pending"}
          /\ ClosingPhase(current) \in Phases
      BY <2>1, SetFunctionalKeeps DEF Outcomes
    <3> QED
      BY <2>1, <3>1 DEF Records
  <2> QED
    BY <1>9, <1>a, <1>b, <2>1, <2>2 DEF RequestCancel
<1>10. ASSUME NEW outcome \in Reported, CloseRun(outcome) PROVE Chained'
  <2>1. HasRun /\ current \in Records
    BY <1>0, <1>10 DEF CloseRun
  <2> DEFINE r == [current EXCEPT !.functional = SetFunctional(current, outcome),
                                  !.phase = ClosingPhase(current)]
  <2>2. r \in Records /\ r.mode = current.mode /\ r.id = current.id
    <3>1. outcome \in Outcomes
      BY CoordinatorAssumption DEF Outcomes
    <3>2. /\ SetFunctional(current, outcome) \in Outcomes \cup {"pending"}
          /\ ClosingPhase(current) \in Phases
      BY <2>1, <3>1, SetFunctionalKeeps
    <3> QED
      BY <2>1, <3>2 DEF Records
  <2> QED
    BY <1>10, <1>a, <1>b, <2>1, <2>2 DEF CloseRun
<1>11. CASE BeginCleanup \/ RetryCleanup
  <2>1. HasRun /\ current \in Records
    BY <1>0, <1>11 DEF BeginCleanup, RetryCleanup
  <2> DEFINE r == [current EXCEPT !.phase = "cleaning"]
             q == [current EXCEPT !.phase = "cleaning", !.cleanup = "pending"]
  <2>2. /\ r \in Records /\ r.mode = current.mode /\ r.id = current.id
        /\ q \in Records /\ q.mode = current.mode /\ q.id = current.id
    BY <2>1 DEF Records, Phases
  <2> QED
    BY <1>11, <1>a, <1>b, <2>1, <2>2 DEF BeginCleanup, RetryCleanup
<1>12. ASSUME NEW verified \in BOOLEAN, CompleteCleanup(verified) PROVE Chained'
  <2>1. HasRun /\ current \in Records
    BY <1>0, <1>12 DEF CompleteCleanup
  <2> DEFINE r == [current EXCEPT !.cleanup = IF verified THEN "verified" ELSE "failed",
                                  !.phase = "terminal"]
  <2>2. r \in Records /\ r.mode = current.mode /\ r.id = current.id
    BY <2>1 DEF Records, Phases
  <2> QED
    BY <1>12, <1>a, <1>b, <2>1, <2>2 DEF CompleteCleanup
<1> QED
  BY <1>1, <1>2, <1>3, <1>4, <1>5, <1>6, <1>7, <1>8, <1>9, <1>10, <1>11, <1>12 DEF Command

LEMMA ChainedStep == ASSUME RecordInv, Chained, [Next]_vars PROVE Chained'
<1> USE NoRecordAssumption, CoordinatorAssumption
<1>1. CASE Command
  BY <1>1, CommandChained DEF RecordInv
<1>2. ASSUME NEW r \in Runs, NEW mode \in Modes, NEW adapter \in BOOLEAN, Start(r, mode, adapter)
      PROVE  Chained'
  <2> DEFINE new == [run |-> r, mode |-> mode, adapter |-> adapter, phase |-> "created",
                     functional |-> "pending", cleanup |-> "pending", canceled |-> FALSE,
                     id |-> [s \in Slots |-> Unbound]]
  <2>1. new \in Records
    BY DEF Records, Phases
  <2>2. LaunchChain(new)
    BY DEF LaunchChain, Bound, Slots
  <2>3. Persist(new)
    BY <1>2 DEF Start
  <2> HIDE DEF new
  <2> QED
    BY <2>1, <2>2, <2>3, PersistChained DEF RecordInv
<1>3. ASSUME NEW v \in Values, BindOtherRole(v) PROVE Chained'
  <2> DEFINE n == [current EXCEPT !.id["room"] = v]
  <2>1. current \in Records /\ LaunchChain(current) /\ current' = n /\ UNCHANGED disk
    BY <1>3 DEF BindOtherRole, IsRunning, HasRun, RecordInv, TypeOK, Chained
  <2>2. n.mode = current.mode /\ \A s \in Slots : Bound(n, s) <=> s = "room" \/ Bound(current, s)
    BY <2>1 DEF Records, Bound, Slots
  <2>3. LaunchChain(n)
    <3> HIDE DEF n
    <3> QED
      BY <2>1, <2>2 DEF LaunchChain, Slots
  <2> QED
    BY <2>1, <2>3 DEF Chained
<1>4. CASE SavePointer \/ Crash \/ UNCHANGED vars
  BY <1>4 DEF SavePointer, Crash, vars, Chained
<1>5. CASE Recover
  <2>1. CASE pointer = NoRun
    BY <1>5, <2>1 DEF Recover, Chained
  <2>2. CASE pointer # NoRun
    <3> DEFINE n == [disk[pointer] EXCEPT !.functional = SetFunctional(disk[pointer], "interrupted"),
                                          !.phase = "cleaning", !.cleanup = "pending"]
    <3>1. pointer \in Runs /\ disk[pointer] \in Records /\ LaunchChain(disk[pointer])
      BY <2>2 DEF RecordInv, TypeOK, Consistent, Chained
    <3>2. n.mode = disk[pointer].mode /\ n.id = disk[pointer].id
      BY <3>1 DEF Records
    <3>3. LaunchChain(n)
      BY <3>1, <3>2 DEF LaunchChain, Bound
    <3>4. \/ current' = disk[pointer] /\ UNCHANGED disk
          \/ current' = n /\ disk' = [disk EXCEPT ![pointer] = n]
      BY <1>5, <2>2 DEF Recover
    <3> HIDE DEF n
    <3> QED
      BY <3>1, <3>3, <3>4 DEF Chained, RecordInv, TypeOK
  <2> QED
    BY <2>1, <2>2
<1> QED
  BY <1>1, <1>2, <1>3, <1>4, <1>5 DEF Next, Command

\* An endpoint is on record only with the launch nonce, radio and wrapper it was
\* launched for, and outside the direct modes with its room and attempt, through
\* crashes, recoveries and any number of failing writes.
THEOREM LaunchAuthorised == Spec => []LaunchIsAuthorised
<1>1. Init => Chained
  BY DEF Init, Chained
<1>2. Chained => LaunchIsAuthorised
  BY DEF Chained, LaunchChain, LaunchIsAuthorised
<1>3. Init => RecordInv
  BY RecordInvInit
<1>4. RecordInv /\ Chained /\ [Next]_vars => (RecordInv /\ Chained)'
  BY RecordInvStep, ChainedStep
<1> QED
  BY <1>1, <1>2, <1>3, <1>4, PTL DEF Spec
-----------------------------------------------------------------------------
(* What a caller was told is on disk.                                       *)

\* Record d on disk confirms everything record a says, the room apart.
Confirms(a, d) ==
    /\ d # NoRecord
    /\ \A s \in Slots \ {"room"} : Bound(a, s) => d.id[s] = a.id[s]
    /\ a.functional # "pending" => d.functional = a.functional
    /\ Resolved(a) => Resolved(d)

\* As long as no file operation failed, the record in memory is confirmed, and the
\* pointer names it exactly while it is unresolved; nobody is followed afterwards.
InSync ==
    faults = 0 /\ current # NoRecord =>
        /\ Confirms(current, disk[current.run])
        /\ ~saving => pointer = IF Resolved(current) THEN NoRun ELSE current.run

AckInv ==
    /\ InSync
    /\ acked # NoRecord =>
          /\ faults = 0
          /\ Confirms(acked, disk[acked.run])
          /\ Resolved(acked) => pointer # acked.run

\* A confirmed record stays confirmed: the files are final.
LEMMA StaysConfirmed ==
    ASSUME RecordInv, KeepsHistory, NEW a \in Records, Confirms(a, disk[a.run]),
           disk'[a.run] # NoRecord
    PROVE  Confirms(a, disk'[a.run])
<1>1. a.run \in Runs
  BY DEF Records
<1>2. \A s \in Slots : Bound(disk[a.run], s) => disk'[a.run].id[s] = disk[a.run].id[s]
  BY <1>1 DEF KeepsHistory, Confirms
<1>3. \A s \in Slots \ {"room"} : Bound(a, s) => Bound(disk[a.run], s)
  BY DEF Confirms, Bound
<1>4. /\ disk[a.run].functional # "pending" => disk'[a.run].functional = disk[a.run].functional
      /\ Resolved(disk[a.run]) => disk'[a.run] = disk[a.run]
  BY <1>1 DEF KeepsHistory, Confirms
<1> QED
  BY <1>2, <1>3, <1>4 DEF Confirms

LEMMA ConfirmsItself == ASSUME NEW r \in Records PROVE Confirms(r, r)
BY NoRecordAssumption DEF Confirms

\* A record file is never removed.
LEMMA DiskStays ==
    ASSUME RecordInv, [Next]_vars, NEW q \in Runs, disk[q] # NoRecord
    PROVE  disk'[q] # NoRecord
<1> USE NoRecordAssumption
<1>1. ASSUME NEW r \in Records, disk' = [disk EXCEPT ![r.run] = r] PROVE disk'[q] # NoRecord
  BY <1>1 DEF RecordInv, TypeOK
<1>2. disk' = disk => disk'[q] # NoRecord
  OBVIOUS
<1>3. ASSUME NEW r \in Records, Persist(r) PROVE disk'[q] # NoRecord
  BY <1>1, <1>2, <1>3 DEF Persist
<1>4. CASE Command
  <2>1. CommandStep
    BY <1>4, CommandsGrow DEF RecordInv
  <2> QED
    BY <1>2, <1>3, <2>1 DEF CommandStep, Answer
<1>5. CASE \E r \in Runs, mode \in Modes, adapter \in BOOLEAN : Start(r, mode, adapter)
  <2>1. \E new \in Records : Persist(new)
    BY <1>5 DEF Start, Records, Phases
  <2> QED
    BY <1>3, <2>1
<1>6. CASE (\E v \in Values : BindOtherRole(v)) \/ SavePointer \/ Crash \/ UNCHANGED vars
  BY <1>2, <1>6 DEF BindOtherRole, SavePointer, Crash, vars
<1>7. CASE Recover
  <2>1. CASE disk' = [disk EXCEPT ![pointer] = current'] /\ pointer # NoRun /\ saving'
    <3>1. current' # NoRecord
      BY <2>1, RecordInvStep DEF RecordInv, Consistent
    <3> QED
      BY <2>1, <3>1 DEF RecordInv, TypeOK
  <2> QED
    BY <1>2, <1>7, <2>1 DEF Recover
<1> QED
  BY <1>4, <1>5, <1>6, <1>7 DEF Next, Command

\* Persisting a record keeps memory and file in step, unless the write fails.
LEMMA PersistInSync ==
    ASSUME RecordInv, NEW r \in Records, Persist(r)
    PROVE  InSync' /\ UNCHANGED pointer
           /\ ((acked' = acked /\ faults' = faults) \/ acked' = NoRecord)
<1>1. r.run \in Runs
  BY DEF Records
<1>2. CASE disk' = [disk EXCEPT ![r.run] = r] /\ saving' = TRUE /\ UNCHANGED <<acked, faults>>
  <2>1. current' = r /\ disk'[r.run] = r
    BY <1>1, <1>2 DEF Persist, RecordInv, TypeOK
  <2> QED
    BY <1>2, <2>1, ConfirmsItself DEF InSync, Persist
<1>3. CASE faults' = faults + 1 /\ acked' = NoRecord
  <2>1. faults' # 0
    BY <1>3, CoordinatorAssumption DEF RecordInv, TypeOK
  <2> QED
    BY <1>3, <2>1 DEF InSync, Persist
<1> QED
  BY <1>2, <1>3 DEF Persist

LEMMA InSyncStep ==
    ASSUME RecordInv, InSync, [Next]_vars
    PROVE  InSync'
<1> USE NoRecordAssumption, CoordinatorAssumption
<1>1. CASE Command
  <2>1. CommandStep
    BY <1>1, CommandsGrow DEF RecordInv
  <2>2. CASE Answer
    BY <2>2 DEF Answer, InSync
  <2>3. CASE \E r \in Records : Persist(r)
    BY <2>3, PersistInSync
  <2> QED
    BY <2>1, <2>2, <2>3 DEF CommandStep
<1>2. ASSUME NEW r \in Runs, NEW mode \in Modes, NEW adapter \in BOOLEAN, Start(r, mode, adapter)
      PROVE  InSync'
  <2>1. \E new \in Records : Persist(new)
    BY <1>2 DEF Start, Records, Phases
  <2> QED
    BY <2>1, PersistInSync
<1>3. ASSUME NEW v \in Values, BindOtherRole(v) PROVE InSync'
  <2> DEFINE n == [current EXCEPT !.id["room"] = v]
  <2>1. /\ current \in Records /\ current # NoRecord /\ ~Resolved(current) /\ ~saving
        /\ current' = n /\ UNCHANGED <<disk, pointer, saving, faults>>
    BY <1>3 DEF BindOtherRole, IsRunning, HasRun, Idle, RecordInv, TypeOK, Resolved
  <2>2. /\ n.run = current.run /\ n.functional = current.functional /\ ~Resolved(n)
        /\ \A s \in Slots \ {"room"} : n.id[s] = current.id[s]
    BY <2>1 DEF Records, Slots, Resolved
  <2> HIDE DEF n
  <2> QED
    BY <2>1, <2>2 DEF InSync, Confirms, Bound
<1>4. CASE SavePointer
  <2>1. CASE pointer' = (IF Resolved(current) THEN NoRun ELSE current.run) /\ UNCHANGED faults
    BY <1>4, <2>1 DEF SavePointer, InSync
  <2>2. CASE faults' = faults + 1
    BY <1>4, <2>2 DEF InSync, RecordInv, TypeOK
  <2> QED
    BY <1>4, <2>1, <2>2 DEF SavePointer
<1>5. CASE Crash
  BY <1>5 DEF Crash, InSync
<1>6. CASE Recover
  <2>1. CASE pointer = NoRun
    BY <1>6, <2>1 DEF Recover, InSync, RecordInv, Consistent
  <2>2. CASE pointer # NoRun /\ Resolved(disk[pointer])
    <3>1. disk[pointer] \in Records /\ disk[pointer].run = pointer
      BY <2>2 DEF RecordInv, TypeOK, Consistent
    <3>2. current' = disk[pointer] /\ pointer' = NoRun /\ UNCHANGED disk
      BY <1>6, <2>2 DEF Recover
    <3> QED
      BY <2>2, <3>1, <3>2, ConfirmsItself DEF InSync
  <2>3. CASE pointer # NoRun /\ ~Resolved(disk[pointer])
    <3>1. pointer \in Runs /\ disk[pointer] \in Records /\ disk[pointer].run = pointer
      BY <2>3 DEF RecordInv, TypeOK, Consistent
    <3>2. disk'[pointer] = current' /\ saving' = TRUE
      BY <1>6, <2>3, <3>1 DEF Recover, RecordInv, TypeOK
    <3>3. current' \in Records /\ current'.run = pointer
      <4>1. RecordInv' /\ KeepsHistory
        BY RecordInvStep
      <4>2. current'.run = pointer
        BY <1>6, <2>3, <3>1 DEF Recover, Records
      <4>3. current' # NoRecord
        BY <3>2, <4>1 DEF RecordInv, Consistent
      <4> QED
        BY <4>1, <4>2, <4>3 DEF RecordInv, TypeOK
    <3> QED
      BY <3>2, <3>3, ConfirmsItself DEF InSync
  <2> QED
    BY <2>1, <2>2, <2>3
<1>7. CASE UNCHANGED vars
  BY <1>7 DEF vars, InSync
<1> QED
  BY <1>1, <1>2, <1>3, <1>4, <1>5, <1>6, <1>7 DEF Next, Command

\* Only what is in memory is answered, and only while nothing failed.
LEMMA AckStep ==
    ASSUME [Next]_vars
    PROVE  \/ acked' = acked /\ faults' = faults
           \/ acked' = NoRecord
           \/ /\ up /\ acked' = current /\ faults = 0 /\ faults' = 0
              /\ UNCHANGED <<current, disk>> /\ ~saving'
<1>1. ASSUME HasRun, Answer PROVE acked' = NoRecord \/ (/\ up /\ acked' = current /\ faults = 0 /\ faults' = 0
                                                    /\ UNCHANGED <<current, disk>> /\ ~saving')
  BY <1>1 DEF Answer, Told, HasRun, Idle
<1>2. ASSUME NEW r, Persist(r) PROVE (acked' = acked /\ faults' = faults) \/ acked' = NoRecord
  BY <1>2 DEF Persist
<1>3. CASE \/ \E phase \in Phases : Transition(phase)
           \/ PassGate \/ RequestCancel \/ BeginCleanup \/ RetryCleanup
           \/ \E outcome \in Reported : CloseRun(outcome)
           \/ \E verified \in BOOLEAN : CompleteCleanup(verified)
           \/ \E r \in Runs, mode \in Modes, adapter \in BOOLEAN : Start(r, mode, adapter)
  BY <1>1, <1>2, <1>3
     DEF Transition, PassGate, RequestCancel, BeginCleanup, RetryCleanup, CloseRun,
         CompleteCleanup, Start
<1>4. CASE \E v \in Values :
             \/ BindAuthority(v) \/ BindOtherRole(v) \/ AcquireWrapper(v)
             \/ LockAttempt(v) \/ ReserveEndpointLaunch(v)
             \/ \E w \in Values : MarkP0Ready(w, v) \/ AcknowledgeEndpoint(w, v)
  BY <1>1, <1>2, <1>4
     DEF BindAuthority, BindOtherRole, AcquireWrapper, LockAttempt, ReserveEndpointLaunch,
         MarkP0Ready, AcknowledgeEndpoint, BindOnce, IsRunning
<1>5. CASE SavePointer
  BY <1>5 DEF SavePointer, Told
<1>6. CASE Crash \/ Recover \/ UNCHANGED vars
  BY <1>6 DEF Crash, Recover, vars
<1> QED
  BY <1>3, <1>4, <1>5, <1>6 DEF Next

\* The pointer is only ever moved to a run whose file says it is not resolved.
LEMMA PointerStep ==
    ASSUME RecordInv, [Next]_vars
    PROVE  \/ pointer' \in {pointer, NoRun}
           \/ /\ current # NoRecord /\ pointer' = current.run
              /\ ~Resolved(current) /\ disk[current.run] = current
<1> USE NoRecordAssumption
<1>1. ASSUME NEW r, Persist(r) PROVE pointer' = pointer
  BY <1>1 DEF Persist
<1>2. Answer => pointer' = pointer
  BY DEF Answer
<1>3. CASE Command
  <2>1. CommandStep
    BY <1>3, CommandsGrow DEF RecordInv
  <2> QED
    BY <1>1, <1>2, <2>1 DEF CommandStep
<1>4. CASE \/ \E r \in Runs, mode \in Modes, adapter \in BOOLEAN : Start(r, mode, adapter)
           \/ \E v \in Values : BindOtherRole(v)
  BY <1>1, <1>4 DEF Start, BindOtherRole
<1>5. CASE SavePointer
  BY <1>5 DEF SavePointer, RecordInv, Consistent
<1>6. CASE Crash \/ Recover \/ UNCHANGED vars
  BY <1>6 DEF Crash, Recover, vars
<1> QED
  BY <1>3, <1>4, <1>5, <1>6 DEF Next, Command

LEMMA AckInvStep ==
    ASSUME RecordInv, AckInv, [Next]_vars
    PROVE  AckInv'
<1> USE NoRecordAssumption, CoordinatorAssumption
<1>1. InSync' /\ RecordInv' /\ KeepsHistory
  BY InSyncStep, RecordInvStep DEF AckInv
<1>2. SUFFICES ASSUME acked' # NoRecord
               PROVE  /\ faults' = 0
                      /\ Confirms(acked', disk'[acked'.run])
                      /\ Resolved(acked') => pointer' # acked'.run
  BY <1>1 DEF AckInv
<1>3. CASE acked' = acked /\ faults' = faults
  <2>1. acked \in Records /\ acked.run \in Runs
    BY <1>2, <1>3 DEF RecordInv, TypeOK, Records
  <2>2. faults' = 0 /\ Confirms(acked, disk[acked.run])
    BY <1>2, <1>3 DEF AckInv
  <2>3. disk'[acked.run] # NoRecord
    BY <1>1, <2>1, <2>2, DiskStays DEF Confirms
  <2>4. Confirms(acked, disk'[acked.run])
    BY <1>1, <2>1, <2>2, <2>3, StaysConfirmed
  <2>5. Resolved(acked) => pointer' # acked.run
    <3> SUFFICES ASSUME Resolved(acked), pointer' = acked.run PROVE FALSE
      OBVIOUS
    <3>1. pointer # acked.run /\ acked.run # NoRun
      BY <1>2, <1>3, <2>1 DEF AckInv
    <3>2. current # NoRecord /\ acked.run = current.run /\ ~Resolved(current)
          /\ disk[current.run] = current
      BY <3>1, PointerStep
    <3> QED
      BY <2>2, <3>2 DEF Confirms
  <2> QED
    BY <1>3, <2>2, <2>4, <2>5
<1>4. CASE /\ up /\ acked' = current /\ faults = 0 /\ faults' = 0
           /\ UNCHANGED <<current, disk>> /\ ~saving'
  <2>1. Confirms(current, disk'[current.run])
    BY <1>1, <1>2, <1>4 DEF InSync
  <2>2. current \in Records /\ current.run \in Runs
    BY <1>2, <1>4 DEF RecordInv, TypeOK, Records
  <2>3. Resolved(current) => pointer' = NoRun
    BY <1>1, <1>2, <1>4 DEF InSync
  <2> QED
    BY <1>4, <2>1, <2>2, <2>3
<1> QED
  BY <1>2, <1>3, <1>4, AckStep

\* As long as no file operation failed, what a caller was told is on disk, the
\* outcome it was told is the run's outcome, and a run it was told is cleaned up
\* holds the guard no more, wherever the process dies.
THEOREM AnswersHold == Spec => []RecordsAreDurable
<1>1. Init => RecordInv /\ AckInv
  BY RecordInvInit DEF Init, AckInv, InSync
<1>2. RecordInv /\ AckInv /\ [Next]_vars => (RecordInv /\ AckInv)'
  BY RecordInvStep, AckInvStep
<1>3. RecordInv => TypeOK
  BY DEF RecordInv
<1>4. AckInv => AnswersAreDurable /\ OutcomeSurvives /\ VerifiedReleasesGuard
  BY DEF AckInv, Confirms, AnswersAreDurable, OutcomeSurvives, VerifiedReleasesGuard
<1> QED
  BY <1>1, <1>2, <1>3, <1>4, PTL DEF Spec, RecordsAreDurable
=============================================================================
