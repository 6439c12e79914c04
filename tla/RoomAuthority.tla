--------------------------- MODULE RoomAuthority ---------------------------
(***************************************************************************)
(* The persistent authority for one trade room (relay/authority.py).       *)
(*                                                                         *)
(* AuthorityStore keeps every room as one JSON document next to a table of *)
(* member credentials, and runs each operation as one SQLite transaction   *)
(* under one lock: an operation is one action, and an operation that       *)
(* raises AuthorityError rolls back, so it is no step at all.  Rooms do    *)
(* not share state, so one room is modelled.                               *)
(*                                                                         *)
(* Time only decides whether a deadline has passed; a deadline may pass at *)
(* any moment, so every timeout is an action that may happen at any time.  *)
(* Every step also increments room_version, appends an event and saves the *)
(* document; a command carrying a stale If-Match version is refused, or    *)
(* answered without a change, so it is no step either.  The version's      *)
(* value decides nothing else and is left out.                             *)
(*                                                                         *)
(* claim_creator and transfer_creator are refused for a role-locked        *)
(* attempt, and every attempt is born role-locked, so they are no steps.   *)
(* lock_role has no caller in the repository and is left out: it writes    *)
(* the phase without looking at it.                                        *)
(***************************************************************************)
EXTENDS Naturals, FiniteSets

CONSTANTS
  Members,      \* member ids the store may hand out for this room
  Owner,        \* the id create() hands to the room's owner
  NoMember,     \* "creator_member_id is None"
  FailCodes,    \* failure codes an endpoint may report with phase "failed"
  MaxAttempts   \* bound: number of connection attempts in one room

ASSUME MembersAssumption ==
  /\ IsFiniteSet(Members)
  /\ Owner \in Members
  /\ NoMember \notin Members

ASSUME BoundsAssumption == MaxAttempts \in Nat

(* The three codes the relay itself writes into recoverable_error.         *)
RelayCodes == {"relay.peer_lost", "relay.restart", "member.reconnect_expired"}

ASSUME CodesAssumption ==
  /\ FailCodes \cap (RelayCodes \cup {"none", "primary"}) = {}
  /\ FailCodes # {}

VARIABLES
  state,        \* room["state"]; "none" before create()
  online,       \* member["online_state"]; "absent" before the member joins
  ready,        \* member["ready_state"] = "ready"
  role,         \* member["switch_room_role"]
  active,       \* credentials.active
  lastNumber,   \* room["last_attempt_number"]
  number,       \* attempt["attempt_number"]; 0 when room["attempt"] is None
  phase,        \* attempt["phase"]
  creator,      \* attempt["creator_member_id"]
  err,          \* attempt["recoverable_error"]
  intent,       \* attempt["d"]: the recorded outcome, "none" when d is None
  sides,        \* attempt["d"]["sides"]
  barrier,      \* attempt["d"]["barrier_status"]
  cleanup       \* attempt["d"]["cleanup_status"]

memberVars  == <<online, ready, role, active>>
attemptVars == <<lastNumber, number, phase, creator, err>>
dVars       == <<intent, sides, barrier, cleanup>>
vars        == <<state, memberVars, attemptVars, dVars>>

Guests    == Members \ {Owner}
SeatNames == {"member_a", "member_b"}
seat(m)   == IF m = Owner THEN "member_a" ELSE "member_b"

TerminalPhases == {"completed", "canceled", "failed"}

(* ATTEMPT_PHASE_ORDER.  "creator_guidance" is only written by             *)
(* claim_creator, which an attempt that is born role-locked refuses.       *)
PhaseOrder == [connecting_switches |-> 1, discovering_real_room |-> 2,
               advertising_mirror_room |-> 2, trading_room |-> 3,
               reconnecting |-> 4, recovering |-> 5, closing |-> 6,
               completed |-> 7, canceled |-> 7, failed |-> 7]
Phases == DOMAIN PhaseOrder

Present == {m \in Members : online[m] \notin {"absent", "left"}}
Open    == state \notin {"none", "closed", "expired"}

(* room["attempt"] exists and its phase is not terminal.                   *)
AttemptActive == number # 0 /\ phase \notin TerminalPhases

OwnerAvailable == online[Owner] \in {"online", "reconnecting"}

(* The member whose bearer token passes _credentials().                    *)
Authenticated(m) == Open /\ active[m]

NoSides == [s \in SeatNames |-> "none"]

Init ==
  /\ state = "none"
  /\ online = [m \in Members |-> "absent"]
  /\ ready = [m \in Members |-> FALSE]
  /\ role = [m \in Members |-> "none"]
  /\ active = [m \in Members |-> FALSE]
  /\ lastNumber = 0 /\ number = 0 /\ phase = "none" /\ creator = NoMember
  /\ err = "none"
  /\ intent = "none" /\ sides = NoSides /\ barrier = "none" /\ cleanup = "none"

-----------------------------------------------------------------------------
(* Membership                                                              *)

Create ==
  /\ state = "none"
  /\ state' = "waiting_for_partner"
  /\ online' = [online EXCEPT ![Owner] = "online"]
  /\ active' = [active EXCEPT ![Owner] = TRUE]
  /\ UNCHANGED <<ready, role, attemptVars, dVars>>

(* Mutants: the seat count is off by one; a join keeps the room's state.   *)
MutantJoinOverbooks(g) ==
  /\ g \in Guests /\ online[g] = "absent"
  /\ Cardinality(Present) <= 2
  /\ online' = [online EXCEPT ![g] = "online"]
  /\ active' = [active EXCEPT ![g] = TRUE]
  /\ state' = "ready_check"
  /\ UNCHANGED <<ready, role, attemptVars, dVars>>

MutantJoinKeepsState(g) ==
  /\ g \in Guests /\ online[g] = "absent"
  /\ Cardinality(Present) < 2
  /\ online' = [online EXCEPT ![g] = "online"]
  /\ active' = [active EXCEPT ![g] = TRUE]
  /\ UNCHANGED <<state, ready, role, attemptVars, dVars>>

JoinRoom(g) ==
  /\ g \in Guests /\ online[g] = "absent"
  /\ Cardinality(Present) < 2
  /\ online' = [online EXCEPT ![g] = "online"]
  /\ ready' = [ready EXCEPT ![g] = FALSE]
  /\ role' = [role EXCEPT ![g] = "none"]
  /\ active' = [active EXCEPT ![g] = TRUE]
  /\ state' = "ready_check"
  /\ UNCHANGED <<attemptVars, dVars>>

Join(g)       == Open /\ JoinRoom(g)
JoinPublic(g) == Open /\ OwnerAvailable /\ JoinRoom(g)

ClearReady ==
  /\ ready' = [m \in Members |-> FALSE]
  /\ role' = [m \in Members |-> "none"]

DropAttempt ==
  /\ number' = 0 /\ phase' = "none" /\ creator' = NoMember
  /\ err' = "none"
  /\ intent' = "none" /\ sides' = NoSides /\ barrier' = "none" /\ cleanup' = "none"

(* Mutants: the seat is vacated under an active attempt; the credential of *)
(* the member that goes stays valid.                                       *)
MutantVacateDuringAttempt(m) ==
  /\ online' = [online EXCEPT ![m] = "left"]
  /\ active' = [active EXCEPT ![m] = FALSE]
  /\ ClearReady /\ DropAttempt
  /\ state' = "waiting_for_partner"
  /\ UNCHANGED lastNumber

MutantVacateKeepsCredential(m) ==
  /\ ~AttemptActive
  /\ online' = [online EXCEPT ![m] = "left"]
  /\ ClearReady /\ DropAttempt
  /\ state' = "waiting_for_partner"
  /\ UNCHANGED <<active, lastNumber>>

(* leave and remove_offline share the way a seat is vacated.               *)
Vacate(m) ==
  /\ ~AttemptActive
  /\ online' = [online EXCEPT ![m] = "left"]
  /\ active' = [active EXCEPT ![m] = FALSE]
  /\ ClearReady
  /\ DropAttempt
  /\ state' = "waiting_for_partner"
  /\ UNCHANGED lastNumber

Leave(m) ==
  /\ Authenticated(m) /\ m # Owner
  /\ Vacate(m)

RemoveOffline(m) ==
  /\ Authenticated(Owner) /\ m # Owner
  /\ online[m] = "offline"
  /\ Vacate(m)

Close ==
  /\ Authenticated(Owner)
  /\ state' = "closed"
  /\ phase' = IF AttemptActive THEN "canceled" ELSE phase
  /\ active' = [m \in Members |-> FALSE]
  /\ UNCHANGED <<online, ready, role, lastNumber, number, creator,
                 err, dVars>>

Heartbeat(m) ==
  /\ Authenticated(m)
  /\ online' = [online EXCEPT ![m] = "online"]
  /\ UNCHANGED <<state, ready, role, active, attemptVars, dVars>>

(* A valid reconnect token rotates both tokens and brings the member back, *)
(* unless the grace period already made it offline or it left.             *)
Reconnect(m) ==
  /\ Authenticated(m)
  /\ online[m] \in {"online", "reconnecting"}
  /\ online' = [online EXCEPT ![m] = "online"]
  /\ UNCHANGED <<state, ready, role, active, attemptVars, dVars>>

-----------------------------------------------------------------------------
(* Readiness and the connection attempt                                    *)

(* Mutant: a ready creator is enough, whoever else is in the room.         *)
MutantCreatorIsEnough(rd, rl) ==
  \E m \in Present : rd[m] /\ rl[m] = "creator"

Complementary(rd, rl) ==
  /\ Cardinality(Present) = 2
  /\ \A m \in Present : rd[m]
  /\ {rl[m] : m \in Present} = {"creator", "finder"}

(* Mutant: the attempt is numbered, but last_attempt_number is not kept.   *)
MutantNumberNotKept(rl) ==
  /\ lastNumber < MaxAttempts
  /\ number' = lastNumber + 1
  /\ phase' = "connecting_switches"
  /\ creator' \in {m \in Present : rl[m] = "creator"}
  /\ err' = "none"
  /\ intent' = "none" /\ sides' = NoSides /\ barrier' = "none" /\ cleanup' = "none"
  /\ state' = "connection_attempt"
  /\ UNCHANGED lastNumber

BeginAttempt(rl) ==
  /\ lastNumber < MaxAttempts
  /\ lastNumber' = lastNumber + 1
  /\ number' = lastNumber + 1
  /\ phase' = "connecting_switches"
  /\ creator' \in {m \in Present : rl[m] = "creator"}
  /\ err' = "none"
  /\ intent' = "none" /\ sides' = NoSides /\ barrier' = "none" /\ cleanup' = "none"
  /\ state' = "connection_attempt"

localSwitchRole(m) == IF creator = m THEN "creator" ELSE "finder"

Ready(m, r) ==
  /\ Authenticated(m)
  /\ ready' = [ready EXCEPT ![m] = TRUE]
  /\ role' = [role EXCEPT ![m] = r]
  /\ UNCHANGED <<online, active>>
  /\ \/ /\ AttemptActive /\ r = localSwitchRole(m)
        /\ UNCHANGED <<state, attemptVars, dVars>>
     \/ /\ ~AttemptActive /\ Complementary(ready', role')
        /\ BeginAttempt(role')
     \/ /\ ~AttemptActive /\ ~Complementary(ready', role')
        /\ state' = "waiting_for_complementary_role"
        /\ UNCHANGED <<attemptVars, dVars>>

NotReady(m) ==
  /\ Authenticated(m)
  /\ ~AttemptActive
  /\ ready' = [ready EXCEPT ![m] = FALSE]
  /\ role' = [role EXCEPT ![m] = "none"]
  /\ DropAttempt
  /\ state' = "ready_check"
  /\ UNCHANGED <<online, active, lastNumber>>

(* The condition under which POST /attempts starts an attempt instead of   *)
(* returning the active one or refusing.                                   *)
AttemptRouteStarts == Open /\ ~AttemptActive /\ Complementary(ready, role)

(* Mutant: the readiness that started the attempt survives its end.        *)
MutantReadinessSurvives ==
  /\ state' = "ready_check"
  /\ UNCHANGED <<ready, role>>

(* What every terminal transition does to the room.                        *)
BackToReadyCheck ==
  /\ state' = "ready_check"
  /\ ready' = [m \in Members |-> IF m \in Present THEN FALSE ELSE ready[m]]
  /\ role' = [m \in Members |-> IF m \in Present THEN "none" ELSE role[m]]

(* Mutant: only terminal phases are protected.                             *)
MutantPhaseMovesAnywhere(p) == phase \notin TerminalPhases /\ phase # p

PhaseMoves(p) ==
  /\ phase \notin TerminalPhases
  /\ PhaseOrder[phase] <= PhaseOrder[p]
  /\ phase # p

Phase(m, p, code) ==
  /\ Authenticated(m) /\ number # 0
  /\ PhaseMoves(p)
  /\ phase' = p
  /\ err' = IF p = "failed" THEN code ELSE err
  /\ IF p \in TerminalPhases
     THEN BackToReadyCheck
     ELSE /\ state' = IF p = "trading_room" THEN "trading" ELSE state
          /\ UNCHANGED <<ready, role>>
  /\ UNCHANGED <<online, active, lastNumber, number, creator, dVars>>

(* A specific endpoint failure refines the relay's generic peer loss.      *)
RefineFailure(m, code) ==
  /\ Authenticated(m) /\ number # 0
  /\ phase = "failed" /\ err = "relay.peer_lost" /\ code # "relay.peer_lost"
  /\ err' = code
  /\ UNCHANGED <<state, memberVars, lastNumber, number, phase, creator,
                 dVars>>

FailAttempt(code) ==
  /\ phase' = "failed"
  /\ err' = code
  /\ BackToReadyCheck
  /\ UNCHANGED <<online, active, lastNumber, number, creator, dVars>>

(* Mutant: a disconnect during the D close tail fails the attempt.         *)
MutantFailWhileClosing ==
  Open /\ AttemptActive /\ FailAttempt("relay.peer_lost")

(* The relay lost an authenticated RFU peer of the attempt.                *)
FailTransport ==
  /\ Open /\ AttemptActive /\ phase # "closing"
  /\ FailAttempt("relay.peer_lost")

-----------------------------------------------------------------------------
(* Distributed teardown (D): closing intent, two-side barrier, deadline    *)

(* The failure code that goes with a closing outcome.                      *)
PrimaryCode(outcome) == IF outcome = "failed" THEN "primary" ELSE "none"

TerminalizeD(status, result) ==
  /\ barrier' = status
  /\ cleanup' = result
  /\ phase' = intent
  /\ err' = PrimaryCode(intent)
  /\ BackToReadyCheck
  /\ UNCHANGED <<online, active, lastNumber, number, creator, intent>>

(* Mutant: the last closing intent wins.                                   *)
MutantLastIntentWins(m, outcome) ==
  /\ Authenticated(m) /\ AttemptActive
  /\ phase' = "closing" /\ intent' = outcome
  /\ sides' = NoSides /\ barrier' = "waiting_for_sides" /\ cleanup' = "pending"
  /\ UNCHANGED <<state, memberVars, lastNumber, number, creator, err>>

BeginDClosing(m, outcome) ==
  /\ Authenticated(m) /\ AttemptActive
  /\ intent = "none"
  /\ phase' = "closing"
  /\ intent' = outcome
  /\ sides' = NoSides
  /\ barrier' = "waiting_for_sides"
  /\ cleanup' = "pending"
  /\ UNCHANGED <<state, memberVars, lastNumber, number, creator, err>>

(* Mutant: one clean side verifies the cleanup of both.                    *)
MutantOneCleanSide(sd) == \E s \in SeatNames : sd[s] = "clean"

AllClean(sd) == \A s \in SeatNames : sd[s] = "clean"

AcknowledgeDQuiescent(m, evidence) ==
  /\ Authenticated(m) /\ number # 0 /\ intent # "none"
  /\ phase \in {"closing"} \cup TerminalPhases
  /\ sides[seat(m)] = "none"
  /\ sides' = [sides EXCEPT ![seat(m)] = evidence]
  /\ IF \A s \in SeatNames : sides'[s] # "none"
     THEN TerminalizeD("two_side_terminal",
                       IF AllClean(sides') THEN "verified" ELSE "failed")
     ELSE UNCHANGED <<state, memberVars, attemptVars, intent, barrier, cleanup>>

ForceDBarrier(status) ==
  /\ Open /\ number # 0 /\ phase = "closing" /\ intent # "none"
  /\ TerminalizeD(status, "failed")
  /\ UNCHANGED sides

(* The relay process starts again: fail_active_attempts("relay.restart").  *)
RelayRestart ==
  \/ ForceDBarrier("forced_failure")
  \/ /\ Open /\ AttemptActive /\ phase # "closing"
     /\ FailAttempt("relay.restart")

-----------------------------------------------------------------------------
(* Mutants: the D deadline is only enforced while no side has reported;    *)
(* a member in its grace period is never given up during an attempt.       *)
MutantDeadlineNeedsSilence(dLate) ==
  dLate /\ number # 0 /\ phase = "closing" /\ intent # "none" /\ sides = NoSides

MutantGraceHeldByAttempt(late) ==
  {m \in late : online[m] = "reconnecting" /\ ~AttemptActive}

(* sweep_presence: late is the set of members whose current presence       *)
(* deadline has passed, dLate whether the D deadline has.                  *)
DExpired(dLate)   == dLate /\ number # 0 /\ phase = "closing" /\ intent # "none"
GraceExpired(late) == {m \in late : online[m] = "reconnecting"}

Sweep(late, dLate) ==
  LET slow == {m \in late : online[m] = "online"}
      lost == GraceExpired(late)
      dOut == DExpired(dLate)
      ph   == IF dOut THEN intent ELSE phase
      fail == lost # {} /\ number # 0 /\ ph \notin {"closing"} \cup TerminalPhases
  IN
  /\ Open
  /\ dOut \/ slow \cup lost # {}
  /\ online' = [m \in Members |-> IF m \in slow THEN "reconnecting"
                                  ELSE IF m \in lost THEN "offline" ELSE online[m]]
  /\ active' = [m \in Members |-> active[m] /\ m \notin lost]
  /\ ready' = [m \in Members |-> ready[m] /\ ~fail /\ m \notin lost
                                 /\ ~(dOut /\ m \in Present)]
  /\ role' = [m \in Members |-> IF fail \/ m \in lost \/ (dOut /\ m \in Present)
                                THEN "none" ELSE role[m]]
  /\ phase' = IF fail THEN "failed" ELSE ph
  /\ err' = IF fail THEN "member.reconnect_expired"
            ELSE IF dOut THEN PrimaryCode(intent) ELSE err
  /\ state' = IF fail \/ dOut THEN "ready_check" ELSE state
  /\ barrier' = IF dOut THEN "forced_timeout" ELSE barrier
  /\ cleanup' = IF dOut THEN "failed" ELSE cleanup
  /\ UNCHANGED <<lastNumber, number, creator, intent, sides>>

(* The room or its wait for a partner timed out; noticed by the next read. *)
Expire ==
  /\ Open
  /\ state' = "expired"
  /\ active' = [m \in Members |-> FALSE]
  /\ UNCHANGED <<online, ready, role, attemptVars, dVars>>

-----------------------------------------------------------------------------
Next ==
  \/ Create
  \/ \E g \in Guests : Join(g)
  \/ \E g \in Guests : JoinPublic(g)
  \/ \E m \in Members : Leave(m)
  \/ \E m \in Members : RemoveOffline(m)
  \/ Close
  \/ \E m \in Members : Heartbeat(m)
  \/ \E m \in Members : Reconnect(m)
  \/ \E m \in Members, r \in {"creator", "finder"} : Ready(m, r)
  \/ \E m \in Members : NotReady(m)
  \/ \E m \in Members, p \in Phases, code \in FailCodes : Phase(m, p, code)
  \/ \E m \in Members, code \in FailCodes : RefineFailure(m, code)
  \/ FailTransport
  \/ \E m \in Members, o \in TerminalPhases : BeginDClosing(m, o)
  \/ \E m \in Members, e \in {"clean", "dirty"} : AcknowledgeDQuiescent(m, e)
  \/ RelayRestart
  \/ \E late \in SUBSET Members, dLate \in BOOLEAN : Sweep(late, dLate)
  \/ Expire

Spec == Init /\ [][Next]_vars

(* sweep_presence runs in front of every HTTP request, so a deadline is    *)
(* noticed as long as some client keeps calling the relay.                 *)
SweepD       == phase = "closing" /\ \E late \in SUBSET Members : Sweep(late, TRUE)
SweepLost(m) == online[m] = "reconnecting"
                /\ \E late \in SUBSET Members, d \in BOOLEAN : m \in late /\ Sweep(late, d)
LiveSpec     == Spec /\ WF_vars(SweepD) /\ \A m \in Members : WF_vars(SweepLost(m))

-----------------------------------------------------------------------------
(* Invariants.                                                             *)

(* Every field of the document has one of the values the store writes.     *)
TypeOK ==
  /\ state \in {"none", "waiting_for_partner", "ready_check", "trading",
                "waiting_for_complementary_role", "connection_attempt",
                "closed", "expired"}
  /\ online \in [Members -> {"absent", "online", "reconnecting", "offline", "left"}]
  /\ ready \in [Members -> BOOLEAN]
  /\ role \in [Members -> {"none", "creator", "finder"}]
  /\ active \in [Members -> BOOLEAN]
  /\ lastNumber \in 0..MaxAttempts /\ number \in 0..lastNumber
  /\ phase \in Phases \cup {"none"}
  /\ creator \in Members \cup {NoMember}
  /\ err \in FailCodes \cup RelayCodes \cup {"none", "primary"}
  /\ intent \in TerminalPhases \cup {"none"}
  /\ sides \in [SeatNames -> {"none", "clean", "dirty"}]
  /\ barrier \in {"none", "waiting_for_sides", "two_side_terminal",
                  "forced_failure", "forced_timeout"}
  /\ cleanup \in {"none", "pending", "verified", "failed"}

(* A room seats the owner and at most one guest, however joins, leaves,    *)
(* removals and reconnect expiries interleave: _join_room counts members   *)
(* that have not left and gives every joiner the same seat.                *)
SeatsExclusive == \A g, h \in Guests \cap Present : g = h

(* While an attempt is active nobody can vacate a seat: both members and   *)
(* the creator the roles were locked for are still in the room.            *)
ActiveAttemptKeepsBothMembers ==
  Open /\ AttemptActive => /\ Owner \in Present /\ creator \in Present
                           /\ Guests \cap Present # {}

(* The credential table, written beside the document, agrees with it: in   *)
(* an open room exactly the members inside their grace period can          *)
(* authenticate, in a closed or expired one nobody can.                    *)
CredentialMatchesPresence ==
  \A m \in Members : active[m] <=> Open /\ online[m] \in {"online", "reconnecting"}

(* Two ready members with complementary roles and no attempt is a state    *)
(* the store never rests in: the second ready starts the attempt, and      *)
(* every way an attempt ends clears readiness.  So POST /attempts can only *)
(* return the active attempt or refuse.                                    *)
ReadyPairStartsAttempt == ~AttemptRouteStarts

(* A room that waits for a partner (and so may expire after 30 minutes)    *)
(* has exactly one member and no attempt.                                  *)
WaitingMeansAlone ==
  state = "waiting_for_partner" => Cardinality(Present) = 1 /\ number = 0

(* D6: cleanup is verified only on two clean acknowledgements, and the     *)
(* two-side barrier is reported only after both seats acknowledged.        *)
VerifiedNeedsBothClean ==
  /\ cleanup = "verified" => /\ \A s \in SeatNames : sides[s] = "clean"
                             /\ barrier = "two_side_terminal"
  /\ barrier = "two_side_terminal" => \A s \in SeatNames : sides[s] # "none"

(* The room's invariant: its fields, its seats, the members of its attempt *)
(* and its credentials belong together after every operation (AuthorityStore*)
(* commits one document and one table per transaction).                    *)
RoomIsConsistent ==
  /\ TypeOK
  /\ SeatsExclusive
  /\ ActiveAttemptKeepsBothMembers
  /\ CredentialMatchesPresence

(* What a room at rest shows its members: either it waits for somebody to  *)
(* come, or somebody has to get ready (mutate ready, _join_room, _vacate). *)
ReadinessIsConsistent == ReadyPairStartsAttempt /\ WaitingMeansAlone

-----------------------------------------------------------------------------
(* Action properties.                                                      *)

SameAttempt == number # 0 /\ number' = number

(* An active attempt is never erased under the partner: leave, removal and *)
(* a withdrawn ready are refused until it is terminal.                     *)
ActiveAttemptIsNotErased == [][AttemptActive => number' = number]_vars

(* The first accepted closing intent is frozen: neither a later intent,    *)
(* a phase report, a deadline nor a restart replaces the recorded outcome. *)
FrozenIntent == [][SameAttempt /\ intent # "none" => intent' = intent]_vars

(* An expected disconnect during D is not reported as a peer loss: while   *)
(* the attempt is closing, no relay-made failure code is written.          *)
ClosingHidesPeerLoss ==
  [][SameAttempt /\ phase = "closing" /\ err \notin RelayCodes
       => err' \notin RelayCodes]_vars

(* Attempt phases only move forward.                                       *)
PhaseOnlyMovesForward ==
  [][SameAttempt => PhaseOrder[phase] <= PhaseOrder[phase']]_vars

(* No step takes an attempt away, back, or reports it for what it is not.  *)
AttemptKeepsItsCourse ==
  ActiveAttemptIsNotErased /\ ClosingHidesPeerLoss /\ PhaseOnlyMovesForward

(* A terminal attempt is immutable: its phase never changes again.         *)
(* The code does not meet it: README, section 3; AdmissionTerminal.cfg.     *)
TerminalPhaseIsFinal ==
  [][SameAttempt /\ phase \in TerminalPhases => phase' = phase]_vars

-----------------------------------------------------------------------------
(* Liveness, as long as some client keeps the relay's sweep running.       *)

(* The D barrier never hangs: a closing attempt with a recorded intent     *)
(* leaves "closing" or the room ends.                                      *)
DBarrierNeverHangs ==
  (Open /\ phase = "closing" /\ intent # "none") ~> (phase # "closing" \/ ~Open)

(* A member in its grace period comes back, is given up on, or the room    *)
(* ends; its seat is not held forever.                                     *)
GracePeriodEnds ==
  \A m \in Members : (Open /\ online[m] = "reconnecting")
                       ~> (online[m] # "reconnecting" \/ ~Open)

(* What waits for a deadline does not wait for ever (sweep_presence).      *)
DeadlinesAreKept == DBarrierNeverHangs /\ GracePeriodEnds
=============================================================================
