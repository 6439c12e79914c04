------------------------------ MODULE RelayProofs ------------------------------
(***************************************************************************)
(* Proofs about the v2 relay, for every set of members, any number of      *)
(* attempts, losses, failed replays, restarted proofs and RFU frames, and  *)
(* for any size of the queues: who is let in (RoomAuthority,               *)
(* RelayAdmission), and what the tunnel of an attempt does between its two *)
(* seats (TunnelSession).                                                  *)
(***************************************************************************)
EXTENDS RelayAdmission, TunnelSession, FiniteSetTheorems, TLAPS

-----------------------------------------------------------------------------
(* Part 1.  Who is let in.                                                 *)
(*                                                                         *)
(* First the store by itself: type correctness and the membership,         *)
(* credential, readiness and teardown invariants.  Then the HTTP layer:    *)
(* each of its steps is a step of the store, so the store's invariant      *)
(* carries over; on top of it the admission's own invariants are proved,   *)
(* with slow or fast closing of sockets.                                   *)

-----------------------------------------------------------------------------
(* The room store.                                                         *)

(* The attempt phases, spelled out for the provers.                        *)
LEMMA PhaseNames ==
  Phases = {"connecting_switches", "discovering_real_room",
            "advertising_mirror_room", "trading_room", "reconnecting",
            "recovering", "closing", "completed", "canceled", "failed"}
  BY DEF Phases, PhaseOrder

-----------------------------------------------------------------------------
(* The first document is well typed.                                       *)
LEMMA TypeOKInit == Init => TypeOK
  BY BoundsAssumption DEF Init, TypeOK, NoSides

(* No action writes anything else.                                         *)
LEMMA TypeOKStep == TypeOK /\ [Next]_vars => TypeOK'
<1> SUFFICES ASSUME TypeOK, [Next]_vars PROVE TypeOK'
  OBVIOUS
<1> USE MembersAssumption, BoundsAssumption, CodesAssumption, PhaseNames
        DEF TypeOK, memberVars, attemptVars, dVars, Guests, RelayCodes, TerminalPhases,
            NoSides
<1>1. CASE Create
  BY <1>1 DEF Create
<1>2. CASE \E g \in Guests : Join(g)
  BY <1>2 DEF Join, JoinRoom
<1>3. CASE \E g \in Guests : JoinPublic(g)
  BY <1>3 DEF JoinPublic, JoinRoom
<1>4. CASE \E m \in Members : Leave(m)
  BY <1>4 DEF Leave, Vacate, ClearReady, DropAttempt
<1>5. CASE \E m \in Members : RemoveOffline(m)
  BY <1>5 DEF RemoveOffline, Vacate, ClearReady, DropAttempt
<1>6. CASE Close
  BY <1>6 DEF Close
<1>7. CASE \E m \in Members : Heartbeat(m)
  BY <1>7 DEF Heartbeat
<1>8. CASE \E m \in Members : Reconnect(m)
  BY <1>8 DEF Reconnect
<1>9. CASE \E m \in Members, r \in {"creator", "finder"} : Ready(m, r)
  BY <1>9 DEF Ready, BeginAttempt, Present
<1>10. CASE \E m \in Members : NotReady(m)
  BY <1>10 DEF NotReady, DropAttempt
<1>11. CASE \E m \in Members, p \in Phases, code \in FailCodes : Phase(m, p, code)
  <2>1. PICK m \in Members, p \in Phases, code \in FailCodes : Phase(m, p, code)
    BY <1>11
  <2>2. ready' \in [Members -> BOOLEAN] /\ role' \in [Members -> {"none", "creator", "finder"}]
    <3>1. BackToReadyCheck \/ UNCHANGED <<ready, role>>
      BY <2>1 DEF Phase
    <3>2. ASSUME BackToReadyCheck PROVE ready' \in [Members -> BOOLEAN]
      BY <3>2 DEF BackToReadyCheck
    <3>3. ASSUME BackToReadyCheck PROVE role' \in [Members -> {"none", "creator", "finder"}]
      BY <3>3 DEF BackToReadyCheck
    <3> QED
      BY <3>1, <3>2, <3>3
  <2>3. /\ state' \in {state, "ready_check", "trading"}
        /\ phase' \in Phases /\ err' \in FailCodes \cup {err}
    BY <2>1 DEF Phase, BackToReadyCheck
  <2>4. UNCHANGED <<online, active, lastNumber, number, creator, dVars>>
    BY <2>1 DEF Phase
  <2> QED
    BY <2>2, <2>3, <2>4
<1>12. CASE \E m \in Members, code \in FailCodes : RefineFailure(m, code)
  BY <1>12 DEF RefineFailure
<1>13. CASE FailTransport
  BY <1>13 DEF FailTransport, FailAttempt, BackToReadyCheck
<1>14. CASE \E m \in Members, o \in TerminalPhases : BeginDClosing(m, o)
  BY <1>14 DEF BeginDClosing
<1>15. CASE \E m \in Members, e \in {"clean", "dirty"} : AcknowledgeDQuiescent(m, e)
  <2>1. PICK m \in Members, e \in {"clean", "dirty"} : AcknowledgeDQuiescent(m, e)
    BY <1>15
  <2>2. sides' \in [SeatNames -> {"none", "clean", "dirty"}]
    BY <2>1 DEF AcknowledgeDQuiescent, seat, SeatNames
  <2>3. CASE \A s \in SeatNames : sides'[s] # "none"
    <3>1. TerminalizeD("two_side_terminal", IF AllClean(sides') THEN "verified" ELSE "failed")
      BY <2>1, <2>3 DEF AcknowledgeDQuiescent
    <3>2. intent # "none"
      BY <2>1 DEF AcknowledgeDQuiescent
    <3> QED
      BY <2>2, <3>1, <3>2 DEF TerminalizeD, BackToReadyCheck, PrimaryCode
  <2>4. CASE ~\A s \in SeatNames : sides'[s] # "none"
    BY <2>1, <2>2, <2>4 DEF AcknowledgeDQuiescent
  <2> QED
    BY <2>3, <2>4
<1>16. CASE RelayRestart
  BY <1>16 DEF RelayRestart, ForceDBarrier, TerminalizeD, FailAttempt, BackToReadyCheck,
               PrimaryCode
<1>17. CASE \E late \in SUBSET Members, dLate \in BOOLEAN : Sweep(late, dLate)
  BY <1>17 DEF Sweep, DExpired, GraceExpired, PrimaryCode
<1>18. CASE Expire
  BY <1>18 DEF Expire
<1>19. CASE UNCHANGED vars
  BY <1>19 DEF vars
<1> QED
  BY <1>1, <1>2, <1>3, <1>4, <1>5, <1>6, <1>7, <1>8, <1>9, <1>10, <1>11, <1>12,
     <1>13, <1>14, <1>15, <1>16, <1>17, <1>18, <1>19 DEF Next

(* Type correctness of the room document.                                  *)
THEOREM TypeCorrect == Spec => []TypeOK
  BY TypeOKInit, TypeOKStep, PTL DEF Spec

-----------------------------------------------------------------------------
(* The inductive invariant.  The owner cannot leave, so an open room       *)
(* always holds it; a recorded attempt, active or not, has both members,   *)
(* because vacating a seat erases the attempt.                             *)
OwnerStays == Open => Owner \in Present

AttemptHasBoth ==
  Open /\ number # 0 => /\ creator \in Present
                        /\ Guests \cap Present # {}

RoomInv == /\ TypeOK
           /\ OwnerStays
           /\ SeatsExclusive
           /\ AttemptHasBoth
           /\ CredentialMatchesPresence

(* Before create() the room is empty.                                      *)
EmptyBeforeCreate == state = "none" => Present = {} /\ number = 0

(* A room with a free seat holds nobody but its owner: the capacity test   *)
(* of _join_room is what makes the seats exclusive.                        *)
LEMMA FreeSeatMeansNoGuest ==
  ASSUME TypeOK, Owner \in Present, Cardinality(Present) < 2
  PROVE  Guests \cap Present = {}
<1> SUFFICES ASSUME NEW g \in Guests, g \in Present PROVE FALSE
  OBVIOUS
<1>1. IsFiniteSet(Present)
  <2>1. Present \in SUBSET Members
    BY DEF Present
  <2> QED
    BY <2>1, MembersAssumption, FS_Subset
<1>2. IsFiniteSet({Owner, g}) /\ Cardinality({Owner, g}) = 2
  <2>1. IsFiniteSet({Owner}) /\ Cardinality({Owner}) = 1
    BY FS_Singleton
  <2>2. g \notin {Owner}
    BY DEF Guests
  <2>3. IsFiniteSet({Owner} \cup {g}) /\ Cardinality({Owner} \cup {g}) = 1 + 1
    BY <2>1, <2>2, FS_AddElement
  <2>4. {Owner} \cup {g} = {Owner, g}
    OBVIOUS
  <2> QED
    BY <2>3, <2>4
<1>3. Cardinality({Owner, g}) <= Cardinality(Present)
  BY <1>1, FS_Subset
<1>4. Cardinality(Present) \in Nat
  BY <1>1, FS_CardinalityType
<1> QED
  BY <1>2, <1>3, <1>4

(* The initial document satisfies the invariant.                           *)
LEMMA RoomInvInit == Init => RoomInv /\ EmptyBeforeCreate
  BY TypeOKInit DEF Init, RoomInv, OwnerStays, SeatsExclusive, AttemptHasBoth,
     CredentialMatchesPresence, EmptyBeforeCreate, Open, Present, Guests

(* No step returns a room to the state before create(), or fills it there. *)
LEMMA EmptyBeforeCreateStep == TypeOK /\ EmptyBeforeCreate /\ [Next]_vars => EmptyBeforeCreate'
<1> SUFFICES ASSUME TypeOK, EmptyBeforeCreate, [Next]_vars PROVE EmptyBeforeCreate'
  OBVIOUS
<1>1. CASE UNCHANGED vars
  BY <1>1 DEF vars, memberVars, attemptVars, dVars, EmptyBeforeCreate, Present
<1>2. CASE Next
  <2>1. state' # "none" \/ UNCHANGED <<state, online, number>>
    BY <1>2 DEF Next, Create, Join, JoinPublic, JoinRoom, Leave, RemoveOffline, Vacate, Close,
       Heartbeat, Reconnect, Ready, BeginAttempt, NotReady, Phase, BackToReadyCheck,
       RefineFailure, FailTransport, FailAttempt, BeginDClosing, AcknowledgeDQuiescent,
       TerminalizeD, RelayRestart, ForceDBarrier, Sweep, Expire, memberVars, attemptVars,
       Authenticated, Open
  <2> QED
    BY <2>1 DEF EmptyBeforeCreate, Present
<1> QED
  BY <1>1, <1>2

(* A step inside an open room that moves nobody preserves the invariant    *)
(* if it keeps the attempt's identity or erases the attempt.               *)
LEMMA QuietStep ==
  ASSUME RoomInv, TypeOK', Open, Open', UNCHANGED <<online, active>>,
         number' = 0 \/ UNCHANGED <<number, creator>>
  PROVE  RoomInv'
  BY DEF RoomInv, OwnerStays, SeatsExclusive, AttemptHasBoth, CredentialMatchesPresence,
     Present

(* A step that closes the room deactivates every credential.               *)
LEMMA EndStep ==
  ASSUME RoomInv, TypeOK', ~Open', UNCHANGED online,
         active' = [m \in Members |-> FALSE]
  PROVE  RoomInv'
  BY DEF RoomInv, OwnerStays, SeatsExclusive, AttemptHasBoth, CredentialMatchesPresence,
     Present

(* A joiner takes a free seat.                                             *)
LEMMA JoinStep ==
  ASSUME RoomInv, TypeOK', NEW g \in Guests, Open, JoinRoom(g)
  PROVE  RoomInv'
<1>1. Guests \cap Present = {}
  BY FreeSeatMeansNoGuest DEF RoomInv, OwnerStays, JoinRoom
<1>2. Present' = Present \cup {g}
  BY DEF JoinRoom, Present, Guests, RoomInv, TypeOK
<1>3. Open'
  BY DEF JoinRoom, Open
<1>4. CredentialMatchesPresence'
  BY <1>3 DEF RoomInv, JoinRoom, CredentialMatchesPresence, TypeOK, Guests
<1>5. OwnerStays' /\ SeatsExclusive'
  BY <1>1, <1>2 DEF RoomInv, OwnerStays, SeatsExclusive
<1>6. AttemptHasBoth'
  BY <1>1, <1>2 DEF RoomInv, AttemptHasBoth, JoinRoom, attemptVars
<1> QED
  BY <1>4, <1>5, <1>6 DEF RoomInv

(* A guest that leaves or is removed takes the attempt with it.            *)
LEMMA VacateStep ==
  ASSUME RoomInv, TypeOK', NEW m \in Guests, Open, Vacate(m)
  PROVE  RoomInv'
<1>1. Present' = Present \ {m}
  BY DEF Vacate, Present, Guests, RoomInv, TypeOK
<1>2. Open'
  BY DEF Vacate, Open
<1>3. CredentialMatchesPresence'
  BY <1>2 DEF RoomInv, Vacate, CredentialMatchesPresence, TypeOK, Guests
<1>4. OwnerStays' /\ SeatsExclusive' /\ AttemptHasBoth'
  BY <1>1, MembersAssumption
     DEF RoomInv, OwnerStays, SeatsExclusive, AttemptHasBoth, Vacate, DropAttempt, Guests
<1> QED
  BY <1>3, <1>4 DEF RoomInv

(* The second complementary ready finds two members in the room.           *)
LEMMA BeginStep ==
  ASSUME RoomInv, TypeOK', Open, UNCHANGED <<online, active>>,
         Complementary(ready', role'), BeginAttempt(role')
  PROVE  RoomInv'
<1>1. Open' /\ Present' = Present
  BY DEF BeginAttempt, Open, Present
<1>2. creator' \in Present
  BY DEF BeginAttempt
<1>3. PICK a \in Present, b \in Present : a # b
  BY DEF Complementary
<1>4. Guests \cap Present # {}
  BY <1>3 DEF Guests, Present
<1> QED
  BY <1>1, <1>2, <1>4 DEF RoomInv, OwnerStays, SeatsExclusive, AttemptHasBoth,
     CredentialMatchesPresence

(* A returning member is still seated.                                     *)
LEMMA ReturnStep ==
  ASSUME RoomInv, TypeOK', NEW m \in Members, Authenticated(m),
         online' = [online EXCEPT ![m] = "online"],
         UNCHANGED <<state, active, attemptVars>>
  PROVE  RoomInv'
<1>1. Open /\ Open' /\ online[m] \in {"online", "reconnecting"}
  BY DEF Authenticated, RoomInv, CredentialMatchesPresence, Open
<1>2. Present' = Present
  BY <1>1 DEF Present, RoomInv, TypeOK
<1> QED
  BY <1>1, <1>2 DEF RoomInv, OwnerStays, SeatsExclusive, AttemptHasBoth,
     CredentialMatchesPresence, attemptVars, TypeOK

(* The sweep moves members to reconnecting and to offline; both keep the   *)
(* seat, and only the second loses the credential.                         *)
LEMMA SweepStep ==
  ASSUME RoomInv, TypeOK', NEW late \in SUBSET Members, NEW dLate \in BOOLEAN,
         Sweep(late, dLate)
  PROVE  RoomInv'
<1>1. Open /\ Open'
  BY DEF Sweep, Open
<1>2. Present' = Present
  BY DEF Sweep, GraceExpired, Present, RoomInv, TypeOK
<1>3. CredentialMatchesPresence'
  BY <1>1 DEF RoomInv, Sweep, GraceExpired, CredentialMatchesPresence, TypeOK
<1> QED
  BY <1>1, <1>2, <1>3 DEF RoomInv, OwnerStays, SeatsExclusive, AttemptHasBoth, Sweep

(* Every action preserves the invariant.                                   *)
LEMMA RoomInvStep == RoomInv /\ EmptyBeforeCreate /\ [Next]_vars => RoomInv'
<1> SUFFICES ASSUME RoomInv, EmptyBeforeCreate, [Next]_vars PROVE RoomInv'
  OBVIOUS
<1>0. TypeOK'
  BY TypeOKStep DEF RoomInv
<1>1. CASE Create
  <2>1. Present' = {Owner} /\ number' = 0 /\ Open'
    BY <1>1, MembersAssumption
       DEF Create, EmptyBeforeCreate, Present, Open, RoomInv, TypeOK, attemptVars
  <2>2. CredentialMatchesPresence'
    BY <1>1, <2>1, MembersAssumption
       DEF Create, CredentialMatchesPresence, RoomInv, TypeOK, EmptyBeforeCreate, Present, Open
  <2> QED
    BY <1>0, <2>1, <2>2 DEF RoomInv, OwnerStays, SeatsExclusive, AttemptHasBoth, Guests
<1>2. CASE \E g \in Guests : Join(g) \/ JoinPublic(g)
  BY <1>0, <1>2, JoinStep DEF Join, JoinPublic
<1>3. CASE \E m \in Members : Leave(m) \/ RemoveOffline(m)
  BY <1>0, <1>3, VacateStep DEF Leave, RemoveOffline, Guests, Authenticated
<1>4. CASE Close \/ Expire
  <2>1. ~Open' /\ UNCHANGED online /\ active' = [m \in Members |-> FALSE]
    BY <1>4 DEF Close, Expire, Open
  <2> QED
    BY <1>0, <2>1, EndStep
<1>5. CASE \E m \in Members : Heartbeat(m) \/ Reconnect(m)
  BY <1>0, <1>5, ReturnStep DEF Heartbeat, Reconnect
<1>6. CASE \E m \in Members, r \in {"creator", "finder"} : Ready(m, r)
  <2>1. PICK m \in Members, r \in {"creator", "finder"} : Ready(m, r)
    BY <1>6
  <2>2. Open /\ UNCHANGED <<online, active>>
    BY <2>1 DEF Ready, Authenticated
  <2>3. CASE Complementary(ready', role') /\ BeginAttempt(role')
    BY <1>0, <2>2, <2>3, BeginStep
  <2>4. CASE ~(Complementary(ready', role') /\ BeginAttempt(role'))
    <3>1. Open' /\ UNCHANGED <<number, creator>>
      BY <2>1, <2>2, <2>4 DEF Ready, Open, attemptVars
    <3> QED
      BY <1>0, <2>2, <3>1, QuietStep
  <2> QED
    BY <2>3, <2>4
<1>7. CASE \/ \E m \in Members : NotReady(m)
           \/ \E m \in Members, p \in Phases, code \in FailCodes : Phase(m, p, code)
           \/ \E m \in Members, code \in FailCodes : RefineFailure(m, code)
           \/ FailTransport
           \/ \E m \in Members, o \in TerminalPhases : BeginDClosing(m, o)
           \/ \E m \in Members, e \in {"clean", "dirty"} : AcknowledgeDQuiescent(m, e)
           \/ RelayRestart
  <2>1. Open /\ Open'
    BY <1>7 DEF NotReady, Phase, RefineFailure, FailTransport, FailAttempt, BeginDClosing,
       AcknowledgeDQuiescent, RelayRestart, ForceDBarrier, TerminalizeD, BackToReadyCheck,
       Authenticated, Open
  <2>2. UNCHANGED <<online, active>> /\ (number' = 0 \/ UNCHANGED <<number, creator>>)
    BY <1>7 DEF NotReady, DropAttempt, Phase, RefineFailure, FailTransport, FailAttempt,
       BeginDClosing, AcknowledgeDQuiescent, RelayRestart, ForceDBarrier, TerminalizeD,
       memberVars, attemptVars
  <2> QED
    BY <1>0, <2>1, <2>2, QuietStep
<1>8. CASE \E late \in SUBSET Members, dLate \in BOOLEAN : Sweep(late, dLate)
  BY <1>0, <1>8, SweepStep
<1>9. CASE UNCHANGED vars
  BY <1>0, <1>9 DEF vars, memberVars, attemptVars, RoomInv, OwnerStays, SeatsExclusive,
     AttemptHasBoth, CredentialMatchesPresence, Open, Present
<1> QED
  BY <1>1, <1>2, <1>3, <1>4, <1>5, <1>6, <1>7, <1>8, <1>9 DEF Next

(* Membership safety of a room: the seats are exclusive, an active attempt *)
(* keeps both members, and the credential table agrees with the document.  *)
THEOREM MembershipSafe == Spec => []RoomIsConsistent
<1>1. Spec => [](RoomInv /\ EmptyBeforeCreate)
  <2>1. RoomInv /\ EmptyBeforeCreate /\ [Next]_vars => (RoomInv /\ EmptyBeforeCreate)'
    BY RoomInvStep, EmptyBeforeCreateStep DEF RoomInv
  <2> QED
    BY <2>1, RoomInvInit, PTL DEF Spec
<1>2. RoomInv => RoomIsConsistent
  BY DEF RoomInv, OwnerStays, AttemptHasBoth, RoomIsConsistent, ActiveAttemptKeepsBothMembers,
         AttemptActive
<1> QED
  BY <1>1, <1>2, PTL

-----------------------------------------------------------------------------
(* D6: once both seats have reported nothing can take a report back, and   *)
(* only a new attempt or a new intent, which has no verdict, clears them.  *)
LEMMA VerifiedStep ==
  TypeOK /\ VerifiedNeedsBothClean /\ [Next]_vars => VerifiedNeedsBothClean'
<1> SUFFICES ASSUME TypeOK, VerifiedNeedsBothClean, [Next]_vars
             PROVE  VerifiedNeedsBothClean'
  OBVIOUS
<1>1. CASE UNCHANGED dVars
  BY <1>1 DEF dVars, VerifiedNeedsBothClean
<1>2. CASE cleanup' \in {"none", "pending", "failed"}
           /\ barrier' \in {"none", "waiting_for_sides", "forced_failure", "forced_timeout"}
  BY <1>2 DEF VerifiedNeedsBothClean
<1>3. CASE \E m \in Members, e \in {"clean", "dirty"} : AcknowledgeDQuiescent(m, e)
  <2>1. PICK m \in Members, e \in {"clean", "dirty"} : AcknowledgeDQuiescent(m, e)
    BY <1>3
  <2>2. CASE \A s \in SeatNames : sides'[s] # "none"
    BY <2>1, <2>2 DEF AcknowledgeDQuiescent, TerminalizeD, VerifiedNeedsBothClean, AllClean
  <2>3. CASE ~\A s \in SeatNames : sides'[s] # "none"
    <3>1. UNCHANGED <<barrier, cleanup>>
      BY <2>1, <2>3 DEF AcknowledgeDQuiescent
    <3>2. \E s \in SeatNames : sides[s] = "none"
      BY <2>1 DEF AcknowledgeDQuiescent, seat, SeatNames
    <3> QED
      BY <3>1, <3>2 DEF VerifiedNeedsBothClean
  <2> QED
    BY <2>2, <2>3
<1>4. CASE Create \/ (\E g \in Guests : Join(g) \/ JoinPublic(g)) \/ Close \/ Expire
           \/ (\E m \in Members : Heartbeat(m) \/ Reconnect(m))
  BY <1>1, <1>4 DEF Create, Join, JoinPublic, JoinRoom, Close, Expire, Heartbeat, Reconnect
<1>5. CASE \E m \in Members : Leave(m) \/ RemoveOffline(m) \/ NotReady(m)
  BY <1>2, <1>5 DEF Leave, RemoveOffline, NotReady, Vacate, DropAttempt
<1>6. CASE \E m \in Members, r \in {"creator", "finder"} : Ready(m, r)
  BY <1>1, <1>2, <1>6 DEF Ready, BeginAttempt
<1>7. CASE \/ \E m \in Members, p \in Phases, code \in FailCodes : Phase(m, p, code)
           \/ \E m \in Members, code \in FailCodes : RefineFailure(m, code)
           \/ FailTransport
  BY <1>1, <1>7 DEF Phase, RefineFailure, FailTransport, FailAttempt
<1>8. CASE \E m \in Members, o \in TerminalPhases : BeginDClosing(m, o)
  BY <1>2, <1>8 DEF BeginDClosing
<1>9. CASE RelayRestart
  BY <1>1, <1>2, <1>9 DEF RelayRestart, ForceDBarrier, TerminalizeD, FailAttempt
<1>10. CASE \E late \in SUBSET Members, dLate \in BOOLEAN : Sweep(late, dLate)
  <2>1. PICK late \in SUBSET Members, dLate \in BOOLEAN : Sweep(late, dLate)
    BY <1>10
  <2>2. CASE DExpired(dLate)
    BY <1>2, <2>1, <2>2 DEF Sweep
  <2>3. CASE ~DExpired(dLate)
    BY <1>1, <2>1, <2>3 DEF Sweep, dVars
  <2> QED
    BY <2>2, <2>3
<1>11. CASE UNCHANGED vars
  BY <1>1, <1>11 DEF vars
<1> QED
  BY <1>3, <1>4, <1>5, <1>6, <1>7, <1>8, <1>9, <1>10, <1>11 DEF Next

(* The two-side barrier verifies cleanup only on two clean reports.        *)
THEOREM TeardownSafe == Spec => []VerifiedNeedsBothClean
<1>1. Init => VerifiedNeedsBothClean
  BY DEF Init, VerifiedNeedsBothClean
<1> QED
  BY <1>1, TypeOKInit, TypeOKStep, VerifiedStep, PTL DEF Spec

(* The recorded closing intent of an attempt is never replaced: a new      *)
(* attempt has a number no earlier one had, and within one attempt only    *)
(* the first closing intent is accepted.                                   *)
THEOREM IntentFrozen == Spec => FrozenIntent
<1>1. ASSUME TypeOK, [Next]_vars, SameAttempt, intent # "none"
      PROVE  intent' = intent
  <2>1. number \in Nat /\ lastNumber \in Nat /\ number <= lastNumber /\ number # 0
    BY <1>1, BoundsAssumption DEF TypeOK, SameAttempt
  <2>2. number' = number
    BY <1>1 DEF SameAttempt
  <2> QED
    BY <1>1, <2>1, <2>2
       DEF Next, Create, Join, JoinPublic, JoinRoom, Leave, RemoveOffline, Vacate,
           DropAttempt, Close, Heartbeat, Reconnect, Ready, BeginAttempt, NotReady, Phase,
           RefineFailure, FailTransport, FailAttempt, BeginDClosing,
           AcknowledgeDQuiescent, TerminalizeD, RelayRestart, ForceDBarrier, Sweep, Expire,
           vars, dVars
<1>2. TypeOK /\ [Next]_vars => [SameAttempt /\ intent # "none" => intent' = intent]_vars
  BY <1>1
<1> QED
  BY <1>2, TypeOKInit, TypeOKStep, PTL DEF Spec, FrozenIntent

-----------------------------------------------------------------------------
(* Readiness.  Without an active attempt somebody in the room is not ready *)
(* or the roles do not complement each other; a room that waits for a      *)
(* partner holds its owner alone.                                          *)
OwnerAlone == state = "waiting_for_partner" => Present = {Owner} /\ number = 0

ReadyInv == RoomInv /\ EmptyBeforeCreate /\ ReadyPairStartsAttempt /\ OwnerAlone

(* What rules out a complementary pair.                                    *)
LEMMA SomeoneUnready ==
  ASSUME NEW m \in Present, ~ready[m]
  PROVE  ReadyPairStartsAttempt
  BY DEF ReadyPairStartsAttempt, AttemptRouteStarts, Complementary

LEMMA OwnerIsNoPair ==
  ASSUME Present = {Owner}
  PROVE  ReadyPairStartsAttempt
  BY FS_Singleton DEF ReadyPairStartsAttempt, AttemptRouteStarts, Complementary

LEMMA OwnerAloneStep ==
  ASSUME RoomInv, EmptyBeforeCreate, OwnerAlone, [Next]_vars
  PROVE  OwnerAlone'
<1> USE DEF RoomInv
<1>1. CASE Create
  BY <1>1, MembersAssumption
     DEF Create, EmptyBeforeCreate, Present, TypeOK, attemptVars, OwnerAlone
<1>2. CASE \/ \E g \in Guests : Join(g) \/ JoinPublic(g)
           \/ Close \/ Expire
           \/ \E m \in Members : NotReady(m)
  BY <1>2 DEF Join, JoinPublic, JoinRoom, Close, Expire, NotReady, OwnerAlone
<1>3. CASE \E m \in Members : Leave(m) \/ RemoveOffline(m)
  <2>1. PICK m \in Members : Vacate(m) /\ Open /\ m \in Present /\ m # Owner
    BY <1>3 DEF Leave, RemoveOffline, Authenticated, CredentialMatchesPresence, Present
  <2>2. Present = {Owner, m}
    BY <2>1 DEF OwnerStays, SeatsExclusive, Guests, Present
  <2>3. Present' = Present \ {m}
    BY <2>1 DEF Vacate, Present, TypeOK
  <2> QED
    BY <2>1, <2>2, <2>3 DEF Vacate, DropAttempt, OwnerAlone
<1>4. CASE \E m \in Members : Heartbeat(m) \/ Reconnect(m)
  <2>1. PICK m \in Members : Authenticated(m) /\ online' = [online EXCEPT ![m] = "online"]
    BY <1>4 DEF Heartbeat, Reconnect
  <2>2. Present' = Present
    BY <2>1 DEF Authenticated, CredentialMatchesPresence, Present, TypeOK
  <2> QED
    BY <1>4, <2>2 DEF Heartbeat, Reconnect, attemptVars, OwnerAlone
<1>5. CASE \E m \in Members, r \in {"creator", "finder"} : Ready(m, r)
  BY <1>5 DEF Ready, BeginAttempt, AttemptActive, attemptVars, Present, OwnerAlone
<1>6. CASE \/ \E m \in Members, p \in Phases, code \in FailCodes : Phase(m, p, code)
           \/ \E m \in Members, code \in FailCodes : RefineFailure(m, code)
           \/ FailTransport
           \/ \E m \in Members, o \in TerminalPhases : BeginDClosing(m, o)
           \/ \E m \in Members, e \in {"clean", "dirty"} : AcknowledgeDQuiescent(m, e)
           \/ RelayRestart
  <2>1. number # 0 /\ UNCHANGED <<number, online>> /\ (state' = state \/ state' # "waiting_for_partner")
    BY <1>6 DEF Phase, RefineFailure, FailTransport, FailAttempt, BeginDClosing,
       AcknowledgeDQuiescent, TerminalizeD, RelayRestart, ForceDBarrier, BackToReadyCheck,
       memberVars, attemptVars, AttemptActive
  <2> QED
    BY <2>1 DEF OwnerAlone
<1>7. CASE \E late \in SUBSET Members, dLate \in BOOLEAN : Sweep(late, dLate)
  <2>1. PICK late \in SUBSET Members, dLate \in BOOLEAN : Sweep(late, dLate)
    BY <1>7
  <2>2. Present' = Present
    BY <2>1 DEF Sweep, GraceExpired, Present, TypeOK
  <2> QED
    BY <2>1, <2>2 DEF Sweep, OwnerAlone
<1>8. CASE UNCHANGED vars
  BY <1>8 DEF vars, memberVars, attemptVars, OwnerAlone, Present
<1> QED
  BY <1>1, <1>2, <1>3, <1>4, <1>5, <1>6, <1>7, <1>8 DEF Next

LEMMA ReadyPairStep ==
  ASSUME RoomInv, EmptyBeforeCreate, ReadyPairStartsAttempt, [Next]_vars
  PROVE  ReadyPairStartsAttempt'
<1> USE DEF RoomInv
<1>0. RoomInv'
  BY RoomInvStep
<1>a. ASSUME NEW m \in Present', ~ready'[m] PROVE ReadyPairStartsAttempt'
  BY <1>a DEF ReadyPairStartsAttempt, AttemptRouteStarts, Complementary
<1>b. ASSUME Open', ~ready'[Owner] PROVE ReadyPairStartsAttempt'
  <2>1. Owner \in Present'
    BY <1>0, <1>b DEF OwnerStays
  <2> QED
    BY <1>a, <1>b, <2>1
<1>c. ASSUME Open', BackToReadyCheck, UNCHANGED online PROVE ReadyPairStartsAttempt'
  <2>1. Owner \in Present' /\ Owner \in Present
    BY <1>0, <1>c DEF OwnerStays, Present
  <2>2. ~ready'[Owner]
    BY <1>c, <2>1, MembersAssumption DEF BackToReadyCheck
  <2> QED
    BY <1>b, <1>c, <2>2
<1>d. ASSUME Open, Open' => Present' = Present, UNCHANGED <<ready, role, number>>,
             AttemptActive' \/ ~AttemptActive
      PROVE  ReadyPairStartsAttempt'
  BY <1>d DEF ReadyPairStartsAttempt, AttemptRouteStarts, Complementary
<1>1. CASE Create
  <2>1. Present' = {Owner}
    BY <1>1, MembersAssumption DEF Create, EmptyBeforeCreate, Present, TypeOK
  <2> QED
    BY <2>1, FS_Singleton DEF ReadyPairStartsAttempt, AttemptRouteStarts, Complementary
<1>2. CASE \E g \in Guests : Join(g) \/ JoinPublic(g)
  <2>1. PICK g \in Guests : JoinRoom(g)
    BY <1>2 DEF Join, JoinPublic
  <2>2. g \in Present' /\ ~ready'[g]
    BY <2>1 DEF JoinRoom, Present, TypeOK, Guests
  <2> QED
    BY <1>a, <2>2
<1>3. CASE \E m \in Members : Leave(m) \/ RemoveOffline(m)
  <2>1. ~ready'[Owner] /\ Open'
    BY <1>3, MembersAssumption DEF Leave, RemoveOffline, Vacate, ClearReady, Open
  <2> QED
    BY <1>b, <2>1
<1>4. CASE Close \/ Expire
  BY <1>4 DEF Close, Expire, Open, ReadyPairStartsAttempt, AttemptRouteStarts
<1>5. CASE \E m \in Members : Heartbeat(m) \/ Reconnect(m)
  <2>1. PICK m \in Members : Authenticated(m) /\ online' = [online EXCEPT ![m] = "online"]
    BY <1>5 DEF Heartbeat, Reconnect
  <2>2. Present' = Present /\ Open
    BY <2>1 DEF Authenticated, CredentialMatchesPresence, Present, TypeOK
  <2> QED
    BY <1>5, <1>d, <2>2 DEF Heartbeat, Reconnect, attemptVars, AttemptActive
<1>6. CASE \E m \in Members, r \in {"creator", "finder"} : Ready(m, r)
  <2>1. PICK m \in Members, r \in {"creator", "finder"} : Ready(m, r)
    BY <1>6
  <2>2. CASE AttemptActive
    <3>1. AttemptActive'
      BY <2>1, <2>2 DEF Ready, attemptVars, AttemptActive
    <3> QED
      BY <3>1 DEF ReadyPairStartsAttempt, AttemptRouteStarts
  <2>3. CASE ~AttemptActive /\ BeginAttempt(role')
    <3>1. AttemptActive'
      BY <2>3, BoundsAssumption DEF BeginAttempt, AttemptActive, TerminalPhases, TypeOK
    <3> QED
      BY <3>1 DEF ReadyPairStartsAttempt, AttemptRouteStarts
  <2>4. CASE ~AttemptActive /\ ~Complementary(ready', role')
    <3>1. Present' = Present
      BY <2>1 DEF Ready, Present
    <3> QED
      BY <2>4, <3>1 DEF ReadyPairStartsAttempt, AttemptRouteStarts, Complementary
  <2> QED
    BY <2>1, <2>2, <2>3, <2>4 DEF Ready
<1>7. CASE \E m \in Members : NotReady(m)
  <2>1. PICK m \in Members : NotReady(m)
    BY <1>7
  <2>2. m \in Present' /\ ~ready'[m]
    BY <2>1 DEF NotReady, Authenticated, CredentialMatchesPresence, Present, TypeOK
  <2> QED
    BY <1>a, <2>2
<1>8. CASE \E m \in Members, p \in Phases, code \in FailCodes : Phase(m, p, code)
  <2>1. PICK m \in Members, p \in Phases, code \in FailCodes : Phase(m, p, code)
    BY <1>8
  <2>2. Open /\ UNCHANGED <<online, number>>
    BY <2>1 DEF Phase, Authenticated
  <2>3. CASE p \in TerminalPhases
    BY <1>c, <2>1, <2>2, <2>3 DEF Phase, BackToReadyCheck, Open
  <2>4. CASE p \notin TerminalPhases
    <3>1. AttemptActive' /\ UNCHANGED <<ready, role>>
      BY <2>1, <2>4 DEF Phase, AttemptActive
    <3> QED
      BY <3>1 DEF ReadyPairStartsAttempt, AttemptRouteStarts
  <2> QED
    BY <2>3, <2>4
<1>9. CASE \E m \in Members, code \in FailCodes : RefineFailure(m, code)
  BY <1>9, <1>d DEF RefineFailure, memberVars, Authenticated, Present, AttemptActive
<1>10. CASE FailTransport \/ RelayRestart
  <2>1. Open' /\ BackToReadyCheck /\ UNCHANGED online
    BY <1>10 DEF FailTransport, RelayRestart, FailAttempt, ForceDBarrier, TerminalizeD,
       BackToReadyCheck, Open
  <2> QED
    BY <1>c, <2>1
<1>11. CASE \E m \in Members, o \in TerminalPhases : BeginDClosing(m, o)
  <2>1. AttemptActive'
    BY <1>11 DEF BeginDClosing, AttemptActive, TerminalPhases
  <2> QED
    BY <2>1 DEF ReadyPairStartsAttempt, AttemptRouteStarts
<1>12. CASE \E m \in Members, e \in {"clean", "dirty"} : AcknowledgeDQuiescent(m, e)
  <2>1. PICK m \in Members, e \in {"clean", "dirty"} : AcknowledgeDQuiescent(m, e)
    BY <1>12
  <2>2. CASE \A s \in SeatNames : sides'[s] # "none"
    BY <1>c, <2>1, <2>2 DEF AcknowledgeDQuiescent, TerminalizeD, BackToReadyCheck, Open
  <2>3. CASE ~\A s \in SeatNames : sides'[s] # "none"
    BY <1>d, <2>1, <2>3 DEF AcknowledgeDQuiescent, memberVars, attemptVars, Authenticated,
       Present, AttemptActive
  <2> QED
    BY <2>2, <2>3
<1>13. CASE \E late \in SUBSET Members, dLate \in BOOLEAN : Sweep(late, dLate)
  <2>1. PICK late \in SUBSET Members, dLate \in BOOLEAN : Sweep(late, dLate)
    BY <1>13
  <2>2. Open /\ Open' /\ Present' = Present /\ Owner \in Present /\ number' = number
    BY <2>1 DEF Sweep, GraceExpired, Present, TypeOK, Open, OwnerStays
  <2>3. CASE phase' # phase
    <3>1. ~ready'[Owner]
      BY <2>1, <2>2, <2>3, MembersAssumption DEF Sweep
    <3> QED
      BY <1>b, <2>2, <3>1
  <2>4. CASE phase' = phase /\ UNCHANGED <<ready, role>>
    BY <1>d, <2>2, <2>4 DEF AttemptActive
  <2>5. CASE phase' = phase /\ ~UNCHANGED <<ready, role>>
    <3>1. PICK m \in Members : m \in Present /\ ~ready'[m]
      <4>1. CASE GraceExpired(late) # {}
        BY <2>1, <4>1 DEF Sweep, GraceExpired, Present
      <4>2. CASE GraceExpired(late) = {}
        BY <2>1, <2>2, <2>5, <4>2, MembersAssumption DEF Sweep, TypeOK
      <4> QED
        BY <4>1, <4>2
    <3> QED
      BY <1>a, <2>2, <3>1
  <2> QED
    BY <2>3, <2>4, <2>5
<1>14. CASE UNCHANGED vars
  BY <1>14 DEF vars, memberVars, attemptVars, ReadyPairStartsAttempt, AttemptRouteStarts,
     Complementary, Open, AttemptActive, Present
<1> QED
  BY <1>1, <1>2, <1>3, <1>4, <1>5, <1>6, <1>7, <1>8, <1>9, <1>10, <1>11, <1>12, <1>13, <1>14
     DEF Next

(* A complementary ready pair never rests without an attempt, and a room   *)
(* that waits for a partner holds one member and no attempt.               *)
THEOREM ReadinessSafe == Spec => []ReadinessIsConsistent
<1>1. Init => ReadyInv
  BY RoomInvInit DEF Init, ReadyInv, ReadyPairStartsAttempt, AttemptRouteStarts, Open, OwnerAlone
<1>2. ReadyInv /\ [Next]_vars => ReadyInv'
  BY RoomInvStep, EmptyBeforeCreateStep, ReadyPairStep, OwnerAloneStep DEF ReadyInv, RoomInv
<1>3. ReadyInv => ReadinessIsConsistent
  BY FS_Singleton DEF ReadyInv, OwnerAlone, ReadinessIsConsistent, WaitingMeansAlone
<1> QED
  BY <1>1, <1>2, <1>3, PTL DEF Spec

-----------------------------------------------------------------------------
(* What a step may do to an attempt.                                       *)

(* An attempt that exists has a phase.                                     *)
PhaseKnown == number # 0 => phase \in Phases

LEMMA PhaseKnownStep ==
  TypeOK /\ PhaseKnown /\ [Next]_vars => PhaseKnown'
<1> SUFFICES ASSUME TypeOK, PhaseKnown, [Next]_vars PROVE PhaseKnown'
  OBVIOUS
<1>1. number' = 0 \/ phase' \in Phases \/ UNCHANGED <<number, phase>>
  BY PhaseNames
     DEF Next, Create, Join, JoinPublic, JoinRoom, Leave, RemoveOffline, Vacate, DropAttempt,
         Close, Heartbeat, Reconnect, Ready, BeginAttempt, NotReady, Phase, RefineFailure,
         FailTransport, FailAttempt, BeginDClosing, AcknowledgeDQuiescent, TerminalizeD,
         RelayRestart, ForceDBarrier, Sweep, DExpired, Expire, vars, attemptVars, TypeOK,
         TerminalPhases, PhaseKnown
<1> QED
  BY <1>1 DEF PhaseKnown

(* Nobody erases an active attempt, relay-made failures stay out of a      *)
(* closing one, and phases only move forward.                              *)
THEOREM AttemptHistory == Spec => AttemptKeepsItsCourse
<1> DEFINE Inv == TypeOK /\ EmptyBeforeCreate /\ PhaseKnown
<1>1. Spec => []Inv
  <2>1. Init => Inv
    BY TypeOKInit, RoomInvInit DEF PhaseKnown, Init
  <2>2. Inv /\ [Next]_vars => Inv'
    BY TypeOKStep, EmptyBeforeCreateStep, PhaseKnownStep
  <2> QED
    BY <2>1, <2>2, PTL DEF Spec
<1>a. ASSUME TypeOK PROVE number \in Nat /\ lastNumber \in Nat /\ number <= lastNumber
  BY <1>a, BoundsAssumption DEF TypeOK
<1>2. ASSUME Inv, [Next]_vars, AttemptActive PROVE number' = number
  BY <1>2, <1>a
     DEF Next, Create, Join, JoinPublic, JoinRoom, Leave, RemoveOffline, Vacate, Close,
         Heartbeat, Reconnect, Ready, NotReady, Phase, RefineFailure, FailTransport,
         FailAttempt, BeginDClosing, AcknowledgeDQuiescent, TerminalizeD, RelayRestart,
         ForceDBarrier, Sweep, Expire, vars, attemptVars, AttemptActive, EmptyBeforeCreate
<1>3. ASSUME Inv, [Next]_vars, SameAttempt, phase = "closing", err \notin RelayCodes
      PROVE  err' \notin RelayCodes
  <2>1. number' = number /\ number # 0 /\ number' # lastNumber + 1
    BY <1>3, <1>a DEF SameAttempt
  <2>2. \A o \in TerminalPhases \cup {"none"} : PrimaryCode(o) \notin RelayCodes
    BY DEF PrimaryCode, RelayCodes
  <2>3. FailCodes \cap RelayCodes = {}
    BY CodesAssumption
  <2> QED
    BY <1>3, <2>1, <2>2, <2>3
       DEF Next, Create, Join, JoinPublic, JoinRoom, Leave, RemoveOffline, Vacate, DropAttempt,
           Close, Heartbeat, Reconnect, Ready, BeginAttempt, NotReady, Phase, RefineFailure,
           FailTransport, FailAttempt, BeginDClosing, AcknowledgeDQuiescent, TerminalizeD,
           RelayRestart, ForceDBarrier, Sweep, DExpired, Expire, vars, attemptVars, TypeOK,
           TerminalPhases, AttemptActive
<1>4. ASSUME Inv, [Next]_vars, SameAttempt PROVE PhaseOrder[phase] <= PhaseOrder[phase']
  <2>1. number' = number /\ number # 0 /\ number' # lastNumber + 1 /\ phase \in Phases
    BY <1>4, <1>a DEF SameAttempt, PhaseKnown
  <2>2. \A p \in Phases : PhaseOrder[p] <= PhaseOrder[p]
    BY PhaseNames DEF PhaseOrder
  <2>3. \A p \in Phases \ TerminalPhases : PhaseOrder[p] <= PhaseOrder["closing"]
    BY PhaseNames DEF PhaseOrder, TerminalPhases
  <2>4. \A p \in Phases, q \in TerminalPhases : PhaseOrder[p] <= PhaseOrder[q]
    BY PhaseNames DEF PhaseOrder, TerminalPhases
  <2>5. phase' = phase \/ phase' \in TerminalPhases
        \/ (phase \notin TerminalPhases /\ phase' = "closing")
        \/ PhaseOrder[phase] <= PhaseOrder[phase']
    BY <1>4, <2>1
       DEF Next, Create, Join, JoinPublic, JoinRoom, Leave, RemoveOffline, Vacate, DropAttempt,
           Close, Heartbeat, Reconnect, Ready, BeginAttempt, NotReady, Phase, PhaseMoves,
           RefineFailure, FailTransport, FailAttempt, BeginDClosing, AcknowledgeDQuiescent,
           TerminalizeD, RelayRestart, ForceDBarrier, Sweep, DExpired, Expire, vars,
           attemptVars, TypeOK, TerminalPhases, AttemptActive
  <2> QED
    BY <2>1, <2>2, <2>3, <2>4, <2>5
<1>5. Inv /\ [Next]_vars
        => /\ [AttemptActive => number' = number]_vars
           /\ [SameAttempt /\ phase = "closing" /\ err \notin RelayCodes
                 => err' \notin RelayCodes]_vars
           /\ [SameAttempt => PhaseOrder[phase] <= PhaseOrder[phase']]_vars
  BY <1>2, <1>3, <1>4
<1> QED
  BY <1>1, <1>5, PTL
     DEF Spec, AttemptKeepsItsCourse, ActiveAttemptIsNotErased, ClosingHidesPeerLoss,
         PhaseOnlyMovesForward

-----------------------------------------------------------------------------
(* The HTTP layer.                                                         *)
(* The admission only adds conditions to the store's actions.              *)
LEMMA StoreStep == [AdmissionNext]_allVars => [Next]_vars
<1> SUFFICES ASSUME [AdmissionNext]_allVars PROVE [Next]_vars
  OBVIOUS
<1>1. CASE OtherRoute
  BY <1>1 DEF OtherRoute, Next
<1>2. CASE \E m \in Members, r \in {"creator", "finder"} : ReadyV2(m, r)
  BY <1>2 DEF ReadyV2, Next
<1>3. CASE \E m \in Members : NotReadyV2(m)
  BY <1>3 DEF NotReadyV2, Next
<1>4. CASE \E m \in Members : OpenTunnel(m)
  BY <1>4 DEF OpenTunnel
<1>5. CASE \E m \in Members, o \in TerminalPhases : BeginDistributedD(m, o)
  BY <1>5 DEF BeginDistributedD, Next
<1>6. CASE \E m \in Members, e \in {"clean", "dirty"} : AcknowledgeDistributedD(m, e)
  BY <1>6 DEF AcknowledgeDistributedD, Next
<1>7. CASE \E m \in Members, p \in Phases, code \in FailCodes : SetAttemptPhase(m, p, code)
  <2>1. PICK m \in Members, p \in Phases, code \in FailCodes : SetAttemptPhase(m, p, code)
    BY <1>7
  <2>2. Phase(m, p, code) \/ RefineFailure(m, code) \/ UNCHANGED vars
    BY <2>1 DEF SetAttemptPhase
  <2> QED
    BY <2>2 DEF Next
<1>8. CASE \E m \in Members : LeaveTradeRoom(m) \/ RemoveOfflineMember(m)
  BY <1>8 DEF LeaveTradeRoom, RemoveOfflineMember, Next
<1>9. CASE CloseTradeRoom
  BY <1>9 DEF CloseTradeRoom, Next
<1>10. CASE \E n \in 1..MaxAttempts : PeerLost(n)
  <2>1. FailTransport \/ UNCHANGED vars
    BY <1>10 DEF PeerLost
  <2> QED
    BY <2>1 DEF Next
<1>11. CASE \E late \in SUBSET Members, dLate \in BOOLEAN : SweepRequest(late, dLate)
  BY <1>11 DEF SweepRequest, Next
<1>12. CASE \E n \in 0..MaxAttempts : FinishDisconnect(n)
  BY <1>12 DEF FinishDisconnect
<1>13. CASE Restart
  BY <1>13 DEF Restart, Next
<1>14. CASE UNCHANGED allVars
  BY <1>14 DEF allVars
<1> QED
  BY <1>1, <1>2, <1>3, <1>4, <1>5, <1>6, <1>7, <1>8, <1>9, <1>10, <1>11, <1>12, <1>13, <1>14
     DEF AdmissionNext, ServeNext

-----------------------------------------------------------------------------
(* An attempt that is active after a store step was active before it, with *)
(* the same number and the same members, or has a number never used: a     *)
(* terminal attempt is not revived, and nobody joins or leaves under it.   *)
SameActive == /\ Open /\ AttemptActive
              /\ number' = number /\ Present' = Present

NewNumber == number' = lastNumber + 1

LEMMA AttemptStep ==
  ASSUME RoomInv, EmptyBeforeCreate, [Next]_vars
  PROVE  /\ lastNumber <= lastNumber'
         /\ Open' /\ AttemptActive' => SameActive \/ NewNumber
<1> USE BoundsAssumption DEF RoomInv
<1>a. lastNumber \in Nat
  BY DEF TypeOK
<1>1. CASE Create \/ Expire \/ Close
  BY <1>a, <1>1 DEF Create, Expire, Close, Open, AttemptActive, EmptyBeforeCreate, attemptVars
<1>2. CASE \E g \in Guests : Join(g) \/ JoinPublic(g)
  <2>1. PICK g \in Guests : Open /\ JoinRoom(g)
    BY <1>2 DEF Join, JoinPublic
  <2>2. Guests \cap Present = {}
    BY <2>1, FreeSeatMeansNoGuest DEF OwnerStays, JoinRoom
  <2>3. number = 0
    BY <2>1, <2>2 DEF AttemptHasBoth
  <2> QED
    BY <1>a, <2>1, <2>3 DEF JoinRoom, attemptVars, AttemptActive
<1>3. CASE \E m \in Members : Leave(m) \/ RemoveOffline(m) \/ NotReady(m)
  BY <1>a, <1>3 DEF Leave, RemoveOffline, Vacate, NotReady, DropAttempt, AttemptActive
<1>4. CASE \E m \in Members : Heartbeat(m) \/ Reconnect(m)
  <2>1. PICK m \in Members : Authenticated(m) /\ online' = [online EXCEPT ![m] = "online"]
    BY <1>4 DEF Heartbeat, Reconnect
  <2>2. Open /\ online[m] \in {"online", "reconnecting"}
    BY <2>1 DEF Authenticated, CredentialMatchesPresence
  <2>3. Present' = Present
    BY <2>1, <2>2 DEF Present, TypeOK
  <2> QED
    BY <1>4, <1>a, <2>2, <2>3 DEF Heartbeat, Reconnect, attemptVars, AttemptActive, SameActive
<1>5. CASE \E m \in Members, r \in {"creator", "finder"} : Ready(m, r)
  <2>1. Open /\ Present' = Present
    BY <1>5 DEF Ready, Authenticated, Present
  <2> QED
    BY <1>5, <1>a, <2>1 DEF Ready, BeginAttempt, attemptVars, AttemptActive, SameActive, NewNumber
<1>6. CASE \E m \in Members, p \in Phases, code \in FailCodes : Phase(m, p, code)
  BY <1>6, <1>a DEF Phase, PhaseMoves, Authenticated, Present, AttemptActive, SameActive
<1>7. CASE \/ \E m \in Members, code \in FailCodes : RefineFailure(m, code)
           \/ FailTransport
           \/ RelayRestart
           \/ \E m \in Members, o \in TerminalPhases : BeginDClosing(m, o)
  <2>1. TypeOK /\ (phase = "closing" /\ intent # "none" => intent \in TerminalPhases)
    BY DEF TypeOK
  <2> QED
    BY <1>7, <1>a, <2>1
       DEF RefineFailure, FailTransport, FailAttempt, RelayRestart, ForceDBarrier,
           TerminalizeD, BeginDClosing, memberVars, attemptVars, Authenticated, Present,
           TerminalPhases, AttemptActive, SameActive
<1>8. CASE \E m \in Members, e \in {"clean", "dirty"} : AcknowledgeDQuiescent(m, e)
  <2>1. Open /\ number' = number /\ lastNumber' = lastNumber /\ Present' = Present
    BY <1>8 DEF AcknowledgeDQuiescent, TerminalizeD, memberVars, attemptVars, Authenticated, Present
  <2>2. phase' = phase \/ phase' \in TerminalPhases
    BY <1>8 DEF AcknowledgeDQuiescent, TerminalizeD, attemptVars, TypeOK
  <2> QED
    BY <1>a, <2>1, <2>2 DEF AttemptActive, SameActive
<1>9. CASE \E late \in SUBSET Members, dLate \in BOOLEAN : Sweep(late, dLate)
  <2>1. PICK late \in SUBSET Members, dLate \in BOOLEAN : Sweep(late, dLate)
    BY <1>9
  <2>2. Open /\ number' = number /\ lastNumber' = lastNumber
    BY <2>1 DEF Sweep
  <2>3. Present' = Present
    BY <2>1 DEF Sweep, GraceExpired, Present, TypeOK
  <2>4. phase' = phase \/ phase' \in TerminalPhases
    BY <2>1 DEF Sweep, DExpired, TypeOK, TerminalPhases
  <2> QED
    BY <1>a, <2>2, <2>3, <2>4 DEF AttemptActive, SameActive
<1>10. CASE UNCHANGED vars
  BY <1>10, <1>a DEF vars, memberVars, attemptVars, Open, AttemptActive, SameActive, Present
<1> QED
  BY <1>1, <1>2, <1>3, <1>4, <1>5, <1>6, <1>7, <1>8, <1>9, <1>10 DEF Next
-----------------------------------------------------------------------------
(* The inductive invariant.  What process memory refers to by number was   *)
(* numbered by the store, and a disconnect of one attempt is pending only  *)
(* after that attempt has ended.                                           *)
NumbersUsed == bound \subseteq 1..lastNumber /\ retiring \subseteq 0..lastNumber

RetiringIsOver == Open /\ AttemptActive => number \notin retiring

AdmInv == /\ RoomInv
          /\ EmptyBeforeCreate
          /\ AdmissionTypeOK
          /\ NumbersUsed
          /\ RetiringIsOver
          /\ BoundMeansBothProved

LEMMA AdmInvInit == AdmissionInit => AdmInv
<1> SUFFICES ASSUME AdmissionInit PROVE AdmInv
  OBVIOUS
<1>1. RoomInv /\ EmptyBeforeCreate
  BY RoomInvInit DEF AdmissionInit
<1>2. AdmissionTypeOK /\ NumbersUsed /\ RetiringIsOver /\ BoundMeansBothProved
  BY BoundsAssumption
     DEF AdmissionInit, NoLaunches, AdmissionTypeOK, NumbersUsed, RetiringIsOver,
         BoundMeansBothProved
<1> QED
  BY <1>1, <1>2 DEF AdmInv

(* How a step may change the pending admission: it admits the attempt it   *)
(* proves, or drops whole admissions, or leaves every bound one as it was. *)
Admits == /\ bound' = bound \cup {number'}
          /\ admitted' = number' /\ proofs' = Present
          /\ number' # 0 /\ Present' = Present

KeepsBound ==
  /\ bound' \subseteq bound
  /\ \A n \in bound' : admitted = n /\ proofs = Present
                        => admitted' = n /\ proofs' = Present

LEMMA RetireKeeps ==
  ASSUME NEW n \in 0..MaxAttempts, Retire(n)
  PROVE  KeepsBound
  BY DEF Retire, KeepsBound

LEMMA DisconnectKeeps ==
  ASSUME NEW n \in 0..MaxAttempts, DisconnectRoom(n)
  PROVE  KeepsBound
  BY RetireKeeps DEF DisconnectRoom, admissionVars, KeepsBound

LEMMA AdmissionStep ==
  ASSUME AdmInv, [AdmissionNext]_allVars
  PROVE  Admits \/ KeepsBound
<1> USE DEF AdmInv
<1>a. number \in 0..MaxAttempts /\ 0 \in 0..MaxAttempts
  BY BoundsAssumption DEF RoomInv, TypeOK
<1>1. CASE OtherRoute \/ UNCHANGED allVars
  BY <1>1 DEF OtherRoute, allVars, admissionVars, KeepsBound
<1>2. CASE \E m \in Members, r \in {"creator", "finder"} : ReadyV2(m, r)
  <2>1. PICK m \in Members, r \in {"creator", "finder"} : ReadyV2(m, r)
    BY <1>2
  <2>2. m \in Present
    BY <2>1 DEF ReadyV2, Ready, Authenticated, RoomInv, CredentialMatchesPresence, Present
  <2>3. CASE AttemptActive' /\ proofs' = Present
    BY <2>1, <2>3 DEF ReadyV2, Ready, Present, Admits, AttemptActive
  <2>4. CASE ~(AttemptActive' /\ proofs' = Present)
    BY <2>1, <2>2, <2>4 DEF ReadyV2, KeepsBound
  <2> QED
    BY <2>3, <2>4
<1>3. CASE \E m \in Members : NotReadyV2(m)
  BY <1>3, <1>a, RetireKeeps DEF NotReadyV2
<1>4. CASE \/ \E m \in Members : OpenTunnel(m)
           \/ \E m \in Members, o \in TerminalPhases : BeginDistributedD(m, o)
  BY <1>4 DEF OpenTunnel, BeginDistributedD, admissionVars, KeepsBound
<1>5. CASE \E m \in Members, e \in {"clean", "dirty"} : AcknowledgeDistributedD(m, e)
  BY <1>5, <1>a, DisconnectKeeps DEF AcknowledgeDistributedD, admissionVars, KeepsBound
<1>6. CASE \E m \in Members, p \in Phases, code \in FailCodes : SetAttemptPhase(m, p, code)
  <2>1. DisconnectRoom(number) \/ UNCHANGED admissionVars
    BY <1>6 DEF SetAttemptPhase
  <2> QED
    BY <1>a, <2>1, DisconnectKeeps DEF admissionVars, KeepsBound
<1>7. CASE \/ \E m \in Members : LeaveTradeRoom(m) \/ RemoveOfflineMember(m)
           \/ CloseTradeRoom
  BY <1>7, <1>a, DisconnectKeeps DEF LeaveTradeRoom, RemoveOfflineMember, CloseTradeRoom
<1>8. CASE \E n \in 1..MaxAttempts : PeerLost(n)
  <2>1. PICK n \in 1..MaxAttempts : Retire(n) \/ UNCHANGED admissionVars
    BY <1>8 DEF PeerLost
  <2>2. n \in 0..MaxAttempts
    BY BoundsAssumption
  <2> QED
    BY <2>1, <2>2, RetireKeeps DEF admissionVars, KeepsBound
<1>9. CASE \E late \in SUBSET Members, dLate \in BOOLEAN : SweepRequest(late, dLate)
  BY <1>9, <1>a, DisconnectKeeps DEF SweepRequest, admissionVars, KeepsBound
<1>10. CASE \E n \in 0..MaxAttempts : FinishDisconnect(n)
  BY <1>10, RetireKeeps DEF FinishDisconnect
<1>11. CASE Restart
  BY <1>11 DEF Restart, KeepsBound
<1> QED
  BY <1>1, <1>2, <1>3, <1>4, <1>5, <1>6, <1>7, <1>8, <1>9, <1>10, <1>11
     DEF AdmissionNext, ServeNext

(* Only a disconnect of the whole room, or of an attempt that the same     *)
(* step ends, is left waiting for its sockets.                             *)
LEMMA RetiringStep ==
  ASSUME AdmInv, [AdmissionNext]_allVars
  PROVE  \/ retiring' \subseteq retiring \cup {0}
         \/ retiring' \subseteq retiring \cup {number} /\ ~(Open' /\ AttemptActive')
<1>1. CASE \/ OtherRoute \/ UNCHANGED allVars
           \/ \E m \in Members, r \in {"creator", "finder"} : ReadyV2(m, r)
           \/ \E m \in Members : NotReadyV2(m)
           \/ \E m \in Members, o \in TerminalPhases : BeginDistributedD(m, o)
  BY <1>1 DEF OtherRoute, ReadyV2, NotReadyV2, BeginDistributedD, allVars, socketVars
<1>2. CASE \/ \E m \in Members : OpenTunnel(m)
           \/ \E n \in 1..MaxAttempts : PeerLost(n)
           \/ \E n \in 0..MaxAttempts : FinishDisconnect(n)
           \/ Restart
  BY <1>2 DEF OpenTunnel, PeerLost, FinishDisconnect, Restart
<1>3. CASE \/ \E m \in Members : LeaveTradeRoom(m) \/ RemoveOfflineMember(m)
           \/ CloseTradeRoom
  BY <1>3 DEF LeaveTradeRoom, RemoveOfflineMember, CloseTradeRoom, DisconnectRoom
<1>4. CASE \E m \in Members, e \in {"clean", "dirty"} : AcknowledgeDistributedD(m, e)
  <2>1. \/ UNCHANGED socketVars
        \/ phase' \in TerminalPhases /\ DisconnectRoom(number)
    BY <1>4 DEF AcknowledgeDistributedD
  <2> QED
    BY <2>1 DEF DisconnectRoom, socketVars, AttemptActive
<1>5. CASE \E m \in Members, p \in Phases, code \in FailCodes : SetAttemptPhase(m, p, code)
  <2>1. PICK m \in Members, p \in Phases, code \in FailCodes : SetAttemptPhase(m, p, code)
    BY <1>5
  <2>2. CASE p \in TerminalPhases
    <3>1. phase' \in TerminalPhases
      BY <2>1, <2>2 DEF SetAttemptPhase, Phase, RefineFailure, vars, attemptVars, TerminalPhases
    <3> QED
      BY <2>1, <2>2, <3>1 DEF SetAttemptPhase, DisconnectRoom, AttemptActive
  <2>3. CASE p \notin TerminalPhases
    BY <2>1, <2>3 DEF SetAttemptPhase, socketVars
  <2> QED
    BY <2>2, <2>3
<1>6. CASE \E late \in SUBSET Members, dLate \in BOOLEAN : SweepRequest(late, dLate)
  <2>1. PICK late \in SUBSET Members, dLate \in BOOLEAN : SweepRequest(late, dLate)
    BY <1>6
  <2>2. CASE DExpired(dLate)
    <3>1. phase' \in TerminalPhases
      BY <2>1, <2>2 DEF SweepRequest, Sweep, DExpired, AdmInv, RoomInv, TypeOK, TerminalPhases
    <3> QED
      BY <2>1, <2>2, <3>1 DEF SweepRequest, DisconnectRoom, AttemptActive
  <2>3. CASE ~DExpired(dLate)
    BY <2>1, <2>3 DEF SweepRequest, socketVars
  <2> QED
    BY <2>2, <2>3
<1> QED
  BY <1>1, <1>2, <1>3, <1>4, <1>5, <1>6 DEF AdmissionNext, ServeNext

(* The admission keeps its types.                                          *)
LEMMA AdmissionTypeStep ==
  ASSUME AdmInv, [AdmissionNext]_allVars
  PROVE  AdmissionTypeOK'
<1> USE BoundsAssumption DEF AdmInv, AdmissionTypeOK
<1>a. number \in 0..MaxAttempts /\ number' \in 0..MaxAttempts /\ (AttemptActive' => number' # 0)
  <2>1. TypeOK /\ TypeOK'
    BY TypeOKStep, StoreStep DEF RoomInv
  <2> QED
    BY <2>1 DEF TypeOK, AttemptActive
<1>b. ASSUME NEW n \in 0..MaxAttempts, Retire(n)
      PROVE  /\ proofs' \subseteq Members /\ launches' \in [Members -> 0..MaxAttempts]
             /\ admitted' \in 0..MaxAttempts /\ bound' \subseteq 1..MaxAttempts
  <2>1. bound' \subseteq 1..MaxAttempts
    BY <1>b DEF Retire
  <2>2. proofs' \in {proofs, {}} /\ launches' \in {launches, NoLaunches} /\ admitted' \in {admitted, 0}
    BY <1>b DEF Retire
  <2>3. NoLaunches \in [Members -> 0..MaxAttempts]
    BY <1>a DEF NoLaunches
  <2> QED
    BY <1>a, <2>1, <2>2, <2>3
<1>c. ASSUME NEW n \in 0..MaxAttempts, DisconnectRoom(n) PROVE AdmissionTypeOK'
  BY <1>b, <1>c DEF DisconnectRoom, admissionVars
<1>1. CASE \/ OtherRoute \/ UNCHANGED allVars
           \/ \E m \in Members, o \in TerminalPhases : BeginDistributedD(m, o)
  BY <1>1 DEF OtherRoute, BeginDistributedD, allVars, admissionVars, socketVars
<1>2. CASE \E m \in Members, r \in {"creator", "finder"} : ReadyV2(m, r)
  <2>1. PICK m \in Members, r \in {"creator", "finder"} : ReadyV2(m, r)
    BY <1>2
  <2>2. proofs' \subseteq Members /\ UNCHANGED <<launches, sessions, retiring>>
    BY <2>1 DEF ReadyV2, socketVars
  <2>3. CASE UNCHANGED <<admitted, bound>>
    BY <2>2, <2>3
  <2>4. CASE AttemptActive' /\ admitted' = number' /\ bound' = bound \cup {number'}
    <3>1. number' \in 1..MaxAttempts
      BY <1>a, <2>4
    <3>2. bound' \subseteq 1..MaxAttempts
      BY <2>4, <3>1
    <3>3. admitted' \in 0..MaxAttempts
      BY <1>a, <2>4
    <3> QED
      BY <2>2, <3>2, <3>3
  <2> QED
    BY <2>1, <2>3, <2>4 DEF ReadyV2
<1>3. CASE \E m \in Members : NotReadyV2(m)
  BY <1>3, <1>b DEF NotReadyV2, socketVars
<1>4. CASE \E m \in Members : OpenTunnel(m)
  BY <1>4, <1>a DEF OpenTunnel
<1>5. CASE \E m \in Members, e \in {"clean", "dirty"} : AcknowledgeDistributedD(m, e)
  BY <1>5, <1>a, <1>c DEF AcknowledgeDistributedD, admissionVars, socketVars
<1>6. CASE \E m \in Members, p \in Phases, code \in FailCodes : SetAttemptPhase(m, p, code)
  <2>1. DisconnectRoom(number) \/ UNCHANGED <<admissionVars, socketVars>>
    BY <1>6 DEF SetAttemptPhase
  <2> QED
    BY <1>a, <1>c, <2>1 DEF admissionVars, socketVars
<1>7. CASE \/ \E m \in Members : LeaveTradeRoom(m) \/ RemoveOfflineMember(m)
           \/ CloseTradeRoom
  BY <1>7, <1>c DEF LeaveTradeRoom, RemoveOfflineMember, CloseTradeRoom
<1>8. CASE \E n \in 1..MaxAttempts : PeerLost(n)
  <2>1. PICK n \in 1..MaxAttempts : PeerLost(n)
    BY <1>8
  <2>2. Retire(n) \/ UNCHANGED admissionVars
    BY <2>1 DEF PeerLost
  <2>3. sessions' = sessions \ {n} /\ UNCHANGED retiring
    BY <2>1 DEF PeerLost
  <2>4. n \in 0..MaxAttempts
    OBVIOUS
  <2>5. CASE Retire(n)
    BY <1>b, <2>3, <2>4, <2>5
  <2>6. CASE UNCHANGED admissionVars
    BY <2>3, <2>6 DEF admissionVars
  <2> QED
    BY <2>2, <2>5, <2>6
<1>9. CASE \E late \in SUBSET Members, dLate \in BOOLEAN : SweepRequest(late, dLate)
  BY <1>9, <1>a, <1>c DEF SweepRequest, admissionVars, socketVars
<1>10. CASE \E n \in 0..MaxAttempts : FinishDisconnect(n)
  BY <1>10, <1>b DEF FinishDisconnect
<1>11. CASE Restart
  BY <1>11 DEF Restart, NoLaunches
<1> QED
  BY <1>1, <1>2, <1>3, <1>4, <1>5, <1>6, <1>7, <1>8, <1>9, <1>10, <1>11
     DEF AdmissionNext, ServeNext

(* Every step preserves the invariant.                                     *)
LEMMA AdmInvStep == AdmInv /\ [AdmissionNext]_allVars => AdmInv'
<1> SUFFICES ASSUME AdmInv, [AdmissionNext]_allVars PROVE AdmInv'
  OBVIOUS
<1> USE BoundsAssumption DEF AdmInv
<1>1. RoomInv' /\ EmptyBeforeCreate'
  BY StoreStep, RoomInvStep, EmptyBeforeCreateStep DEF RoomInv
<1>2. AdmissionTypeOK'
  BY AdmissionTypeStep
<1>3. /\ lastNumber <= lastNumber'
      /\ Open' /\ AttemptActive' => SameActive \/ NewNumber
  BY StoreStep, AttemptStep
<1>4. lastNumber \in Nat /\ lastNumber' \in Nat /\ number \in 0..lastNumber /\ number' \in 0..lastNumber'
  BY <1>1 DEF RoomInv, TypeOK
<1>5. NumbersUsed'
  <2>1. bound' \subseteq 1..lastNumber'
    <3>1. CASE KeepsBound
      BY <1>3, <1>4, <3>1 DEF KeepsBound, NumbersUsed
    <3>2. CASE Admits
      BY <1>3, <1>4, <3>2 DEF Admits, NumbersUsed
    <3> QED
      BY AdmissionStep, <3>1, <3>2
  <2>2. retiring' \subseteq 0..lastNumber'
    <3>1. retiring' \subseteq retiring \cup {0, number}
      BY RetiringStep
    <3> QED
      BY <1>3, <1>4, <3>1 DEF NumbersUsed
  <2> QED
    BY <2>1, <2>2 DEF NumbersUsed
<1>6. RetiringIsOver'
  <2> SUFFICES ASSUME Open', AttemptActive' PROVE number' \notin retiring'
    BY DEF RetiringIsOver
  <2>1. retiring' \subseteq retiring \cup {0}
    BY RetiringStep
  <2>2. number' # 0
    BY DEF AttemptActive
  <2>3. number' \notin retiring
    BY <1>3, <1>4 DEF SameActive, NewNumber, RetiringIsOver, NumbersUsed
  <2> QED
    BY <2>1, <2>2, <2>3
<1>7. BoundMeansBothProved'
  <2> SUFFICES ASSUME Open', AttemptActive', number' \in bound'
               PROVE  admitted' = number' /\ proofs' = Present'
    BY DEF BoundMeansBothProved
  <2>1. CASE KeepsBound
    <3>1. number' \in bound
      BY <2>1 DEF KeepsBound
    <3>2. SameActive
      BY <1>3, <1>4, <3>1 DEF NewNumber, NumbersUsed
    <3> QED
      BY <2>1, <3>1, <3>2 DEF SameActive, BoundMeansBothProved, KeepsBound
  <2>2. CASE Admits
    BY <2>2 DEF Admits
  <2> QED
    BY <2>1, <2>2, AdmissionStep
<1> QED
  BY <1>1, <1>2, <1>5, <1>6, <1>7

-----------------------------------------------------------------------------
(* Admission safety: the admission is well typed, and an attempt endpoints *)
(* may connect to was proved by both of the members it still has, through  *)
(* restarts of the relay and disconnects that finish late.                 *)
THEOREM AdmissionSafe == AdmissionSpec => []AdmissionIsProved
<1>1. AdmInv => AdmissionIsProved
  BY DEF AdmInv, AdmissionIsProved
<1> QED
  BY <1>1, AdmInvInit, AdmInvStep, PTL DEF AdmissionSpec

(* The HTTP layer implements the store: whatever its handlers add, forget  *)
(* at a restart or finish late, the room document only takes steps of      *)
(* AuthorityStore, so what is proved of the store holds behind it.         *)
THEOREM AdmissionImplementsStore == AdmissionSpec => Spec
<1>1. AdmissionInit => Init
  BY DEF AdmissionInit
<1> QED
  BY <1>1, StoreStep, PTL DEF AdmissionSpec, Spec

(* The room's own promises hold behind the HTTP layer as well.             *)
THEOREM AdmissionKeepsRoom == AdmissionSpec => []RoomIsConsistent
<1>1. AdmInv => RoomIsConsistent
  BY DEF AdmInv, RoomInv, OwnerStays, AttemptHasBoth, RoomIsConsistent,
         ActiveAttemptKeepsBothMembers, AttemptActive
<1> QED
  BY <1>1, AdmInvInit, AdmInvStep, PTL DEF AdmissionSpec

(* While D is closing, only the late disconnect of a whole room takes the  *)
(* admission away that the acknowledgements of the attempt need.           *)
THEOREM ClosingAdmissionKept == AdmissionSpec => ClosingKeepsAdmission
<1>1. AdmInv /\ [AdmissionNext]_allVars
        => [Closing /\ number \in bound /\ Closing' /\ number \notin bound'
              => 0 \in retiring \ retiring']_allVars
  <2> SUFFICES ASSUME AdmInv, AdmissionNext, Closing, number \in bound, Closing',
                      number \notin bound'
               PROVE  0 \in retiring \ retiring'
    OBVIOUS
  <2> USE DEF AdmInv
  <2>1. /\ AttemptActive /\ Open /\ phase = "closing" /\ number \in 0..MaxAttempts
        /\ Open' /\ phase' \notin TerminalPhases /\ number # 0
    BY DEF Closing, AttemptActive, TerminalPhases, AdmissionTypeOK
  <2>2. ASSUME UNCHANGED bound PROVE FALSE
    BY <2>2
  <2>3. CASE \/ OtherRoute
             \/ \E m \in Members, r \in {"creator", "finder"} : ReadyV2(m, r)
             \/ \E m \in Members : OpenTunnel(m)
             \/ \E m \in Members, o \in TerminalPhases : BeginDistributedD(m, o)
    BY <2>3 DEF OtherRoute, ReadyV2, OpenTunnel, BeginDistributedD, admissionVars
  <2>4. CASE \/ \E m \in Members : NotReadyV2(m) \/ LeaveTradeRoom(m) \/ RemoveOfflineMember(m)
             \/ CloseTradeRoom
    BY <2>1, <2>4 DEF NotReadyV2, NotReady, LeaveTradeRoom, Leave, RemoveOfflineMember,
       RemoveOffline, Vacate, CloseTradeRoom, Close, Open
  <2>5. CASE \E m \in Members, e \in {"clean", "dirty"} : AcknowledgeDistributedD(m, e)
    BY <2>1, <2>5 DEF AcknowledgeDistributedD, admissionVars
  <2>6. CASE \E m \in Members, p \in Phases, code \in FailCodes : SetAttemptPhase(m, p, code)
    BY <2>1, <2>6 DEF SetAttemptPhase, Phase, RefineFailure, vars, attemptVars, TerminalPhases,
       admissionVars
  <2>7. CASE \E n \in 1..MaxAttempts : PeerLost(n)
    BY <2>1, <2>7 DEF PeerLost, admissionVars
  <2>8. CASE \E late \in SUBSET Members, dLate \in BOOLEAN : SweepRequest(late, dLate)
    <3>1. PICK late \in SUBSET Members, dLate \in BOOLEAN : SweepRequest(late, dLate)
      BY <2>8
    <3>2. CASE DExpired(dLate)
      BY <2>1, <3>1, <3>2 DEF SweepRequest, Sweep, DExpired, RoomInv, TypeOK, TerminalPhases
    <3>3. CASE ~DExpired(dLate)
      BY <3>1, <3>3 DEF SweepRequest, admissionVars
    <3> QED
      BY <3>2, <3>3
  <2>9. CASE \E n \in 0..MaxAttempts : FinishDisconnect(n)
    <3>1. PICK n \in 0..MaxAttempts : FinishDisconnect(n)
      BY <2>9
    <3>2. n # number
      BY <2>1, <3>1 DEF FinishDisconnect, RetiringIsOver
    <3>3. n = 0
      BY <3>1, <3>2 DEF FinishDisconnect, Retire
    <3> QED
      BY <3>1, <3>3 DEF FinishDisconnect
  <2>10. CASE Restart
    BY <2>1, <2>10 DEF Restart, RelayRestart, ForceDBarrier, TerminalizeD, FailAttempt, RoomInv,
       TypeOK, Closing, TerminalPhases
  <2> QED
    BY <2>3, <2>4, <2>5, <2>6, <2>7, <2>8, <2>9, <2>10 DEF AdmissionNext, ServeNext
<1> QED
  BY <1>1, AdmInvInit, AdmInvStep, PTL DEF AdmissionSpec, ClosingKeepsAdmission

-----------------------------------------------------------------------------
(* Part 2.  The tunnel of an attempt: the relay's session and its two      *)
(* endpoints.  "p" is the seat that sends and "s" its peer that receives.  *)
(* A frame travels up[p], pending[p], down[s].                             *)

FrameKinds == {"NONE", "PEER_READY", "PROBE_CHALLENGE", "PROBE_RESPONSE", "ADVERTISEMENT",
               "SIDE_READY", "RFU", "PEER_CLOSE"}

Frames == [epoch : Nat, seq : Nat, kind : FrameKinds, body : Nat \cup (Nat \X Nat)]

GateSet == [epoch : Nat, next : Nat, retired : SUBSET Nat]

\* What the relay keeps and forwards are frames.
RelayShape ==
  /\ gates \in [Seats -> GateSet]
  /\ pending \in [Seats -> Frames]
  /\ retained \in [Seats -> Seq(Frames)]
  /\ up \in [Seats -> Seq(Frames)]
  /\ down \in [Seats -> Seq(Frames)]
  /\ losses \in Nat

RelayInv == RelayTypeOK /\ RelayShape /\ ReadinessIsCurrent

-----------------------------------------------------------------------------
(* Seats and frames.                                                       *)

LEMMA PeerIsOther ==
  \A s \in Seats : Peer(s) \in Seats /\ Peer(s) # s /\ Peer(Peer(s)) = s
BY DEF Seats, Peer

LEMMA EmptySeq == \A S : <<>> \in Seq(S) /\ Len(<<>>) = 0
OBVIOUS

LEMMA HeadAndTail ==
  ASSUME NEW S, NEW q \in Seq(S), q # <<>>
  PROVE  Head(q) \in S /\ Tail(q) \in Seq(S)
OBVIOUS

LEMMA NoFrameIsFrame == NoFrame \in Frames
BY DEF NoFrame, Frame, Frames, FrameKinds

\* A gate that has accepted a frame is a gate, and it is in the frame's epoch.
LEMMA AcceptedIsGate ==
  ASSUME NEW g \in GateSet, NEW f \in Frames
  PROVE  Accepted(g, f) \in GateSet /\ Accepted(g, f).epoch = f.epoch
BY DEF Accepted, ExpectedSeq, GateSet, Frames

-----------------------------------------------------------------------------
(* The relay, whatever its endpoints send.                                 *)

LEMMA RelayStarts == RelayInit => RelayInv
<1> SUFFICES ASSUME RelayInit PROVE RelayInv
  OBVIOUS
<1> USE DEF RelayInit, Each
<1>1. RelayTypeOK
  <2>1. \A s \in Seats : Len(retained[s]) <= RetainedFrames
    BY EmptySeq, TunnelAssumption
  <2> QED
    BY <2>1 DEF RelayTypeOK
<1>2. RelayShape
  <2>1. NewGate \in GateSet
    BY DEF NewGate, GateSet
  <2> QED
    BY <2>1, NoFrameIsFrame DEF RelayShape
<1>3. ReadinessIsCurrent
  BY DEF ReadinessIsCurrent
<1> QED
  BY <1>1, <1>2, <1>3 DEF RelayInv

LEMMA AcceptKeeps ==
  ASSUME RelayInv, NEW s \in Seats, NEW f \in Frames, Accept(s, f)
  PROVE  RelayInv'
<1> USE DEF RelayInv, RelayTypeOK, RelayShape, Accept
<1>1. down' \in [Seats -> Seq(Frames)] /\ up' \in [Seats -> Seq(Frames)]
  BY PeerIsOther
<1>2. generations' \in [Seats -> Nat]
  OBVIOUS
<1> QED
  BY <1>1, <1>2 DEF ReadinessIsCurrent

LEMMA ReplayFailsKeeps ==
  ASSUME RelayInv, NEW s \in Seats, ReplayFails(s)
  PROVE  RelayInv'
<1>1. RelayShape'
  <2>1. losses' \in Nat
    BY DEF RelayInv, RelayShape, ReplayFails
  <2>2. UNCHANGED <<gates, pending, retained, up, down>>
    BY DEF ReplayFails
  <2> QED
    BY <2>1, <2>2 DEF RelayInv, RelayShape
<1>2. RelayTypeOK'
  <2>1. generations' \in [Seats -> Nat]
    BY DEF RelayInv, RelayTypeOK, ReplayFails
  <2>2. UNCHANGED <<session, peers, handlers, sideReady, advertised, expiries, retained>>
    BY DEF ReplayFails
  <2> QED
    BY <2>1, <2>2 DEF RelayInv, RelayTypeOK
<1>3. ReadinessIsCurrent'
  BY DEF RelayInv, ReadinessIsCurrent, ReplayFails
<1> QED
  BY <1>1, <1>2, <1>3 DEF RelayInv

LEMMA TakeKeeps ==
  ASSUME RelayInv, NEW s \in Seats, Take(s)
  PROVE  RelayInv'
<1>1. Head(up[s]) \in Frames /\ Tail(up[s]) \in Seq(Frames)
  BY HeadAndTail DEF RelayInv, RelayShape, Take
<1> QED
  BY <1>1 DEF RelayInv, RelayTypeOK, RelayShape, ReadinessIsCurrent, Take, sessionVars

LEMMA RejectKeeps ==
  ASSUME RelayInv, NEW s \in Seats, Reject(s)
  PROVE  RelayInv'
<1>0. retained' = [x \in Seats |-> <<>>]
  BY DEF Reject, EndSession, Each
<1>1. \A x \in Seats : Len(retained'[x]) <= RetainedFrames
  BY <1>0, EmptySeq, TunnelAssumption
<1> USE DEF RelayInv, RelayTypeOK, RelayShape, Reject, EndSession, Each
<1>2. retained' \in [Seats -> Seq(Frames)] /\ up' \in [Seats -> Seq(Frames)]
  BY EmptySeq
<1>3. pending' \in [Seats -> Frames]
  BY NoFrameIsFrame
<1>4. handlers' \in [Seats -> {"none", "serving", "failing"}] /\ peers' \in [Seats -> BOOLEAN]
  OBVIOUS
<1>5. ReadinessIsCurrent'
  BY DEF ReadinessIsCurrent
<1> QED
  BY <1>1, <1>2, <1>3, <1>4, <1>5

LEMMA RevokedEndsKeeps ==
  ASSUME RelayInv, NEW s \in Seats, RevokedEnds(s)
  PROVE  RelayInv'
<1>1. RelayShape'
  BY DEF RelayInv, RelayShape, RevokedEnds, sessionVars
<1>2. RelayTypeOK'
  BY DEF RelayInv, RelayShape, RelayTypeOK, RevokedEnds, sessionVars
<1>3. ReadinessIsCurrent'
  BY DEF RelayInv, ReadinessIsCurrent, RevokedEnds, sessionVars
<1> QED
  BY <1>1, <1>2, <1>3 DEF RelayInv

LEMMA ExpirePeerKeeps ==
  ASSUME RelayInv, NEW s \in Seats, NEW g, ExpirePeer(s, g)
  PROVE  RelayInv'
<1>1. RelayShape'
  BY DEF RelayInv, RelayShape, ExpirePeer, Each
<1>2. RelayTypeOK'
  BY TunnelAssumption DEF RelayInv, RelayShape, RelayTypeOK, ExpirePeer, Each
<1>3. ReadinessIsCurrent'
  BY DEF RelayInv, ReadinessIsCurrent, ExpirePeer, Each
<1> QED
  BY <1>1, <1>2, <1>3 DEF RelayInv

LEMMA ProcessKeeps ==
  ASSUME RelayInv, NEW s \in Seats, Process(s)
  PROVE  RelayInv'
<1> DEFINE f == pending[s]
           kept == IF f.kind \in Retainable THEN <<f>> ELSE <<>>
<1> USE DEF RelayInv, RelayTypeOK, RelayShape
<1>1. f \in Frames /\ gates[s] \in GateSet /\ Peer(s) \in Seats
  BY PeerIsOther
<1>2. RetainedBefore(s, f) \in Seq(Frames) /\ Len(RetainedBefore(s, f)) <= RetainedFrames
  BY <1>1, TunnelAssumption DEF RetainedBefore
<1>3. f.kind \in Retainable => Len(RetainedBefore(s, f)) < RetainedFrames
  <2> SUFFICES ASSUME f.kind \in Retainable, ~(Len(RetainedBefore(s, f)) < RetainedFrames)
               PROVE  FALSE
    OBVIOUS
  <2>1. Len(RetainedBefore(s, f)) >= RetainedFrames
    BY <1>2, TunnelAssumption
  <2>2. f.kind \notin {"SIDE_READY", "RFU"}
    BY DEF Retainable
  <2>3. FrameError(s, f) # ""
    BY <2>1, <2>2 DEF FrameError
  <2> QED
    BY <2>3 DEF Process
<1>4. /\ RetainedBefore(s, f) \o kept \in Seq(Frames)
      /\ Len(RetainedBefore(s, f) \o kept) <= RetainedFrames
  BY <1>1, <1>2, <1>3, TunnelAssumption
<1>5. retained' = [retained EXCEPT ![s] = RetainedBefore(s, f) \o kept]
  BY DEF Process
<1>6. /\ retained' \in [Seats -> Seq(Frames)]
      /\ \A x \in Seats : Len(retained'[x]) <= RetainedFrames
  BY <1>4, <1>5
<1>7. gates' = [gates EXCEPT ![s] = Accepted(gates[s], f)]
  BY <1>1 DEF Process
<1>8. gates' \in [Seats -> GateSet] /\ gates'[s].epoch = f.epoch
  BY <1>1, <1>7, AcceptedIsGate
<1>9. sideReady' = [sideReady EXCEPT ![s] = IF f.kind = "SIDE_READY" THEN f.epoch
                      ELSE IF f.epoch # gates[s].epoch THEN 0 ELSE sideReady[s]]
  BY DEF Process, RecordReadiness
<1>10. f.epoch \in Nat
  BY <1>1 DEF Frames
<1>11. sideReady' \in [Seats -> Nat]
  BY <1>9, <1>10
<1>12. ReadinessIsCurrent'
  <2> SUFFICES ASSUME NEW x \in Seats PROVE sideReady'[x] \in {0, gates'[x].epoch}
    BY DEF ReadinessIsCurrent
  <2>1. CASE x = s
    BY <2>1, <1>8, <1>9 DEF ReadinessIsCurrent
  <2>2. CASE x # s
    BY <2>2, <1>7, <1>9 DEF ReadinessIsCurrent
  <2> QED
    BY <2>1, <2>2
<1>13. down' \in [Seats -> Seq(Frames)]
  <2>1. Append(down[Peer(s)], f) \in Seq(Frames)
    BY <1>1
  <2>2. \/ down' = [down EXCEPT ![Peer(s)] = Append(down[Peer(s)], f)]
        \/ down' = down
    BY DEF Process
  <2> QED
    BY <2>1, <2>2
<1>14. pending' \in [Seats -> Frames]
  BY NoFrameIsFrame DEF Process
<1>15. handlers' \in [Seats -> {"none", "serving", "failing"}] /\ losses' \in Nat
  <2>1. \/ UNCHANGED <<handlers, losses>>
        \/ handlers' = [handlers EXCEPT ![s] = "failing"] /\ losses' = losses + 1
    BY DEF Process
  <2>2. handlers \in [Seats -> {"none", "serving", "failing"}] /\ losses \in Nat
    OBVIOUS
  <2>3. CASE UNCHANGED <<handlers, losses>>
    BY <2>2, <2>3
  <2>4. CASE handlers' = [handlers EXCEPT ![s] = "failing"] /\ losses' = losses + 1
    BY <2>2, <2>4
  <2> QED
    BY <2>1, <2>3, <2>4
<1>16. /\ UNCHANGED <<session, peers, generations, expiries, up>>
       /\ advertised' \in BOOLEAN
  BY DEF Process
<1> QED
  BY <1>6, <1>8, <1>11, <1>12, <1>13, <1>14, <1>15, <1>16

LEMMA ResetKeeps ==
  ASSUME RelayInv, NEW s \in Seats, Reset(s), losses' \in Nat
  PROVE  RelayInv'
<1> DEFINE close == Frame(gates[s].epoch, gates[s].next, "PEER_CLOSE", 0)
<1> USE DEF RelayInv, RelayTypeOK, RelayShape
<1>1. gates[s] \in GateSet /\ Peer(s) \in Seats
  BY PeerIsOther
<1>2. close \in Frames /\ close.epoch = gates[s].epoch
  BY <1>1 DEF GateSet, Frame, Frames, FrameKinds
<1>3. Accepted(gates[s], close) \in GateSet
  BY <1>1, <1>2, AcceptedIsGate
<1>4. gates' \in [Seats -> GateSet] /\ down' \in [Seats -> Seq(Frames)]
  <2>1. CASE /\ gates' = [gates EXCEPT ![s] = Accepted(@, close)]
             /\ down' = [down EXCEPT ![Peer(s)] = Append(@, close)]
    BY <2>1, <1>1, <1>2, <1>3
  <2>2. CASE UNCHANGED <<gates, down>>
    BY <2>2
  <2> QED
    BY <2>1, <2>2 DEF Reset
<1>5. expiries' \subseteq Seats \X Nat
  <2>1. ExpireTargets(s) \subseteq Seats \X Nat
    BY <1>1 DEF ExpireTargets
  <2> QED
    BY <2>1 DEF Reset
<1>6. /\ peers' = Each(FALSE) /\ retained' = Each(<<>>) /\ sideReady' = Each(0)
      /\ handlers' = [handlers EXCEPT ![s] = "none"] /\ up' = [up EXCEPT ![s] = <<>>]
      /\ UNCHANGED <<session, generations, advertised, pending>>
  BY DEF Reset
<1>7. ReadinessIsCurrent'
  BY <1>6 DEF ReadinessIsCurrent, Each
<1> QED
  BY <1>4, <1>5, <1>6, <1>7, TunnelAssumption DEF Each

LEMMA RelaySteps == RelayInv /\ [AnyEndpointNext]_relayVars => RelayInv'
<1> SUFFICES ASSUME RelayInv, [AnyEndpointNext]_relayVars PROVE RelayInv'
  OBVIOUS
<1>1. ASSUME NEW s \in Seats, Accept(s, Frame(generations[s] + 1, 0, "PEER_READY", 0))
      PROVE  RelayInv'
  <2>1. Frame(generations[s] + 1, 0, "PEER_READY", 0) \in Frames
    BY DEF RelayInv, RelayTypeOK, Frame, Frames, FrameKinds
  <2> QED
    BY <1>1, <2>1, AcceptKeeps
<1>2. ASSUME NEW s \in Seats, AnySends(s) PROVE RelayInv'
  <2>1. PICK k \in AnyKinds :
          up' = [up EXCEPT ![s] = <<Frame(gates[s].epoch, gates[s].next, k, 0)>>]
    BY <1>2 DEF AnySends
  <2>2. Frame(gates[s].epoch, gates[s].next, k, 0) \in Frames
    <3>1. gates[s].epoch \in Nat /\ gates[s].next \in Nat
      BY DEF RelayInv, RelayShape, GateSet
    <3> QED
      BY <3>1 DEF AnyKinds, Frame, Frames, FrameKinds
  <2>3. up' \in [Seats -> Seq(Frames)]
    BY <2>1, <2>2 DEF RelayInv, RelayShape
  <2> QED
    BY <1>2, <2>3 DEF AnySends, RelayInv, RelayTypeOK, RelayShape, ReadinessIsCurrent, sessionVars
<1>3. ASSUME NEW s \in Seats, AnyReads(s) PROVE RelayInv'
  <2>1. Tail(down[s]) \in Seq(Frames)
    BY <1>3, HeadAndTail DEF AnyReads, RelayInv, RelayShape
  <2> QED
    BY <1>3, <2>1 DEF AnyReads, RelayInv, RelayTypeOK, RelayShape, ReadinessIsCurrent, sessionVars
<1>4. ASSUME NEW s \in Seats, AnyLost(s) \/ (Reset(s) /\ UNCHANGED losses) PROVE RelayInv'
  <2>1. Reset(s) /\ losses' \in Nat
    BY <1>4 DEF AnyLost, RelayInv, RelayShape
  <2> QED
    BY <2>1, ResetKeeps
<1>5. ASSUME NEW s \in Seats, RelayStep(s) \/ ReplayFails(s) PROVE RelayInv'
  BY <1>5, TakeKeeps, ProcessKeeps, RejectKeeps, RevokedEndsKeeps, ReplayFailsKeeps DEF RelayStep
<1>6. ASSUME NEW s \in Seats, NEW g, ExpirePeer(s, g) PROVE RelayInv'
  BY <1>6, ExpirePeerKeeps
<1>7. CASE UNCHANGED relayVars
  BY <1>7 DEF relayVars, sessionVars, RelayInv, RelayTypeOK, RelayShape, ReadinessIsCurrent
<1> QED
  BY <1>1, <1>2, <1>3, <1>4, <1>5, <1>6, <1>7 DEF AnyEndpointNext

\* Whatever admitted endpoints send, over any number of losses and failed replays, the
\* relay's readiness is that of the current epoch and its retention is bounded
\* (reset_connection, _process_v2_frame).
THEOREM RelayConsistent == AnyEndpointSpec => []RelayIsConsistent
<1>1. AnyEndpointSpec => []RelayInv
  BY RelayStarts, RelaySteps, PTL DEF AnyEndpointSpec
<1>2. RelayInv => RelayIsConsistent
  BY DEF RelayInv, RelayIsConsistent
<1> QED
  BY <1>1, <1>2, PTL

\* A reconnect deadline ends the session only when the seat it was started for has not
\* been back since (_expire_v2_peer).
THEOREM DeadlineForLostConnection == AnyEndpointSpec => DeadlineIsForTheLostConnection
<1>1. ASSUME [AnyEndpointNext]_relayVars, session = "live", session' = "ended", expiries' # expiries
      PROVE  \E s \in Seats : <<s, generations[s]>> \in expiries \ expiries'
  <2>1. \E s \in Seats : \E g : ExpirePeer(s, g)
    BY <1>1 DEF AnyEndpointNext, Accept, AnySends, AnyReads, AnyLost, Reset, RelayStep, Take, Process,
                Reject, EndSession, RevokedEnds, ReplayFails, relayVars, sessionVars
  <2>2. PICK s \in Seats : \E g : ExpirePeer(s, g)
    BY <2>1
  <2> QED
    BY <2>2 DEF ExpirePeer, StillLost
<1> QED
  BY <1>1, PTL DEF AnyEndpointSpec, DeadlineIsForTheLostConnection

-----------------------------------------------------------------------------
(* What the endpoints keep.                                                *)
Errors ==
  {"", "C_EPOCH_STALE", "C_EPOCH_START_INVALID", "C_SEQUENCE_DUPLICATE", "C_SEQUENCE_GAP",
   "C_PEER_READY_DUPLICATE", "C_PROBE_MISMATCH", "C_ADVERTISEMENT_EARLY",
   "C_AUTHENTICATION_FAILED"}

BridgeErrors ==
  Errors \cup {"C_SIDE_READY_SEND_FAILED", "C_SIDE_READY_DUPLICATE", "C_RFU_EARLY",
               "C_RFU_BACKPRESSURE"}

Bodies == Nat \cup (Nat \X Nat)

Clients ==
  [up : BOOLEAN, epoch : Nat, seq : Nat, gate : GateSet, challenge : Nat \X Nat,
   returned : BOOLEAN, answered : BOOLEAN, proven : BOOLEAN, proof : Nat,
   advertisement : BOOLEAN, sideSent : Nat, error : Errors]

Bridges ==
  [pc : {"sync", "ready", "poll", "drain"}, proof : Nat, localSent : Nat,
   peerKey : Nat \X Bodies, connected : BOOLEAN, rfuActive : BOOLEAN,
   tx : Nat, rx : Nat, failure : BridgeErrors]

Notes == [kind : FrameKinds, body : Nat]

\* What the endpoints keep: records and queues of the right shape.
ClientShape ==
  /\ client \in [Seats -> Clients]
  /\ outbox \in [Seats -> Seq(Notes)] /\ inbox \in [Seats -> Seq(Frames)]

BridgeShape ==
  /\ stage \in [Seats -> {"connecting", "advertisement", "bridge", "failed"}]
  /\ bridge \in [Seats -> Bridges] /\ batch \in [Seats -> Seq(Frames)]
  /\ unsent \in [Seats -> Seq(Nat)] /\ offered \in [Seats -> Nat]
  /\ received \in [Seats -> Seq(Bodies)]

TypeInv == RelayInv /\ ClientShape /\ BridgeShape

-----------------------------------------------------------------------------
(* Frames and the client's records.                                        *)

LEMMA FrameFields ==
  ASSUME NEW f \in Frames
  PROVE  f.epoch \in Nat /\ f.seq \in Nat /\ f.kind \in FrameKinds /\ f.body \in Bodies
BY DEF Frames, Bodies

LEMMA GatedIsClient ==
  ASSUME TypeInv, NEW s \in Seats, NEW f \in Frames
  PROVE  /\ Gated(s, f) \in Clients
         /\ Gated(s, f) = [client[s] EXCEPT !.gate = Gated(s, f).gate]
         /\ Gated(s, f).gate.epoch = f.epoch
<1>1. client[s] \in Clients
  BY DEF TypeInv, ClientShape
<1>2. client[s].gate \in GateSet
  BY <1>1 DEF Clients
<1> DEFINE g == Accepted(client[s].gate, f)
<1>3. g \in GateSet /\ g.epoch = f.epoch
  BY <1>2, AcceptedIsGate
<1>4. Gated(s, f) = [client[s] EXCEPT !.gate = g]
  BY DEF Gated
<1> HIDE DEF g
<1>5. [client[s] EXCEPT !.gate = g] \in Clients /\ [client[s] EXCEPT !.gate = g].gate = g
  BY <1>1, <1>3 DEF Clients
<1> QED
  BY <1>3, <1>4, <1>5

LEMMA ProvedIsClient ==
  ASSUME NEW c \in Clients
  PROVE  Proved(c) \in Clients
<1>1. c.proof + 1 \in Nat
  BY DEF Clients
<1>2. \A n \in Nat : [c EXCEPT !.proven = TRUE, !.proof = n] \in Clients
  BY DEF Clients
<1> QED
  BY <1>1, <1>2 DEF Proved

\* What Proved leaves alone and when it proves.
LEMMA ProvedFields ==
  ASSUME NEW c \in Clients
  PROVE  LET n == Proved(c) IN
         /\ n.up = c.up /\ n.epoch = c.epoch /\ n.gate = c.gate /\ n.challenge = c.challenge
         /\ n.returned = c.returned /\ n.answered = c.answered /\ n.sideSent = c.sideSent
         /\ n.error = c.error /\ n.advertisement = c.advertisement
         /\ n.proven <=> c.proven \/ (c.returned /\ c.answered)
         /\ n.proof = IF n.proven /\ ~c.proven THEN c.proof + 1 ELSE c.proof
<1>1. CASE c.returned /\ c.answered /\ ~c.proven
  <2>1. Proved(c) = [c EXCEPT !.proven = TRUE, !.proof = c.proof + 1]
    BY <1>1 DEF Proved
  <2> QED
    BY <1>1, <2>1 DEF Clients
<1>2. CASE ~(c.returned /\ c.answered /\ ~c.proven)
  <2>1. Proved(c) = c
    BY <1>2 DEF Proved
  <2> QED
    BY <1>2, <2>1 DEF Clients
<1> QED
  BY <1>1, <1>2

\* A new epoch of the peer restarts the proof, its first one or a known one does not.
Again(s, f) == client[s].gate.epoch \notin {0, f.epoch}

LEMMA PeerReadyEffect ==
  ASSUME TypeInv, NEW s \in Seats, NEW f \in Frames, OnPeerReady(s, f)
  PROVE  LET c == client[s] n == client'[s] IN
         /\ n \in Clients /\ client' = [client EXCEPT ![s] = n]
         /\ n.up = c.up /\ n.sideSent = c.sideSent /\ n.error = c.error
         /\ n.advertisement = c.advertisement
         /\ n.gate.epoch = f.epoch /\ n.challenge = <<n.epoch, f.epoch>>
         /\ Again(s, f) => n.epoch = c.epoch + 1 /\ ~n.returned /\ ~n.answered /\ ~n.proven
                           /\ n.proof = c.proof
         /\ ~Again(s, f) => /\ n.epoch = c.epoch /\ n.returned = c.returned
                            /\ n.answered = c.answered
                            /\ n.proven <=> c.proven \/ (c.returned /\ c.answered)
                            /\ n.proof = IF n.proven /\ ~c.proven THEN c.proof + 1 ELSE c.proof
         /\ \E i \in Nat :
              up' = Sent(s, (IF Again(s, f) THEN <<Frame(n.epoch, 0, "PEER_READY", 0)>> ELSE <<>>) \o
                            <<Frame(n.epoch, i, "PROBE_CHALLENGE", n.challenge)>>)
<1> DEFINE c == client[s]
           c0 == Gated(s, f)
           c1 == IF Again(s, f)
                 THEN [c0 EXCEPT !.epoch = @ + 1, !.seq = 1, !.proven = FALSE,
                                 !.returned = FALSE, !.answered = FALSE] ELSE c0
           probe == <<c1.epoch, f.epoch>>
           c2 == [c1 EXCEPT !.challenge = probe, !.seq = @ + 1]
           n == Proved(c2)
<1>1. /\ client' = [client EXCEPT ![s] = n]
      /\ up' = Sent(s, (IF Again(s, f) THEN <<Frame(c1.epoch, 0, "PEER_READY", 0)>> ELSE <<>>) \o
                       <<Frame(c1.epoch, c1.seq, "PROBE_CHALLENGE", probe)>>)
  BY DEF OnPeerReady, Again
<1>2. client'[s] = n
  BY <1>1 DEF TypeInv, ClientShape
<1>3. /\ c0 \in Clients /\ c0 = [c EXCEPT !.gate = c0.gate] /\ c0.gate.epoch = f.epoch
      /\ c \in Clients
  BY GatedIsClient DEF TypeInv, ClientShape
<1> HIDE DEF c0
<1>4. /\ c0.up = c.up /\ c0.epoch = c.epoch /\ c0.challenge = c.challenge
      /\ c0.returned = c.returned /\ c0.answered = c.answered /\ c0.sideSent = c.sideSent
      /\ c0.proven = c.proven /\ c0.proof = c.proof /\ c0.error = c.error
      /\ c0.advertisement = c.advertisement
  BY <1>3 DEF Clients
<1>5. /\ c1 \in Clients /\ c1.gate = c0.gate /\ c1.up = c0.up /\ c1.sideSent = c0.sideSent
      /\ c1.proof = c0.proof /\ c1.error = c0.error /\ c1.advertisement = c0.advertisement
      /\ Again(s, f) => c1.epoch = c0.epoch + 1 /\ ~c1.returned /\ ~c1.answered /\ ~c1.proven
      /\ ~Again(s, f) => c1 = c0
  <2> HIDE DEF c
  <2>1. c0.epoch + 1 \in Nat
    BY <1>3 DEF Clients
  <2>2. \A e \in Nat : LET x == [c0 EXCEPT !.epoch = e, !.seq = 1, !.proven = FALSE,
                                         !.returned = FALSE, !.answered = FALSE] IN
          /\ x \in Clients /\ x.gate = c0.gate /\ x.up = c0.up /\ x.sideSent = c0.sideSent
          /\ x.proof = c0.proof /\ x.error = c0.error /\ x.epoch = e
          /\ x.advertisement = c0.advertisement
          /\ ~x.returned /\ ~x.answered /\ ~x.proven
    BY <1>3 DEF Clients
  <2>3. CASE Again(s, f)
    BY <2>1, <2>2, <2>3
  <2>4. CASE ~Again(s, f)
    BY <2>4, <1>3
  <2> QED
    BY <2>3, <2>4
<1> HIDE DEF c1, c
<1>6. /\ c2 \in Clients /\ c2.gate = c1.gate /\ c2.up = c1.up /\ c2.sideSent = c1.sideSent
      /\ c2.proof = c1.proof /\ c2.error = c1.error /\ c2.epoch = c1.epoch
      /\ c2.returned = c1.returned /\ c2.answered = c1.answered /\ c2.proven = c1.proven
      /\ c2.challenge = probe /\ c2.advertisement = c1.advertisement
  <2>1. f.epoch \in Nat
    BY FrameFields
  <2>2. probe \in Nat \X Nat /\ c1.seq + 1 \in Nat
    BY <2>1, <1>5 DEF Clients
  <2>3. \A b \in Nat \X Nat, q \in Nat : LET x == [c1 EXCEPT !.challenge = b, !.seq = q] IN
          /\ x \in Clients /\ x.gate = c1.gate /\ x.up = c1.up /\ x.sideSent = c1.sideSent
          /\ x.proof = c1.proof /\ x.error = c1.error /\ x.epoch = c1.epoch
          /\ x.returned = c1.returned /\ x.answered = c1.answered /\ x.proven = c1.proven
          /\ x.challenge = b /\ x.advertisement = c1.advertisement
    BY <1>5 DEF Clients
  <2> QED
    BY <2>2, <2>3
<1> HIDE DEF c2
<1>7. /\ n \in Clients /\ n.up = c2.up /\ n.epoch = c2.epoch /\ n.gate = c2.gate
      /\ n.challenge = c2.challenge /\ n.error = c2.error /\ n.advertisement = c2.advertisement
      /\ n.returned = c2.returned /\ n.answered = c2.answered /\ n.sideSent = c2.sideSent
      /\ n.proven <=> c2.proven \/ (c2.returned /\ c2.answered)
      /\ n.proof = IF n.proven /\ ~c2.proven THEN c2.proof + 1 ELSE c2.proof
  BY <1>6, ProvedIsClient, ProvedFields
<1> HIDE DEF n
<1>8. c1.seq \in Nat
  BY <1>5 DEF Clients
<1>9. up' = Sent(s, (IF Again(s, f) THEN <<Frame(n.epoch, 0, "PEER_READY", 0)>> ELSE <<>>) \o
                    <<Frame(n.epoch, c1.seq, "PROBE_CHALLENGE", n.challenge)>>)
  BY <1>1, <1>6, <1>7
<1>10. /\ n \in Clients /\ client' = [client EXCEPT ![s] = n] /\ client'[s] = n
       /\ n.up = c.up /\ n.sideSent = c.sideSent /\ n.error = c.error
       /\ n.advertisement = c.advertisement
       /\ n.gate.epoch = f.epoch /\ n.challenge = <<n.epoch, f.epoch>>
  BY <1>1, <1>2, <1>3, <1>4, <1>5, <1>6, <1>7
<1>11. CASE Again(s, f)
  <2>1. n.epoch = c.epoch + 1 /\ ~n.returned /\ ~n.answered /\ ~n.proven /\ n.proof = c.proof
    BY <1>11, <1>4, <1>5, <1>6, <1>7
  <2> QED
    BY <1>8, <1>9, <1>10, <1>11, <2>1 DEF c
<1>12. CASE ~Again(s, f)
  <2>1. /\ n.epoch = c.epoch /\ n.returned = c.returned /\ n.answered = c.answered
        /\ n.proven <=> c.proven \/ (c.returned /\ c.answered)
        /\ n.proof = IF n.proven /\ ~c.proven THEN c.proof + 1 ELSE c.proof
    BY <1>12, <1>4, <1>5, <1>6, <1>7
  <2> QED
    BY <1>8, <1>9, <1>10, <1>12, <2>1 DEF c
<1> QED
  BY <1>11, <1>12

\* What every accepted frame leaves alone in its client.
SameConnection(c, n) ==
  n.up = c.up /\ n.epoch = c.epoch /\ n.sideSent = c.sideSent /\ n.error = c.error

LEMMA ChallengeEffect ==
  ASSUME TypeInv, NEW s \in Seats, NEW f \in Frames, OnChallenge(s, f)
  PROVE  LET c == client[s] n == client'[s] IN
         /\ n \in Clients /\ client' = [client EXCEPT ![s] = n] /\ SameConnection(c, n)
         /\ n.gate.epoch = f.epoch /\ n.challenge = c.challenge
         /\ n.returned = c.returned /\ n.answered /\ n.advertisement = c.advertisement
         /\ n.proven <=> c.proven \/ c.returned
         /\ n.proof = IF n.proven /\ ~c.proven THEN c.proof + 1 ELSE c.proof
         /\ up' = Sent(s, <<Frame(c.epoch, c.seq, "PROBE_RESPONSE", f.body)>>)
<1> DEFINE c == client[s]
           c0 == Gated(s, f)
           c1 == [c0 EXCEPT !.answered = TRUE, !.seq = @ + 1]
           n == Proved(c1)
<1>1. client' = [client EXCEPT ![s] = n] /\ client'[s] = n
  BY DEF OnChallenge, TypeInv, ClientShape
<1>2. /\ c0 \in Clients /\ c0 = [c EXCEPT !.gate = c0.gate] /\ c0.gate.epoch = f.epoch
      /\ c \in Clients
  BY GatedIsClient DEF TypeInv, ClientShape
<1> HIDE DEF c0
<1>3. /\ SameConnection(c, c0) /\ c0.challenge = c.challenge /\ c0.returned = c.returned
      /\ c0.advertisement = c.advertisement /\ c0.proven = c.proven /\ c0.proof = c.proof
  BY <1>2 DEF Clients, SameConnection
<1>4. /\ c1 \in Clients /\ c1.gate = c0.gate /\ SameConnection(c0, c1)
      /\ c1.challenge = c0.challenge /\ c1.returned = c0.returned /\ c1.answered
      /\ c1.proven = c0.proven /\ c1.proof = c0.proof /\ c1.advertisement = c0.advertisement
  <2>1. c0.seq + 1 \in Nat
    BY <1>2 DEF Clients
  <2>2. \A q \in Nat : LET x == [c0 EXCEPT !.answered = TRUE, !.seq = q] IN
          /\ x \in Clients /\ x.gate = c0.gate /\ SameConnection(c0, x)
          /\ x.challenge = c0.challenge /\ x.returned = c0.returned /\ x.answered
          /\ x.proven = c0.proven /\ x.proof = c0.proof /\ x.advertisement = c0.advertisement
    BY <1>2 DEF Clients, SameConnection
  <2> QED
    BY <2>1, <2>2
<1> HIDE DEF c1
<1>5. /\ n \in Clients /\ SameConnection(c1, n) /\ n.gate = c1.gate /\ n.challenge = c1.challenge
      /\ n.returned = c1.returned /\ n.answered = c1.answered /\ n.advertisement = c1.advertisement
      /\ n.proven <=> c1.proven \/ (c1.returned /\ c1.answered)
      /\ n.proof = IF n.proven /\ ~c1.proven THEN c1.proof + 1 ELSE c1.proof
  BY <1>4, ProvedIsClient, ProvedFields DEF SameConnection
<1>6. up' = Sent(s, <<Frame(c.epoch, c.seq, "PROBE_RESPONSE", f.body)>>)
  BY DEF OnChallenge
<1> HIDE DEF n, c
<1>7. SameConnection(c, n)
  BY <1>3, <1>4, <1>5 DEF SameConnection
<1>8. /\ n.gate.epoch = f.epoch /\ n.challenge = c.challenge
      /\ n.returned = c.returned /\ n.answered /\ n.advertisement = c.advertisement
      /\ n.proven <=> c.proven \/ c.returned
      /\ n.proof = IF n.proven /\ ~c.proven THEN c.proof + 1 ELSE c.proof
  BY <1>2, <1>3, <1>4, <1>5
<1> QED
  BY <1>1, <1>5, <1>6, <1>7, <1>8 DEF c

\* The own challenge came back.
OwnResponse(s, f) ==
  /\ f.body = client[s].challenge /\ f.body # NoChallenge
  /\ client' = [client EXCEPT ![s] = Proved([Gated(s, f) EXCEPT !.returned = TRUE])]
  /\ UNCHANGED <<up, inbox>>

LEMMA ResponseEffect ==
  ASSUME TypeInv, NEW s \in Seats, NEW f \in Frames, OwnResponse(s, f)
  PROVE  LET c == client[s] n == client'[s] IN
         /\ n \in Clients /\ client' = [client EXCEPT ![s] = n] /\ SameConnection(c, n)
         /\ n.gate.epoch = f.epoch /\ n.challenge = c.challenge
         /\ n.returned /\ n.answered = c.answered /\ n.advertisement = c.advertisement
         /\ n.proven <=> c.proven \/ c.answered
         /\ n.proof = IF n.proven /\ ~c.proven THEN c.proof + 1 ELSE c.proof
<1> DEFINE c == client[s]
           c0 == Gated(s, f)
           c1 == [c0 EXCEPT !.returned = TRUE]
           n == Proved(c1)
<1>1. client' = [client EXCEPT ![s] = n] /\ client'[s] = n
  BY DEF OwnResponse, TypeInv, ClientShape
<1>2. /\ c0 \in Clients /\ c0 = [c EXCEPT !.gate = c0.gate] /\ c0.gate.epoch = f.epoch
      /\ c \in Clients
  BY GatedIsClient DEF TypeInv, ClientShape
<1> HIDE DEF c0
<1>3. /\ SameConnection(c, c0) /\ c0.challenge = c.challenge /\ c0.answered = c.answered
      /\ c0.advertisement = c.advertisement /\ c0.proven = c.proven /\ c0.proof = c.proof
  BY <1>2 DEF Clients, SameConnection
<1>4. /\ c1 \in Clients /\ c1.gate = c0.gate /\ SameConnection(c0, c1)
      /\ c1.challenge = c0.challenge /\ c1.answered = c0.answered /\ c1.returned
      /\ c1.advertisement = c0.advertisement /\ c1.proven = c0.proven /\ c1.proof = c0.proof
  BY <1>2 DEF Clients, SameConnection
<1> HIDE DEF c1
<1>5. /\ n \in Clients /\ SameConnection(c1, n) /\ n.gate = c1.gate /\ n.challenge = c1.challenge
      /\ n.returned = c1.returned /\ n.answered = c1.answered /\ n.advertisement = c1.advertisement
      /\ n.proven <=> c1.proven \/ (c1.returned /\ c1.answered)
      /\ n.proof = IF n.proven /\ ~c1.proven THEN c1.proof + 1 ELSE c1.proof
  BY <1>4, ProvedIsClient, ProvedFields DEF SameConnection
<1> HIDE DEF n, c
<1>6. SameConnection(c, n)
  BY <1>3, <1>4, <1>5 DEF SameConnection
<1>7. /\ n.gate.epoch = f.epoch /\ n.challenge = c.challenge
      /\ n.returned /\ n.answered = c.answered /\ n.advertisement = c.advertisement
      /\ n.proven <=> c.proven \/ c.answered
      /\ n.proof = IF n.proven /\ ~c.proven THEN c.proof + 1 ELSE c.proof
  BY <1>2, <1>3, <1>4, <1>5
<1> QED
  BY <1>1, <1>5, <1>6, <1>7 DEF c

\* The socket is given up.
Dropped(s) ==
  /\ \E e \in Errors : Disconnected(s, e)
  /\ down' = [down EXCEPT ![s] = <<>>]
  /\ UNCHANGED <<up, inbox>>

LEMMA DroppedEffect ==
  ASSUME TypeInv, NEW s \in Seats, Dropped(s)
  PROVE  LET c == client[s] n == client'[s] IN
         /\ n \in Clients /\ client' = [client EXCEPT ![s] = n]
         /\ ~n.up /\ ~n.proven /\ n.epoch = c.epoch /\ n.sideSent = c.sideSent
         /\ n.gate = c.gate /\ n.challenge = c.challenge
         /\ n.returned = c.returned /\ n.answered = c.answered /\ n.proof = c.proof
         /\ n.advertisement = c.advertisement
<1>1. PICK e \in Errors : Disconnected(s, e)
  BY DEF Dropped
<1> DEFINE n == [client[s] EXCEPT !.up = FALSE, !.proven = FALSE, !.error = e]
<1>2. client' = [client EXCEPT ![s] = n] /\ client'[s] = n /\ client[s] \in Clients
  BY <1>1 DEF Disconnected, TypeInv, ClientShape
<1>3. /\ n \in Clients /\ ~n.up /\ ~n.proven /\ n.epoch = client[s].epoch
      /\ n.sideSent = client[s].sideSent /\ n.gate = client[s].gate
      /\ n.challenge = client[s].challenge /\ n.returned = client[s].returned
      /\ n.answered = client[s].answered /\ n.proof = client[s].proof
      /\ n.advertisement = client[s].advertisement
  BY <1>2 DEF Clients
<1> HIDE DEF n
<1> QED
  BY <1>2, <1>3

\* A frame that is only counted or joins the inbox.
Delivered(s, f) ==
  /\ f.kind \notin {"PEER_READY", "PROBE_CHALLENGE", "PROBE_RESPONSE", "PEER_CLOSE"}
  /\ \/ client' = [client EXCEPT ![s] = Gated(s, f)]
     \/ client' = [client EXCEPT ![s] = [Gated(s, f) EXCEPT !.advertisement = TRUE]]
  /\ \/ inbox' = inbox
     \/ inbox' = [inbox EXCEPT ![s] = Append(@, f)] /\ Len(inbox[s]) < Capacity
          /\ f.kind # "ADVERTISEMENT"
     \/ inbox' = [inbox EXCEPT ![s] = Append(@, f)] /\ f.kind = "ADVERTISEMENT"
          /\ ~client[s].advertisement /\ client'[s].advertisement
  /\ UNCHANGED up

LEMMA DeliveredEffect ==
  ASSUME TypeInv, NEW s \in Seats, NEW f \in Frames, Delivered(s, f)
  PROVE  LET c == client[s] n == client'[s] IN
         /\ n \in Clients /\ client' = [client EXCEPT ![s] = n] /\ SameConnection(c, n)
         /\ n.gate.epoch = f.epoch /\ n.challenge = c.challenge
         /\ n.returned = c.returned /\ n.answered = c.answered
         /\ n.proven = c.proven /\ n.proof = c.proof
         /\ c.advertisement => n.advertisement
<1> DEFINE c == client[s] c0 == Gated(s, f) c1 == [c0 EXCEPT !.advertisement = TRUE]
<1>1. /\ c0 \in Clients /\ c0 = [c EXCEPT !.gate = c0.gate] /\ c0.gate.epoch = f.epoch
      /\ c \in Clients
  BY GatedIsClient DEF TypeInv, ClientShape
<1> HIDE DEF c0
<1>2. /\ SameConnection(c, c0) /\ c0.challenge = c.challenge /\ c0.answered = c.answered
      /\ c0.advertisement = c.advertisement
      /\ c0.proven = c.proven /\ c0.proof = c.proof /\ c0.returned = c.returned
  BY <1>1 DEF Clients, SameConnection
<1>3. /\ c1 \in Clients /\ c1.gate = c0.gate /\ SameConnection(c0, c1)
      /\ c1.challenge = c0.challenge /\ c1.answered = c0.answered
      /\ c1.returned = c0.returned /\ c1.proven = c0.proven /\ c1.proof = c0.proof
      /\ c1.advertisement
  BY <1>1 DEF Clients, SameConnection
<1> HIDE DEF c1
<1>4. \/ client' = [client EXCEPT ![s] = c0] /\ client'[s] = c0
      \/ client' = [client EXCEPT ![s] = c1] /\ client'[s] = c1
  BY DEF Delivered, TypeInv, ClientShape, c0, c1
<1> QED
  BY <1>1, <1>2, <1>3, <1>4 DEF SameConnection

LEMMA GateAccepts ==
  ASSUME NEW g, NEW f, GateError(g, f) = ""
  PROVE  f.epoch # g.epoch => f.kind = "PEER_READY"
BY DEF GateError

LEMMA GateErrors == \A g, f : GateError(g, f) \in Errors
BY DEF GateError, Errors

\* A received frame is answered, delivered, or costs the connection.
ReadFrame(s) ==
  LET f == Head(down[s]) IN
  /\ down' = [down EXCEPT ![s] = Tail(@)]
  /\ f.epoch # client[s].gate.epoch => f.kind = "PEER_READY"
  /\ \/ f.kind = "PEER_READY" /\ OnPeerReady(s, f)
     \/ f.kind = "PROBE_CHALLENGE" /\ OnChallenge(s, f)
     \/ f.kind = "PROBE_RESPONSE" /\ OwnResponse(s, f)
     \/ Delivered(s, f)

LEMMA ReceiveCases ==
  ASSUME TypeInv, NEW s \in Seats, Receive(s)
  PROVE  /\ client[s].up /\ down[s] # <<>> /\ Head(down[s]) \in Frames /\ losses' \in Nat
         /\ UNCHANGED <<sessionVars, handlers, pending, outbox, bridgeVars>>
         /\ Dropped(s) \/ ReadFrame(s)
<1> DEFINE f == Head(down[s])
           error == GateError(client[s].gate, f)
<1>1. /\ client[s].up /\ down[s] # <<>> /\ losses' \in Nat
      /\ UNCHANGED <<sessionVars, handlers, pending, outbox, bridgeVars>>
  <2>1. losses \in Nat
    BY DEF TypeInv, RelayInv, RelayShape
  <2>2. losses' = losses + 1 \/ losses' = losses
    BY DEF Receive
  <2>3. losses' \in Nat
    BY <2>1, <2>2
  <2> QED
    BY <2>3 DEF Receive
<1>2. f \in Frames /\ Tail(down[s]) \in Seq(Frames) /\ client[s] \in Clients
  BY <1>1, HeadAndTail DEF TypeInv, RelayInv, RelayShape, ClientShape
<1>3. down' = [down EXCEPT ![s] = IF client'[s].up THEN Tail(@) ELSE <<>>]
  BY DEF Receive
<1>0. "" \in Errors /\ "C_PROBE_MISMATCH" \in Errors /\ "C_ADVERTISEMENT_EARLY" \in Errors
  BY DEF Errors
<1>4. ASSUME NEW e \in Errors, Disconnected(s, e), UNCHANGED <<up, inbox>>
      PROVE  Dropped(s)
  <2>1. ~client'[s].up
    BY <1>2, <1>4 DEF Disconnected, Clients, TypeInv, ClientShape
  <2> QED
    BY <1>3, <1>4, <2>1 DEF Dropped
<1>5. ASSUME error = "", client'[s].up,
             \/ f.kind = "PEER_READY" /\ OnPeerReady(s, f)
             \/ f.kind = "PROBE_CHALLENGE" /\ OnChallenge(s, f)
             \/ f.kind = "PROBE_RESPONSE" /\ OwnResponse(s, f)
             \/ Delivered(s, f)
      PROVE  ReadFrame(s)
  <2>1. f.epoch # client[s].gate.epoch => f.kind = "PEER_READY"
    BY <1>5, GateAccepts
  <2>2. down' = [down EXCEPT ![s] = Tail(@)]
    BY <1>3, <1>5
  <2> QED
    BY <1>5, <2>1, <2>2 DEF ReadFrame
<1>6. CASE error # ""
  <2>1. Disconnected(s, error) /\ UNCHANGED <<up, inbox>>
    BY <1>6 DEF Receive
  <2>2. error \in Errors
    BY GateErrors
  <2> QED
    BY <1>0, <1>1, <1>2, <1>4, <2>1, <2>2
<1>7. CASE error = "" /\ f.kind = "PEER_READY"
  <2>1. OnPeerReady(s, f)
    BY <1>7 DEF Receive
  <2>2. client'[s].up
    BY <2>1, <1>1, <1>2, PeerReadyEffect
  <2> QED
    BY <1>1, <1>2, <1>5, <1>7, <2>1, <2>2
<1>8. CASE error = "" /\ f.kind = "PROBE_CHALLENGE"
  <2>1. OnChallenge(s, f)
    BY <1>8 DEF Receive
  <2>2. client'[s].up
    BY <2>1, <1>1, <1>2, ChallengeEffect DEF SameConnection
  <2> QED
    BY <1>1, <1>2, <1>5, <1>8, <2>1, <2>2
<1>9. CASE error = "" /\ f.kind = "PROBE_RESPONSE"
  <2>1. OnResponse(s, f)
    BY <1>9 DEF Receive
  <2>2. CASE f.body = client[s].challenge /\ f.body # NoChallenge
    <3>1. OwnResponse(s, f)
      BY <2>1, <2>2 DEF OnResponse, OwnResponse
    <3>2. client'[s].up
      BY <3>1, <1>1, <1>2, ResponseEffect DEF SameConnection
    <3> QED
      BY <1>1, <1>2, <1>5, <1>9, <3>1, <3>2
  <2>3. CASE ~(f.body = client[s].challenge /\ f.body # NoChallenge)
    BY <1>0, <1>1, <1>2, <1>4, <2>1, <2>3 DEF OnResponse
  <2> QED
    BY <2>2, <2>3
<1>10. CASE error = "" /\ f.kind = "PEER_CLOSE"
  <2>1. Disconnected(s, "") /\ UNCHANGED <<up, inbox>>
    BY <1>10 DEF Receive
  <2> QED
    BY <1>0, <1>1, <1>2, <1>4, <2>1
<1>11. ASSUME Delivered(s, f), error = "" PROVE ReadFrame(s)
  <2>1. client'[s].up
    BY <1>11, <1>1, <1>2, DeliveredEffect DEF SameConnection
  <2> QED
    BY <1>5, <1>11, <2>1
<1>12. CASE error = "" /\ f.kind = "ADVERTISEMENT"
  <2>1. OnAdvertisement(s, f)
    BY <1>12 DEF Receive
  <2>2. CASE ~client[s].proven
    BY <1>0, <1>1, <1>2, <1>4, <2>1, <2>2 DEF OnAdvertisement
  <2>3. CASE client[s].proven /\ client[s].advertisement
    <3>1. Delivered(s, f)
      BY <1>12, <2>1, <2>3 DEF OnAdvertisement, Delivered
    <3> QED
      BY <1>1, <1>2, <1>11, <1>12, <3>1
  <2>4. CASE client[s].proven /\ ~client[s].advertisement
    <3>1. /\ client' = [client EXCEPT ![s] = [Gated(s, f) EXCEPT !.advertisement = TRUE]]
          /\ inbox' = [inbox EXCEPT ![s] = Append(@, f)] /\ UNCHANGED up
      BY <2>1, <2>4 DEF OnAdvertisement
    <3>2. client'[s].advertisement
      BY <3>1, <1>2, GatedIsClient DEF Clients, TypeInv, ClientShape
    <3>3. Delivered(s, f)
      BY <1>12, <2>4, <3>1, <3>2 DEF Delivered
    <3> QED
      BY <1>1, <1>2, <1>11, <1>12, <3>3
  <2> QED
    BY <2>2, <2>3, <2>4
<1>13. CASE /\ error = "" /\ f.kind \notin {"PEER_READY", "PROBE_CHALLENGE", "PROBE_RESPONSE",
                                           "ADVERTISEMENT", "PEER_CLOSE"}
  <2>1. OnBridgeFrame(s, f)
    BY <1>13 DEF Receive
  <2>2. CASE Len(inbox[s]) < Capacity
    <3>1. Delivered(s, f)
      BY <1>13, <2>1, <2>2 DEF OnBridgeFrame, Delivered
    <3> QED
      BY <1>1, <1>2, <1>11, <1>13, <3>1
  <2>3. CASE ~(Len(inbox[s]) < Capacity)
    BY <1>0, <1>1, <1>2, <1>4, <2>1, <2>3 DEF OnBridgeFrame
  <2> QED
    BY <2>2, <2>3
<1> QED
  BY <1>6, <1>7, <1>8, <1>9, <1>10, <1>12, <1>13

-----------------------------------------------------------------------------
(* The shape of the endpoints' state.                                      *)

LEMMA FrameIn ==
  ASSUME NEW e \in Nat, NEW i \in Nat, NEW k \in FrameKinds, NEW b \in Bodies
  PROVE  Frame(e, i, k, b) \in Frames
BY DEF Frame, Frames, Bodies

LEMMA SingleSeq ==
  ASSUME NEW S, NEW x \in S
  PROVE  <<x>> \in Seq(S)
OBVIOUS

LEMMA QueuesKeep ==
  ASSUME RelayInv, UNCHANGED <<sessionVars, handlers, pending>>, losses' \in Nat,
         up' \in [Seats -> Seq(Frames)], down' \in [Seats -> Seq(Frames)]
  PROVE  RelayInv'
BY DEF RelayInv, RelayTypeOK, RelayShape, ReadinessIsCurrent, sessionVars

LEMMA SentIsQueue ==
  ASSUME RelayInv, NEW s \in Seats, NEW q \in Seq(Frames)
  PROVE  Sent(s, q) \in [Seats -> Seq(Frames)]
<1>1. up \in [Seats -> Seq(Frames)]
  BY DEF RelayInv, RelayShape
<1>2. up[s] \o q \in Seq(Frames)
  BY <1>1
<1> QED
  BY <1>1, <1>2 DEF Sent

LEMMA TypesStart == SessionInit => TypeInv
<1> SUFFICES ASSUME SessionInit PROVE TypeInv
  OBVIOUS
<1>1. RelayInv
  BY RelayStarts DEF SessionInit
<1>2. NewClient \in Clients
  <2>1. NewGate \in GateSet
    BY DEF NewGate, GateSet
  <2> QED
    BY <2>1 DEF NewClient, Clients, NoChallenge, Errors
<1>3. NewBridge \in Bridges
  BY DEF NewBridge, Bridges, Bodies, BridgeErrors, Errors
<1>4. ClientShape
  BY <1>2 DEF SessionInit, ClientShape, Each
<1>5. BridgeShape
  BY <1>3 DEF SessionInit, BridgeShape, Each
<1> QED
  BY <1>1, <1>4, <1>5 DEF TypeInv

LEMMA ConnectEffect ==
  ASSUME TypeInv, NEW s \in Seats, Connect(s)
  PROVE  LET c == client[s] n == client'[s] IN
         /\ n \in Clients /\ client' = [client EXCEPT ![s] = n]
         /\ ~c.up /\ n.up /\ n.epoch = c.epoch + 1 /\ n.gate = NewGate /\ n.challenge = NoChallenge
         /\ ~n.returned /\ ~n.answered /\ ~n.proven /\ n.proof = c.proof
         /\ n.sideSent = c.sideSent /\ n.advertisement = c.advertisement
         /\ Frame(n.epoch, 0, "PEER_READY", 0) \in Frames
         /\ Accept(s, Frame(n.epoch, 0, "PEER_READY", 0))
<1> DEFINE c == client[s]
           n == [c EXCEPT !.up = TRUE, !.epoch = @ + 1, !.seq = 1, !.gate = NewGate,
                          !.challenge = NoChallenge, !.returned = FALSE, !.answered = FALSE,
                          !.proven = FALSE]
<1>1. /\ client' = [client EXCEPT ![s] = n] /\ client'[s] = n /\ c \in Clients /\ ~c.up
      /\ Accept(s, Frame(c.epoch + 1, 0, "PEER_READY", 0))
  BY DEF Connect, TypeInv, ClientShape
<1>2. NewGate \in GateSet /\ NoChallenge \in Nat \X Nat /\ c.epoch + 1 \in Nat
  BY <1>1 DEF NewGate, GateSet, NoChallenge, Clients
<1>3. \A e \in Nat : LET x == [c EXCEPT !.up = TRUE, !.epoch = e, !.seq = 1, !.gate = NewGate,
                          !.challenge = NoChallenge, !.returned = FALSE, !.answered = FALSE,
                          !.proven = FALSE] IN
        /\ x \in Clients /\ x.up /\ x.epoch = e /\ x.gate = NewGate /\ x.challenge = NoChallenge
        /\ ~x.returned /\ ~x.answered /\ ~x.proven /\ x.proof = c.proof
        /\ x.sideSent = c.sideSent /\ x.advertisement = c.advertisement
  <2> HIDE DEF c
  <2> QED
    BY <1>1, <1>2 DEF Clients
<1>4. Frame(c.epoch + 1, 0, "PEER_READY", 0) \in Frames
  BY <1>2 DEF Frame, Frames, FrameKinds
<1>5. /\ n \in Clients /\ n.up /\ n.epoch = c.epoch + 1 /\ n.gate = NewGate
      /\ n.challenge = NoChallenge /\ ~n.returned /\ ~n.answered /\ ~n.proven
      /\ n.proof = c.proof /\ n.sideSent = c.sideSent /\ n.advertisement = c.advertisement
  BY <1>2, <1>3
<1> HIDE DEF n
<1> QED
  BY <1>1, <1>4, <1>5

LEMMA RelayServesKeeps ==
  ASSUME TypeInv, NEW s \in Seats,
         RelayServes(s) \/ ReplayLost(s) \/ Expires(s) \/ HandlerLost(s)
  PROVE  TypeInv'
<1>1. RelayInv'
  <2>1. CASE RelayServes(s)
    BY <2>1, TakeKeeps, ProcessKeeps, RejectKeeps, RevokedEndsKeeps
    DEF RelayServes, RelayStep, TypeInv
  <2>2. CASE ReplayLost(s)
    BY <2>2, ReplayFailsKeeps DEF ReplayLost, TypeInv
  <2>3. CASE Expires(s)
    BY <2>3, ExpirePeerKeeps DEF Expires, TypeInv
  <2>4. CASE HandlerLost(s)
    <3>1. losses' = losses + 1 \/ losses' = losses
      BY <2>4 DEF HandlerLost
    <3>2. losses' \in Nat
      BY <3>1 DEF TypeInv, RelayInv, RelayShape
    <3>3. Reset(s)
      BY <2>4 DEF HandlerLost
    <3> QED
      BY <3>2, <3>3, ResetKeeps DEF TypeInv
  <2> QED
    BY <2>1, <2>2, <2>3, <2>4
<1>2. UNCHANGED <<clientVars, bridgeVars>>
  BY DEF RelayServes, ReplayLost, Expires, HandlerLost
<1> QED
  BY <1>1, <1>2 DEF TypeInv, ClientShape, BridgeShape, clientVars, bridgeVars

\* What a step that is not about the proof leaves alone.
SameProof(c, n) ==
  /\ n.gate = c.gate /\ n.challenge = c.challenge /\ n.returned = c.returned
  /\ n.answered = c.answered /\ n.proven = c.proven /\ n.proof = c.proof

LEMMA SendPendingEffect ==
  ASSUME TypeInv, NEW s \in Seats, SendPending(s)
  PROVE  LET c == client[s] n == client'[s] h == Head(outbox[s]) IN
         /\ n \in Clients /\ client' = [client EXCEPT ![s] = n]
         /\ SameConnection(c, n) /\ SameProof(c, n) /\ n.advertisement = c.advertisement
         /\ h \in Notes /\ Tail(outbox[s]) \in Seq(Notes)
         /\ Frame(c.epoch, c.seq, h.kind, h.body) \in Frames
         /\ up' = Sent(s, <<Frame(c.epoch, c.seq, h.kind, h.body)>>)
<1> DEFINE c == client[s] n == [c EXCEPT !.seq = @ + 1] h == Head(outbox[s])
<1>1. client' = [client EXCEPT ![s] = n] /\ client'[s] = n /\ c \in Clients
  BY DEF SendPending, TypeInv, ClientShape
<1>2. h \in Notes /\ Tail(outbox[s]) \in Seq(Notes)
  BY HeadAndTail DEF SendPending, TypeInv, ClientShape
<1>3. c.seq \in Nat /\ c.epoch \in Nat
  BY <1>1 DEF Clients
<1>4. h.kind \in FrameKinds /\ h.body \in Bodies
  BY <1>2 DEF Notes, Bodies
<1>5. Frame(c.epoch, c.seq, h.kind, h.body) \in Frames
  BY <1>3, <1>4, FrameIn
<1>6. \A q \in Nat : LET x == [c EXCEPT !.seq = q] IN
        x \in Clients /\ SameConnection(c, x) /\ SameProof(c, x) /\ x.advertisement = c.advertisement
  <2> HIDE DEF c
  <2> QED
    BY <1>1 DEF Clients, SameConnection, SameProof
<1>7. c.seq + 1 \in Nat
  BY <1>3
<1>8. n \in Clients /\ SameConnection(c, n) /\ SameProof(c, n) /\ n.advertisement = c.advertisement
  BY <1>6, <1>7
<1>9. up' = Sent(s, <<Frame(c.epoch, c.seq, h.kind, h.body)>>)
  BY DEF SendPending
<1> HIDE DEF n
<1> QED
  BY <1>1, <1>2, <1>5, <1>8, <1>9

LEMMA SendSideReadyEffect ==
  ASSUME TypeInv, NEW s \in Seats, SendSideReady(s)
  PROVE  LET c == client[s] n == client'[s] b == bridge[s] IN
         \/ UNCHANGED <<client, outbox>> /\ Fail(s, "C_SIDE_READY_SEND_FAILED")
         \/ /\ c.proven /\ c.sideSent # c.proof
            /\ n \in Clients /\ client' = [client EXCEPT ![s] = n]
            /\ n.up = c.up /\ n.epoch = c.epoch /\ n.error = c.error /\ SameProof(c, n)
            /\ n.sideSent = c.proof /\ n.advertisement = c.advertisement
            /\ Pending("SIDE_READY", b.proof) \in Notes
            /\ outbox' = [outbox EXCEPT ![s] = Append(@, Pending("SIDE_READY", b.proof))]
            /\ bridge' = [bridge EXCEPT ![s] = [b EXCEPT !.localSent = b.proof, !.pc = "poll"]]
            /\ UNCHANGED stage
<1> DEFINE c == client[s] n == [c EXCEPT !.sideSent = c.proof] b == bridge[s]
<1>1. CASE ~c.proven \/ c.sideSent = c.proof
  BY <1>1 DEF SendSideReady
<1>2. CASE c.proven /\ c.sideSent # c.proof
  <2>1. /\ client' = [client EXCEPT ![s] = n] /\ client'[s] = n
        /\ outbox' = [outbox EXCEPT ![s] = Append(@, Pending("SIDE_READY", b.proof))]
        /\ bridge' = [bridge EXCEPT ![s] = [b EXCEPT !.localSent = b.proof, !.pc = "poll"]]
        /\ UNCHANGED stage /\ c \in Clients
    BY <1>2 DEF SendSideReady, TypeInv, ClientShape
  <2>2. /\ n \in Clients /\ n.up = c.up /\ n.epoch = c.epoch /\ n.error = c.error
        /\ SameProof(c, n) /\ n.sideSent = c.proof /\ n.advertisement = c.advertisement
    BY <2>1 DEF Clients, SameProof
  <2>3. b.proof \in Nat
    BY DEF TypeInv, BridgeShape, Bridges
  <2>4. Pending("SIDE_READY", b.proof) \in Notes
    BY <2>3 DEF Pending, Notes, FrameKinds
  <2> HIDE DEF n
  <2> QED
    BY <1>2, <2>1, <2>2, <2>4
<1> QED
  BY <1>1, <1>2

LEMMA FailEffect ==
  ASSUME TypeInv, NEW s \in Seats, NEW e \in BridgeErrors, Fail(s, e)
  PROVE  LET b == bridge[s] n == bridge'[s] IN
         /\ n \in Bridges /\ bridge' = [bridge EXCEPT ![s] = n]
         /\ n.pc = b.pc /\ n.proof = b.proof /\ n.localSent = b.localSent /\ n.peerKey = b.peerKey
         /\ ~n.connected /\ stage' = [stage EXCEPT ![s] = "failed"]
<1> DEFINE b == bridge[s]
           n == [b EXCEPT !.failure = e, !.connected = FALSE, !.rfuActive = FALSE]
<1>1. /\ bridge' = [bridge EXCEPT ![s] = n] /\ bridge'[s] = n /\ b \in Bridges
      /\ stage' = [stage EXCEPT ![s] = "failed"]
  BY DEF Fail, TypeInv, BridgeShape
<1>2. /\ n \in Bridges /\ n.pc = b.pc /\ n.proof = b.proof /\ n.localSent = b.localSent
      /\ n.peerKey = b.peerKey /\ ~n.connected
  BY <1>1 DEF Bridges
<1> HIDE DEF n
<1> QED
  BY <1>1, <1>2

\* The four codes a bridge fails with, and its client's.
LEMMA FailureCodes ==
  /\ Errors \subseteq BridgeErrors
  /\ \A e \in {"C_SIDE_READY_SEND_FAILED", "C_SIDE_READY_DUPLICATE", "C_RFU_EARLY",
               "C_RFU_BACKPRESSURE"} : e \in BridgeErrors
BY DEF BridgeErrors

LEMMA SyncEffect ==
  ASSUME TypeInv, NEW s \in Seats, SyncProof(s)
  PROVE  LET c == client[s] b == bridge[s] n == bridge'[s]
             proof == IF c.proven THEN c.proof ELSE 0 IN
         /\ n \in Bridges /\ bridge' = [bridge EXCEPT ![s] = n] /\ At(s, "sync")
         /\ stage' = stage \/ stage' = [stage EXCEPT ![s] = "failed"]
         /\ \/ /\ n.pc = b.pc /\ n.proof = b.proof /\ n.localSent = b.localSent
               /\ n.peerKey = b.peerKey /\ ~n.connected /\ stage'[s] = "failed"
            \/ /\ n.proof = proof /\ b.proof = proof /\ n.connected = b.connected
               /\ n.localSent = b.localSent /\ n.peerKey = b.peerKey
               /\ n.pc = IF proof \in {0, n.localSent} THEN "poll" ELSE "ready"
            \/ /\ n.proof = proof /\ b.proof # proof /\ ~n.connected
               /\ n.localSent = 0 /\ n.peerKey = <<0, 0>>
               /\ n.pc = IF proof \in {0, n.localSent} THEN "poll" ELSE "ready"
<1> DEFINE c == client[s]
           proof == IF c.proven THEN c.proof ELSE 0
           b0 == bridge[s]
           b1 == [Invalidated(b0) EXCEPT !.proof = proof]
           b == IF proof # b0.proof THEN b1 ELSE b0
           pc == IF b.proof \in {0, b.localSent} THEN "poll" ELSE "ready"
           n == [b EXCEPT !.pc = pc]
<1>1. c \in Clients /\ b0 \in Bridges /\ At(s, "sync")
  BY DEF TypeInv, ClientShape, BridgeShape, SyncProof
<1>2. c.error \in Errors /\ proof \in Nat
  BY <1>1 DEF Clients
<1>3. CASE c.error # ""
  <2>1. Fail(s, c.error)
    BY <1>3 DEF SyncProof
  <2>2. c.error \in BridgeErrors
    BY <1>2, FailureCodes
  <2>3. stage'[s] = "failed"
    BY <2>1, <2>2, FailEffect DEF TypeInv, BridgeShape
  <2> HIDE DEF proof
  <2> QED
    BY <2>1, <2>2, <2>3, <1>1, FailEffect
<1>4. CASE c.error = ""
  <2>1. bridge' = [bridge EXCEPT ![s] = n] /\ bridge'[s] = n /\ UNCHANGED stage
    BY <1>4 DEF SyncProof, TypeInv, BridgeShape
  <2> HIDE DEF proof
  <2>2. /\ b1 \in Bridges /\ b1.proof = proof /\ ~b1.connected /\ b1.localSent = 0
        /\ b1.peerKey = <<0, 0>>
    <3>1. <<0, 0>> \in Nat \X Bodies
      BY DEF Bodies
    <3> HIDE DEF b0
    <3> QED
      BY <1>1, <1>2, <3>1 DEF Invalidated, Bridges
  <2> HIDE DEF b1, b0
  <2>3. \A x \in Bridges, k \in {"poll", "ready"} : LET y == [x EXCEPT !.pc = k] IN
          /\ y \in Bridges /\ y.pc = k /\ y.proof = x.proof /\ y.localSent = x.localSent
          /\ y.peerKey = x.peerKey /\ y.connected = x.connected
    BY DEF Bridges
  <2>4. b \in Bridges /\ pc \in {"poll", "ready"}
    BY <1>1, <2>2
  <2> HIDE DEF pc, b
  <2>5. /\ n \in Bridges /\ n.pc = pc /\ n.proof = b.proof /\ n.localSent = b.localSent
        /\ n.peerKey = b.peerKey /\ n.connected = b.connected
    BY <2>3, <2>4
  <2> HIDE DEF n
  <2>6. CASE proof # b0.proof
    <3>1. n.proof = proof /\ ~n.connected /\ n.localSent = 0 /\ n.peerKey = <<0, 0>>
      BY <2>2, <2>5, <2>6 DEF b
    <3>2. n.pc = IF proof \in {0, n.localSent} THEN "poll" ELSE "ready"
      BY <2>2, <2>5, <2>6 DEF pc, b
    <3> QED
      BY <1>1, <2>1, <2>5, <2>6, <3>1, <3>2 DEF b0, proof
  <2>7. CASE proof = b0.proof
    <3>1. /\ n.proof = proof /\ n.connected = b0.connected /\ n.localSent = b0.localSent
          /\ n.peerKey = b0.peerKey
      BY <2>5, <2>7 DEF b
    <3>2. n.pc = IF proof \in {0, n.localSent} THEN "poll" ELSE "ready"
      BY <2>5, <2>7 DEF pc, b
    <3> QED
      BY <1>1, <2>1, <2>5, <2>7, <3>1, <3>2 DEF b0, proof
  <2> QED
    BY <2>6, <2>7
<1> QED
  BY <1>3, <1>4

\* What a bridge that goes on keeps of its readiness.
SameReadiness(b, n) ==
  n.proof = b.proof /\ n.localSent = b.localSent /\ n.peerKey = b.peerKey

LEMMA ActivatedFields ==
  ASSUME NEW s \in Seats, NEW b \in Bridges
  PROVE  LET n == Activated(s, b) IN
         /\ n \in Bridges /\ SameReadiness(b, n) /\ n.pc = b.pc /\ n.tx = b.tx /\ n.rx = b.rx
         /\ n.connected <=>
              \/ b.connected
              \/ b.localSent = b.proof /\ b.proof # 0 /\ b.peerKey # <<0, 0>> /\ client[s].proven
<1> DEFINE n == [b EXCEPT !.connected = TRUE]
<1>1. n \in Bridges /\ SameReadiness(b, n) /\ n.pc = b.pc /\ n.tx = b.tx /\ n.rx = b.rx /\ n.connected
  BY DEF Bridges, SameReadiness
<1> HIDE DEF n
<1>2. CASE /\ b.localSent = b.proof /\ b.proof # 0 /\ b.peerKey # <<0, 0>> /\ client[s].proven
  <2>1. Activated(s, b) = n
    BY <1>2 DEF Activated, n
  <2> QED
    BY <1>1, <1>2, <2>1
<1>3. CASE ~(/\ b.localSent = b.proof /\ b.proof # 0 /\ b.peerKey # <<0, 0>> /\ client[s].proven)
  <2>1. Activated(s, b) = b
    BY <1>3 DEF Activated
  <2> QED
    BY <1>3, <2>1 DEF SameReadiness
<1> QED
  BY <1>2, <1>3

LEMMA DrainEffect ==
  ASSUME TypeInv, NEW s \in Seats, Drain(s)
  PROVE  LET f == Head(batch[s]) b == bridge[s] n == bridge'[s] IN
         /\ At(s, "drain") /\ batch[s] # <<>> /\ f \in Frames /\ Tail(batch[s]) \in Seq(Frames)
         /\ batch' = [batch EXCEPT ![s] = Tail(@)]
         /\ n \in Bridges /\ bridge' = [bridge EXCEPT ![s] = n]
         /\ UNCHANGED <<relayVars, clientVars, unsent, offered>>
         /\ \/ /\ \E e \in BridgeErrors : Fail(s, e)
               /\ UNCHANGED received
            \/ /\ f.kind = "SIDE_READY" /\ UNCHANGED <<stage, received>>
               /\ n.pc = b.pc /\ n.proof = b.proof /\ n.localSent = b.localSent
               /\ n.peerKey = <<f.epoch, f.body>>
               /\ n.connected => b.connected \/ (b.localSent = b.proof /\ b.proof # 0)
               /\ n.connected /\ ~b.connected => client[s].proven /\ n.peerKey # <<0, 0>>
            \/ /\ f.kind # "SIDE_READY" /\ UNCHANGED stage
               /\ n.pc = b.pc /\ SameReadiness(b, n) /\ n.connected = b.connected
               /\ \/ UNCHANGED received
                  \/ f.kind = "RFU" /\ received' = [received EXCEPT ![s] = Append(@, f.body)]
<1> DEFINE f == Head(batch[s])
           b == bridge[s]
           key == <<f.epoch, f.body>>
<1>1. /\ At(s, "drain") /\ batch[s] # <<>>
      /\ batch' = [batch EXCEPT ![s] = Tail(@)]
      /\ UNCHANGED <<relayVars, clientVars, unsent, offered>>
  BY DEF Drain
<1>2. f \in Frames /\ Tail(batch[s]) \in Seq(Frames)
  BY <1>1, HeadAndTail DEF TypeInv, BridgeShape
<1>3. b \in Bridges /\ key \in Nat \X Bodies
  BY <1>2, FrameFields DEF TypeInv, BridgeShape
<1>4. ASSUME NEW e \in BridgeErrors, Fail(s, e), UNCHANGED received
      PROVE  /\ bridge'[s] \in Bridges /\ bridge' = [bridge EXCEPT ![s] = bridge'[s]]
             /\ \E x \in BridgeErrors : Fail(s, x)
             /\ UNCHANGED received
  BY <1>4, FailEffect
<1>5. CASE f.kind = "SIDE_READY" /\ b.peerKey = key
  <2>1. Fail(s, "C_SIDE_READY_DUPLICATE") /\ UNCHANGED received
    BY <1>5 DEF Drain
  <2> QED
    BY <1>1, <1>2, <1>4, <2>1, FailureCodes
<1>6. CASE f.kind = "SIDE_READY" /\ b.peerKey # key
  <2> DEFINE b1 == [b EXCEPT !.peerKey = key]
             n == Activated(s, b1)
  <2>1. bridge' = [bridge EXCEPT ![s] = Activated(s, [bridge[s] EXCEPT !.peerKey = key])]
    BY <1>6 DEF Drain
  <2>2. bridge' = [bridge EXCEPT ![s] = n] /\ bridge'[s] = n /\ UNCHANGED <<stage, received>>
    BY <1>6, <2>1 DEF Drain, TypeInv, BridgeShape
  <2> HIDE DEF key
  <2>3. /\ b1 \in Bridges /\ b1.pc = b.pc /\ b1.proof = b.proof /\ b1.localSent = b.localSent
        /\ b1.connected = b.connected /\ b1.peerKey = key
    <3> HIDE DEF b
    <3> QED
      BY <1>3 DEF Bridges
  <2> HIDE DEF b1
  <2>4. /\ n \in Bridges /\ SameReadiness(b1, n) /\ n.pc = b1.pc
        /\ n.connected <=>
             \/ b1.connected
             \/ b1.localSent = b1.proof /\ b1.proof # 0 /\ b1.peerKey # <<0, 0>> /\ client[s].proven
    BY <2>3, ActivatedFields
  <2> HIDE DEF n
  <2>5. /\ n.pc = b.pc /\ n.proof = b.proof /\ n.localSent = b.localSent /\ n.peerKey = key
        /\ n.connected => b.connected \/ (b.localSent = b.proof /\ b.proof # 0)
        /\ n.connected /\ ~b.connected => client[s].proven /\ n.peerKey # <<0, 0>>
    BY <2>3, <2>4 DEF SameReadiness
  <2> QED
    BY <1>1, <1>2, <1>6, <2>2, <2>4, <2>5 DEF key
<1>7. CASE f.kind = "RFU" /\ ~b.connected
  <2>1. Fail(s, "C_RFU_EARLY") /\ UNCHANGED received
    BY <1>7 DEF Drain
  <2> QED
    BY <1>1, <1>2, <1>4, <2>1, FailureCodes
<1>8. CASE f.kind = "RFU" /\ b.connected
  <2> DEFINE n == [b EXCEPT !.rx = @ + 1]
  <2>1. /\ bridge' = [bridge EXCEPT ![s] = n] /\ bridge'[s] = n /\ UNCHANGED stage
        /\ received' = [received EXCEPT ![s] = Append(@, f.body)]
    BY <1>8 DEF Drain, TypeInv, BridgeShape
  <2>2. b.rx + 1 \in Nat
    BY <1>3 DEF Bridges
  <2>3. \A q \in Nat : LET x == [b EXCEPT !.rx = q] IN
          x \in Bridges /\ x.pc = b.pc /\ SameReadiness(b, x) /\ x.connected = b.connected
    <3> HIDE DEF b
    <3> QED
      BY <1>3 DEF Bridges, SameReadiness
  <2>4. n \in Bridges /\ n.pc = b.pc /\ SameReadiness(b, n) /\ n.connected = b.connected
    BY <2>2, <2>3
  <2> HIDE DEF n
  <2> QED
    BY <1>1, <1>2, <1>8, <2>1, <2>4
<1>9. CASE f.kind \notin {"SIDE_READY", "RFU"}
  <2>1. UNCHANGED <<bridge, stage, received>>
    BY <1>9 DEF Drain
  <2>2. bridge' = [bridge EXCEPT ![s] = bridge'[s]]
    BY <2>1 DEF TypeInv, BridgeShape
  <2> QED
    BY <1>1, <1>2, <1>3, <1>9, <2>1, <2>2 DEF SameReadiness
<1> QED
  BY <1>5, <1>6, <1>7, <1>8, <1>9

LEMMA FlushEffect ==
  ASSUME TypeInv, NEW s \in Seats, Flush(s)
  PROVE  LET b == bridge[s] n == bridge'[s] h == Head(unsent[s]) IN
         /\ At(s, "poll") \/ (At(s, "drain") /\ batch[s] = <<>>)
         /\ n \in Bridges /\ bridge' = [bridge EXCEPT ![s] = n] /\ SameReadiness(b, n)
         /\ n.connected => \/ b.connected
                           \/ b.localSent = b.proof /\ b.proof # 0 /\ b.peerKey # <<0, 0>>
         /\ UNCHANGED <<relayVars, client, inbox, batch, offered, received>>
         /\ \/ /\ n.pc = b.pc /\ UNCHANGED stage /\ client[s].proven
               /\ unsent[s] # <<>> /\ h \in Nat /\ Tail(unsent[s]) \in Seq(Nat)
               /\ Pending("RFU", h) \in Notes
               /\ outbox' = [outbox EXCEPT ![s] = Append(@, Pending("RFU", h))]
               /\ unsent' = [unsent EXCEPT ![s] = Tail(@)]
            \/ /\ n.pc = b.pc /\ stage' = [stage EXCEPT ![s] = "failed"]
               /\ UNCHANGED <<outbox, unsent>>
            \/ n.pc = "sync" /\ UNCHANGED <<outbox, unsent, stage>>
<1> DEFINE b0 == bridge[s]
           b == Activated(s, bridge[s])
           h == Head(unsent[s])
<1>1. /\ At(s, "poll") \/ (At(s, "drain") /\ batch[s] = <<>>)
      /\ UNCHANGED <<relayVars, client, inbox, batch, offered, received>>
  BY DEF Flush
<1>2. b0 \in Bridges
  BY DEF TypeInv, BridgeShape
<1>3. /\ b \in Bridges /\ SameReadiness(b0, b) /\ b.pc = b0.pc
      /\ b.connected <=> \/ b0.connected
                         \/ /\ b0.localSent = b0.proof /\ b0.proof # 0 /\ b0.peerKey # <<0, 0>>
                            /\ client[s].proven
  BY <1>2, ActivatedFields
<1>4. CASE b.connected /\ unsent[s] # <<>> /\ client[s].proven
  <2> DEFINE n == [b EXCEPT !.tx = @ + 1]
  <2>1. /\ bridge' = [bridge EXCEPT ![s] = n] /\ bridge'[s] = n
        /\ outbox' = [outbox EXCEPT ![s] = Append(@, Pending("RFU", h))]
        /\ unsent' = [unsent EXCEPT ![s] = Tail(@)] /\ UNCHANGED stage
    BY <1>4 DEF Flush, AfterSend, TypeInv, BridgeShape
  <2>2. h \in Nat /\ Tail(unsent[s]) \in Seq(Nat)
    BY <1>4, HeadAndTail DEF TypeInv, BridgeShape
  <2>3. Pending("RFU", h) \in Notes
    BY <2>2 DEF Pending, Notes, FrameKinds
  <2> HIDE DEF b
  <2>4. b.tx + 1 \in Nat
    BY <1>3 DEF Bridges
  <2>5. \A q \in Nat : LET x == [b EXCEPT !.tx = q] IN
          x \in Bridges /\ x.pc = b.pc /\ SameReadiness(b, x) /\ x.connected = b.connected
    BY <1>3 DEF Bridges, SameReadiness
  <2>6. n \in Bridges /\ n.pc = b.pc /\ SameReadiness(b, n) /\ n.connected = b.connected
    BY <2>4, <2>5
  <2> HIDE DEF n
  <2>7. SameReadiness(b0, n)
    BY <1>3, <2>6 DEF SameReadiness
  <2> QED
    BY <1>1, <1>3, <1>4, <2>1, <2>2, <2>3, <2>6, <2>7
<1>5. CASE b.connected /\ unsent[s] # <<>> /\ ~client[s].proven
  <2>1. Fail(s, "C_RFU_BACKPRESSURE") /\ UNCHANGED <<outbox, unsent>>
    BY <1>5 DEF Flush
  <2> HIDE DEF b
  <2> QED
    BY <1>1, <2>1, FailEffect, FailureCodes DEF SameReadiness
<1>6. CASE ~(b.connected /\ unsent[s] # <<>>)
  <2> DEFINE moving == b.connected /\ (b.rfuActive \/ (b.tx > 0 /\ b.rx > 0))
             n == [b EXCEPT !.pc = "sync", !.rfuActive = moving]
  <2>1. bridge' = [bridge EXCEPT ![s] = n] /\ bridge'[s] = n /\ UNCHANGED <<outbox, unsent, stage>>
    BY <1>6 DEF Flush, TypeInv, BridgeShape
  <2> HIDE DEF b
  <2>2. moving \in BOOLEAN
    BY <1>3 DEF Bridges
  <2> HIDE DEF moving
  <2>3. n \in Bridges /\ n.pc = "sync" /\ SameReadiness(b, n) /\ n.connected = b.connected
    BY <1>3, <2>2 DEF Bridges, SameReadiness
  <2> HIDE DEF n
  <2>4. SameReadiness(b0, n)
    BY <1>3, <2>3 DEF SameReadiness
  <2> QED
    BY <1>1, <1>3, <2>1, <2>3, <2>4
<1> QED
  BY <1>4, <1>5, <1>6

LEMMA ConnectTypes ==
  ASSUME TypeInv, NEW s \in Seats, Connect(s)
  PROVE  TypeInv'
<1>1. RelayInv'
  BY ConnectEffect, AcceptKeeps DEF TypeInv
<1>2. ClientShape'
  <2>1. client'[s] \in Clients /\ client' = [client EXCEPT ![s] = client'[s]]
    BY ConnectEffect
  <2>2. outbox' = [outbox EXCEPT ![s] = <<>>] /\ inbox' = [inbox EXCEPT ![s] = <<>>]
    BY DEF Connect
  <2> QED
    BY <2>1, <2>2, EmptySeq DEF TypeInv, ClientShape
<1>3. UNCHANGED bridgeVars
  BY DEF Connect
<1> QED
  BY <1>1, <1>2, <1>3 DEF TypeInv, BridgeShape, bridgeVars

LEMMA RefusedTypes ==
  ASSUME TypeInv, NEW s \in Seats, Refused(s)
  PROVE  TypeInv'
<1> DEFINE n == [client[s] EXCEPT !.error = "C_AUTHENTICATION_FAILED"]
<1>1. client' = [client EXCEPT ![s] = n] /\ client[s] \in Clients
  BY DEF Refused, TypeInv, ClientShape
<1>2. n \in Clients
  BY <1>1 DEF Clients, Errors
<1> HIDE DEF n
<1>3. ClientShape'
  BY <1>1, <1>2 DEF Refused, TypeInv, ClientShape
<1>4. UNCHANGED <<relayVars, bridgeVars>>
  BY DEF Refused
<1> QED
  BY <1>3, <1>4 DEF TypeInv, BridgeShape, bridgeVars, relayVars, sessionVars, RelayInv, RelayTypeOK,
                    RelayShape, ReadinessIsCurrent

LEMMA ClientLostIsDrop ==
  ASSUME TypeInv, NEW s \in Seats, ClientLost(s)
  PROVE  /\ Dropped(s) /\ client[s].up /\ losses' \in Nat
         /\ UNCHANGED <<sessionVars, handlers, pending, outbox, bridgeVars>>
<1>1. losses' = losses + 1 \/ losses' = losses
  BY DEF ClientLost
<1>2. losses' \in Nat
  BY <1>1 DEF TypeInv, RelayInv, RelayShape
<1> QED
  BY <1>2 DEF ClientLost, Dropped, Errors

LEMMA DroppedTypes ==
  ASSUME TypeInv, NEW s \in Seats, Dropped(s), losses' \in Nat,
         UNCHANGED <<sessionVars, handlers, pending, outbox, bridgeVars>>
  PROVE  TypeInv'
<1>1. up' \in [Seats -> Seq(Frames)] /\ down' \in [Seats -> Seq(Frames)]
  BY DEF Dropped, TypeInv, RelayInv, RelayShape
<1>2. RelayInv'
  BY <1>1, QueuesKeep DEF TypeInv
<1>3. ClientShape'
  BY DroppedEffect DEF Dropped, TypeInv, ClientShape
<1> QED
  BY <1>2, <1>3 DEF TypeInv, BridgeShape, bridgeVars

LEMMA ReadFrameTypes ==
  ASSUME TypeInv, NEW s \in Seats, down[s] # <<>>, Head(down[s]) \in Frames, losses' \in Nat,
         UNCHANGED <<sessionVars, handlers, pending, outbox, bridgeVars>>, ReadFrame(s)
  PROVE  TypeInv'
<1> DEFINE f == Head(down[s]) c == client[s] n == client'[s]
<1>1. down' \in [Seats -> Seq(Frames)]
  BY HeadAndTail DEF ReadFrame, TypeInv, RelayInv, RelayShape
<1>2. c \in Clients /\ c.epoch \in Nat /\ c.seq \in Nat
  BY DEF TypeInv, ClientShape, Clients
<1>3. "PEER_READY" \in FrameKinds /\ "PROBE_CHALLENGE" \in FrameKinds /\ "PROBE_RESPONSE" \in FrameKinds
  BY DEF FrameKinds
<1>4. CASE OnPeerReady(s, f)
  <2>1. n \in Clients /\ client' = [client EXCEPT ![s] = n]
    BY <1>4, PeerReadyEffect
  <2>2. PICK i \in Nat :
          up' = Sent(s, (IF Again(s, f) THEN <<Frame(n.epoch, 0, "PEER_READY", 0)>> ELSE <<>>) \o
                        <<Frame(n.epoch, i, "PROBE_CHALLENGE", n.challenge)>>)
    BY <1>4, PeerReadyEffect
  <2>3. n.epoch \in Nat /\ n.challenge \in Bodies
    BY <2>1 DEF Clients, Bodies
  <2>4. /\ Frame(n.epoch, 0, "PEER_READY", 0) \in Frames
        /\ Frame(n.epoch, i, "PROBE_CHALLENGE", n.challenge) \in Frames
    BY <1>3, <2>3 DEF Frame, Frames, Bodies
  <2>5. up' \in [Seats -> Seq(Frames)]
    <3>1. \A x \in Frames, y \in Frames :
            <<x>> \o <<y>> \in Seq(Frames) /\ <<>> \o <<y>> \in Seq(Frames)
      OBVIOUS
    <3>2. (IF Again(s, f) THEN <<Frame(n.epoch, 0, "PEER_READY", 0)>> ELSE <<>>) \o
            <<Frame(n.epoch, i, "PROBE_CHALLENGE", n.challenge)>> \in Seq(Frames)
      BY <2>4, <3>1
    <3> QED
      BY <2>2, <3>2, SentIsQueue DEF TypeInv
  <2>6. RelayInv'
    BY <1>1, <2>5, QueuesKeep DEF TypeInv
  <2>7. ClientShape'
    BY <1>4, <2>1 DEF OnPeerReady, TypeInv, ClientShape
  <2> QED
    BY <2>6, <2>7 DEF TypeInv, BridgeShape, bridgeVars
<1>5. CASE OnChallenge(s, f)
  <2>1. /\ n \in Clients /\ client' = [client EXCEPT ![s] = n]
        /\ up' = Sent(s, <<Frame(c.epoch, c.seq, "PROBE_RESPONSE", f.body)>>)
    BY <1>5, ChallengeEffect
  <2>2. Frame(c.epoch, c.seq, "PROBE_RESPONSE", f.body) \in Frames
    BY <1>2, <1>3, FrameFields DEF Frame, Frames, Bodies
  <2>3. up' \in [Seats -> Seq(Frames)]
    BY <2>1, <2>2, SingleSeq, SentIsQueue DEF TypeInv
  <2>4. RelayInv'
    BY <1>1, <2>3, QueuesKeep DEF TypeInv
  <2>5. ClientShape'
    BY <1>5, <2>1 DEF OnChallenge, TypeInv, ClientShape
  <2> QED
    BY <2>4, <2>5 DEF TypeInv, BridgeShape, bridgeVars
<1>6. CASE OwnResponse(s, f)
  <2>1. n \in Clients /\ client' = [client EXCEPT ![s] = n]
    BY <1>6, ResponseEffect
  <2>2. UNCHANGED <<up, inbox>>
    BY <1>6 DEF OwnResponse
  <2>3. RelayInv'
    BY <1>1, <2>2, QueuesKeep DEF TypeInv, RelayInv, RelayShape
  <2>4. ClientShape'
    BY <2>1, <2>2 DEF TypeInv, ClientShape
  <2> QED
    BY <2>3, <2>4 DEF TypeInv, BridgeShape, bridgeVars
<1>7. CASE Delivered(s, f)
  <2>1. n \in Clients /\ client' = [client EXCEPT ![s] = n]
    BY <1>7, DeliveredEffect
  <2>2. UNCHANGED up
    BY <1>7 DEF Delivered
  <2>3. RelayInv'
    BY <1>1, <2>2, QueuesKeep DEF TypeInv, RelayInv, RelayShape
  <2>4. Append(inbox[s], f) \in Seq(Frames)
    BY DEF TypeInv, ClientShape
  <2>5. inbox' \in [Seats -> Seq(Frames)]
    BY <1>7, <2>4 DEF Delivered, TypeInv, ClientShape
  <2>6. ClientShape'
    BY <2>1, <2>5 DEF TypeInv, ClientShape
  <2> QED
    BY <2>3, <2>6 DEF TypeInv, BridgeShape, bridgeVars
<1> QED
  BY <1>4, <1>5, <1>6, <1>7 DEF ReadFrame

LEMMA SendPendingTypes ==
  ASSUME TypeInv, NEW s \in Seats, SendPending(s)
  PROVE  TypeInv'
<1> DEFINE c == client[s] h == Head(outbox[s])
<1>1. up' \in [Seats -> Seq(Frames)]
  <2>1. <<Frame(c.epoch, c.seq, h.kind, h.body)>> \in Seq(Frames)
    <3>1. Frame(c.epoch, c.seq, h.kind, h.body) \in Frames
      BY SendPendingEffect
    <3> QED
      BY <3>1, SingleSeq
  <2>2. up' = Sent(s, <<Frame(c.epoch, c.seq, h.kind, h.body)>>)
    BY SendPendingEffect
  <2> HIDE DEF c, h
  <2> QED
    BY <2>1, <2>2, SentIsQueue DEF TypeInv
<1>2. RelayInv'
  BY <1>1, QueuesKeep DEF SendPending, TypeInv, RelayInv, RelayShape
<1>3. ClientShape'
  <2>1. client' \in [Seats -> Clients]
    BY SendPendingEffect DEF TypeInv, ClientShape
  <2>2. outbox' \in [Seats -> Seq(Notes)]
    <3>1. outbox' = [outbox EXCEPT ![s] = Tail(outbox[s])]
      BY DEF SendPending
    <3> QED
      BY <3>1, SendPendingEffect DEF TypeInv, ClientShape
  <2>3. inbox' \in [Seats -> Seq(Frames)]
    BY DEF SendPending, TypeInv, ClientShape
  <2> QED
    BY <2>1, <2>2, <2>3 DEF ClientShape
<1>4. UNCHANGED bridgeVars
  BY DEF SendPending
<1> QED
  BY <1>2, <1>3, <1>4 DEF TypeInv, BridgeShape, bridgeVars

\* The main thread touches nothing of the relay.
LEMMA MainThreadTypes ==
  ASSUME TypeInv, NEW s \in Seats, MainThread(s) \/ SendRfu(s)
  PROVE  TypeInv'
<1>1. ASSUME UNCHANGED relayVars, ClientShape', BridgeShape' PROVE TypeInv'
  BY <1>1 DEF TypeInv, relayVars, sessionVars, RelayInv, RelayTypeOK, RelayShape, ReadinessIsCurrent
<1>2. CASE ConnectStage(s)
  BY <1>1, <1>2 DEF ConnectStage, clientVars, TypeInv, ClientShape, BridgeShape
<1>3. CASE Publish
  <2>1. Pending("ADVERTISEMENT", 1) \in Notes /\ "A" \in Seats
    BY DEF Pending, Notes, FrameKinds, Seats
  <2>2. Append(outbox["A"], Pending("ADVERTISEMENT", 1)) \in Seq(Notes)
    BY <2>1 DEF TypeInv, ClientShape
  <2>3. /\ UNCHANGED <<relayVars, client, inbox, bridge, batch, unsent, offered, received>>
        /\ \/ outbox' = outbox
           \/ outbox' = [outbox EXCEPT !["A"] = Append(outbox["A"], Pending("ADVERTISEMENT", 1))]
        /\ \/ stage' = [stage EXCEPT !["A"] = "bridge"]
           \/ stage' = [stage EXCEPT !["A"] = "failed"]
    BY <1>3 DEF Publish
  <2>4. outbox' \in [Seats -> Seq(Notes)]
    BY <2>2, <2>3 DEF TypeInv, ClientShape
  <2>5. stage' \in [Seats -> {"connecting", "advertisement", "bridge", "failed"}]
    BY <2>3 DEF TypeInv, BridgeShape
  <2>6. ClientShape'
    BY <2>3, <2>4 DEF TypeInv, ClientShape
  <2>7. BridgeShape'
    BY <2>3, <2>5 DEF TypeInv, BridgeShape
  <2> QED
    BY <1>1, <2>3, <2>6, <2>7
<1>4. CASE AwaitAdvertisement
  <2>1. /\ stage' \in {stage, [stage EXCEPT !["B"] = "bridge"], [stage EXCEPT !["B"] = "failed"]}
        /\ inbox' \in {inbox, [inbox EXCEPT !["B"] = <<>>]}
        /\ UNCHANGED <<relayVars, client, outbox, bridge, batch, unsent, offered, received>>
    BY <1>4 DEF AwaitAdvertisement
  <2>2. stage' \in [Seats -> {"connecting", "advertisement", "bridge", "failed"}]
    BY <2>1 DEF TypeInv, BridgeShape
  <2>3. inbox' \in [Seats -> Seq(Frames)]
    BY <2>1, EmptySeq DEF TypeInv, ClientShape
  <2>4. ClientShape'
    BY <2>1, <2>3 DEF TypeInv, ClientShape
  <2>5. BridgeShape'
    BY <2>1, <2>2 DEF TypeInv, BridgeShape
  <2> QED
    BY <1>1, <2>1, <2>4, <2>5
<1>5. CASE SyncProof(s)
  <2>1. UNCHANGED <<relayVars, clientVars, batch, unsent, offered, received>>
    BY <1>5 DEF SyncProof
  <2>2. bridge' \in [Seats -> Bridges]
    <3>1. bridge'[s] \in Bridges /\ bridge' = [bridge EXCEPT ![s] = bridge'[s]]
      BY <1>5, SyncEffect
    <3> QED
      BY <3>1 DEF TypeInv, BridgeShape
  <2>3. stage' = stage \/ stage' = [stage EXCEPT ![s] = "failed"]
    BY <1>5, SyncEffect
  <2>4. ClientShape'
    BY <2>1 DEF TypeInv, ClientShape, clientVars
  <2>5. BridgeShape'
    BY <2>1, <2>2, <2>3 DEF TypeInv, BridgeShape
  <2> QED
    BY <1>1, <2>1, <2>4, <2>5
<1>6. CASE SendSideReady(s)
  <2>1. UNCHANGED <<relayVars, inbox, batch, unsent, offered, received>>
    BY <1>6 DEF SendSideReady
  <2>2. CASE UNCHANGED <<client, outbox>> /\ Fail(s, "C_SIDE_READY_SEND_FAILED")
    <3>1. bridge' \in [Seats -> Bridges] /\ stage' = [stage EXCEPT ![s] = "failed"]
      BY <2>2, FailEffect, FailureCodes DEF TypeInv, BridgeShape
    <3>2. ClientShape'
      BY <2>1, <2>2 DEF TypeInv, ClientShape
    <3>3. BridgeShape'
      BY <2>1, <3>1 DEF TypeInv, BridgeShape
    <3> QED
      BY <1>1, <2>1, <3>2, <3>3
  <2>3. CASE ~(UNCHANGED <<client, outbox>> /\ Fail(s, "C_SIDE_READY_SEND_FAILED"))
    <3> DEFINE b == [bridge[s] EXCEPT !.localSent = bridge[s].proof, !.pc = "poll"]
    <3>1. /\ client'[s] \in Clients /\ client' = [client EXCEPT ![s] = client'[s]]
          /\ Pending("SIDE_READY", bridge[s].proof) \in Notes
          /\ outbox' = [outbox EXCEPT ![s] = Append(@, Pending("SIDE_READY", bridge[s].proof))]
          /\ bridge' = [bridge EXCEPT ![s] = b]
          /\ UNCHANGED stage
      BY <1>6, <2>3, SendSideReadyEffect
    <3>2. b \in Bridges
      <4>1. bridge[s] \in Bridges
        BY DEF TypeInv, BridgeShape
      <4>2. \A x \in Bridges : [x EXCEPT !.localSent = x.proof, !.pc = "poll"] \in Bridges
        BY DEF Bridges
      <4> QED
        BY <4>1, <4>2
    <3> HIDE DEF b
    <3>3. Append(outbox[s], Pending("SIDE_READY", bridge[s].proof)) \in Seq(Notes)
      BY <3>1 DEF TypeInv, ClientShape
    <3>4. ClientShape'
      BY <2>1, <3>1, <3>3 DEF TypeInv, ClientShape
    <3>5. BridgeShape'
      BY <2>1, <3>1, <3>2 DEF TypeInv, BridgeShape
    <3> QED
      BY <1>1, <2>1, <3>4, <3>5
  <2> QED
    BY <2>2, <2>3
<1>7. CASE Poll(s)
  <2> DEFINE b == [bridge[s] EXCEPT !.pc = "drain"]
  <2>1. bridge[s] \in Bridges
    BY DEF TypeInv, BridgeShape
  <2>2. b \in Bridges
    BY <2>1 DEF Bridges
  <2>3. /\ bridge' = [bridge EXCEPT ![s] = b]
        /\ batch' = [batch EXCEPT ![s] = inbox[s]] /\ inbox' = [inbox EXCEPT ![s] = <<>>]
        /\ UNCHANGED <<relayVars, client, outbox, stage, unsent, offered, received>>
    BY <1>7 DEF Poll
  <2> HIDE DEF b
  <2>4. batch' \in [Seats -> Seq(Frames)] /\ inbox' \in [Seats -> Seq(Frames)]
    BY <2>3, EmptySeq DEF TypeInv, ClientShape, BridgeShape
  <2>5. bridge' \in [Seats -> Bridges]
    BY <2>2, <2>3 DEF TypeInv, BridgeShape
  <2>6. ClientShape'
    BY <2>3, <2>4 DEF TypeInv, ClientShape
  <2>7. BridgeShape'
    BY <2>3, <2>4, <2>5 DEF TypeInv, BridgeShape
  <2> QED
    BY <1>1, <2>3, <2>6, <2>7
<1>8. CASE Drain(s)
  <2>1. /\ batch' \in [Seats -> Seq(Frames)] /\ bridge' \in [Seats -> Bridges]
        /\ UNCHANGED <<relayVars, clientVars, unsent, offered>>
    <3>1. /\ bridge'[s] \in Bridges /\ bridge' = [bridge EXCEPT ![s] = bridge'[s]]
          /\ Tail(batch[s]) \in Seq(Frames) /\ batch' = [batch EXCEPT ![s] = Tail(batch[s])]
          /\ UNCHANGED <<relayVars, clientVars, unsent, offered>>
      BY <1>8, DrainEffect
    <3>2. bridge' \in [Seats -> Bridges]
      BY <3>1 DEF TypeInv, BridgeShape
    <3>3. batch' \in [Seats -> Seq(Frames)]
      BY <3>1 DEF TypeInv, BridgeShape
    <3> QED
      BY <3>1, <3>2, <3>3
  <2>2. Append(received[s], Head(batch[s]).body) \in Seq(Bodies)
    BY <1>8, DrainEffect, FrameFields DEF TypeInv, BridgeShape
  <2>3. \/ UNCHANGED received
        \/ received' = [received EXCEPT ![s] = Append(@, Head(batch[s]).body)]
    BY <1>8, DrainEffect
  <2>4. \/ UNCHANGED stage
        \/ stage' = [stage EXCEPT ![s] = "failed"]
    BY <1>8, DrainEffect DEF Fail
  <2>5. ClientShape'
    BY <2>1 DEF TypeInv, ClientShape, clientVars
  <2>6. BridgeShape'
    BY <2>1, <2>2, <2>3, <2>4 DEF TypeInv, BridgeShape
  <2> QED
    BY <1>1, <2>1, <2>5, <2>6
<1>9. CASE Flush(s)
  <2>1. /\ bridge' \in [Seats -> Bridges]
        /\ UNCHANGED <<relayVars, client, inbox, batch, offered, received>>
    BY <1>9, FlushEffect DEF TypeInv, BridgeShape
  <2>2. stage' = stage \/ stage' = [stage EXCEPT ![s] = "failed"]
    BY <1>9, FlushEffect
  <2>3. CASE UNCHANGED <<outbox, unsent>>
    BY <1>1, <2>1, <2>2, <2>3 DEF TypeInv, ClientShape, BridgeShape
  <2>4. CASE ~UNCHANGED <<outbox, unsent>>
    <3>1. /\ Pending("RFU", Head(unsent[s])) \in Notes /\ Tail(unsent[s]) \in Seq(Nat)
          /\ outbox' = [outbox EXCEPT ![s] = Append(@, Pending("RFU", Head(unsent[s])))]
          /\ unsent' = [unsent EXCEPT ![s] = Tail(@)]
      BY <1>9, <2>4, FlushEffect
    <3>2. Append(outbox[s], Pending("RFU", Head(unsent[s]))) \in Seq(Notes)
      BY <3>1 DEF TypeInv, ClientShape
    <3>3. ClientShape'
      BY <2>1, <3>1, <3>2 DEF TypeInv, ClientShape
    <3>4. BridgeShape'
      BY <2>1, <2>2, <3>1 DEF TypeInv, BridgeShape
    <3> QED
      BY <1>1, <2>1, <3>3, <3>4
  <2> QED
    BY <2>3, <2>4
<1>10. CASE SendRfu(s)
  <2>1. Append(unsent[s], offered[s] + 1) \in Seq(Nat) /\ offered[s] + 1 \in Nat
    BY DEF TypeInv, BridgeShape
  <2> QED
    BY <1>1, <1>10, <2>1 DEF SendRfu, TypeInv, ClientShape, BridgeShape, clientVars
<1> QED
  BY <1>2, <1>3, <1>4, <1>5, <1>6, <1>7, <1>8, <1>9, <1>10 DEF MainThread, Pump

LEMMA TypeSteps == TypeInv /\ [SessionNext]_tunnelVars => TypeInv'
<1> SUFFICES ASSUME TypeInv, [SessionNext]_tunnelVars PROVE TypeInv'
  OBVIOUS
<1>1. ASSUME NEW s \in Seats, Receive(s) PROVE TypeInv'
  BY <1>1, ReceiveCases, DroppedTypes, ReadFrameTypes
<1>2. ASSUME NEW s \in Seats, ClientLost(s) PROVE TypeInv'
  BY <1>2, ClientLostIsDrop, DroppedTypes
<1>3. CASE UNCHANGED tunnelVars
  BY <1>3 DEF tunnelVars, clientVars, bridgeVars, relayVars, sessionVars, TypeInv, ClientShape,
              BridgeShape, RelayInv, RelayTypeOK, RelayShape, ReadinessIsCurrent
<1> QED
  BY <1>1, <1>2, <1>3, ConnectTypes, RefusedTypes, SendPendingTypes, MainThreadTypes, RelayServesKeeps
  DEF SessionNext, TunnelThread

-----------------------------------------------------------------------------
(* What is in a queue.                                                     *)

Elems(q) == {q[i] : i \in 1..Len(q)}

LEMMA ElemsOfEmpty == Elems(<<>>) = {}
BY DEF Elems

LEMMA ElemsOfOne == \A x : Elems(<<x>>) = {x}
<1> TAKE x
<1>1. Len(<<x>>) = 1 /\ <<x>>[1] = x
  OBVIOUS
<1>2. \A i \in 1..Len(<<x>>) : <<x>>[i] = x
  BY <1>1
<1> QED
  BY <1>1, <1>2 DEF Elems

LEMMA ElemsAreElements ==
  ASSUME NEW S, NEW q \in Seq(S)
  PROVE  Elems(q) \subseteq S
BY DEF Elems

LEMMA ElemsOfAppend ==
  ASSUME NEW S, NEW q \in Seq(S), NEW x \in S
  PROVE  Elems(Append(q, x)) = Elems(q) \cup {x}
<1>1. Len(Append(q, x)) = Len(q) + 1 /\ Len(q) \in Nat
  OBVIOUS
<1>2. \A i \in 1..Len(q) : Append(q, x)[i] = q[i]
  OBVIOUS
<1>3. Append(q, x)[Len(q) + 1] = x
  OBVIOUS
<1>4. \A i \in 1..(Len(q) + 1) : i \in 1..Len(q) \/ i = Len(q) + 1
  BY <1>1
<1>5. \A i \in 1..Len(q) : i \in 1..(Len(q) + 1)
  BY <1>1
<1>6. Len(q) + 1 \in 1..(Len(q) + 1)
  BY <1>1
<1> QED
  BY <1>1, <1>2, <1>3, <1>4, <1>5, <1>6 DEF Elems

LEMMA ElemsOfConcat ==
  ASSUME NEW S, NEW q \in Seq(S), NEW r \in Seq(S)
  PROVE  Elems(q \o r) = Elems(q) \cup Elems(r)
<1>1. Len(q \o r) = Len(q) + Len(r) /\ Len(q) \in Nat /\ Len(r) \in Nat
  OBVIOUS
<1>2. \A i \in 1..Len(q) : i \in 1..Len(q \o r) /\ (q \o r)[i] = q[i]
  BY <1>1
<1>3. \A i \in 1..Len(r) : i + Len(q) \in 1..Len(q \o r) /\ (q \o r)[i + Len(q)] = r[i]
  BY <1>1
<1>4. \A i \in 1..Len(q \o r) :
        i \in 1..Len(q) \/ (i - Len(q) \in 1..Len(r) /\ (i - Len(q)) + Len(q) = i)
  BY <1>1
<1>5. Elems(q) \subseteq Elems(q \o r)
  BY <1>2 DEF Elems
<1>6. Elems(r) \subseteq Elems(q \o r)
  BY <1>3 DEF Elems
<1>7. Elems(q \o r) \subseteq Elems(q) \cup Elems(r)
  <2> SUFFICES ASSUME NEW i \in 1..Len(q \o r) PROVE (q \o r)[i] \in Elems(q) \cup Elems(r)
    BY DEF Elems
  <2>1. CASE i \in 1..Len(q)
    BY <2>1, <1>2 DEF Elems
  <2>2. CASE i \notin 1..Len(q)
    <3>1. i - Len(q) \in 1..Len(r) /\ (i - Len(q)) + Len(q) = i
      BY <2>2, <1>4
    <3>2. (q \o r)[i] = r[i - Len(q)]
      BY <3>1, <1>3
    <3> QED
      BY <3>1, <3>2 DEF Elems
  <2> QED
    BY <2>1, <2>2
<1> QED
  BY <1>5, <1>6, <1>7

LEMMA ElemsOfTail ==
  ASSUME NEW S, NEW q \in Seq(S), q # <<>>
  PROVE  Head(q) \in Elems(q) /\ Elems(Tail(q)) \subseteq Elems(q)
<1>1. Len(q) \in Nat /\ Len(q) >= 1 /\ Len(Tail(q)) = Len(q) - 1
  OBVIOUS
<1>2. Head(q) = q[1] /\ 1 \in 1..Len(q)
  BY <1>1
<1>3. \A i \in 1..Len(Tail(q)) : i + 1 \in 1..Len(q) /\ Tail(q)[i] = q[i + 1]
  BY <1>1
<1> QED
  BY <1>2, <1>3 DEF Elems

-----------------------------------------------------------------------------
(* The way of a frame, from the peer's queue to the local Switch.           *)

\* Frames a client handles itself.
Protocol == {"PEER_READY", "PROBE_CHALLENGE", "PROBE_RESPONSE", "PEER_CLOSE"}
Handshake == Protocol \cup {"ADVERTISEMENT"}

\* f is on its way before g: RFU by number; and while the advertisement is not known,
\* nothing of the bridge precedes it.
Before(known, f, g) ==
  /\ f.kind = "RFU" /\ g.kind = "RFU" => f.body < g.body
  /\ g.kind = "ADVERTISEMENT" /\ ~known => f.kind \in Handshake

Ordered(known, q) == \A i, j \in 1..Len(q) : i < j => Before(known, q[i], q[j])
Increasing(q)     == \A i, j \in 1..Len(q) : i < j => q[i] < q[j]

Numbered(q) == {Pending("RFU", n) : n \in Elems(q)}

Path(s) ==
  <<Numbered(received[s]), Elems(batch[s]), Elems(inbox[s]), Elems(down[s]),
    {pending[Peer(s)]} \ {NoFrame}, Elems(up[Peer(s)]), Elems(outbox[Peer(s)]),
    Numbered(unsent[Peer(s)])>>

Chain(known, P) ==
  \A i, j \in 1..8 : i < j => \A f \in P[i], g \in P[j] : Before(known, f, g)

Bounded(n, P) == \A i \in 1..8 : \A f \in P[i] : f.kind = "RFU" => f.body \in 1..n

\* Protocol frames come and go, others only leave.
LEMMA ChainShrinks ==
  ASSUME NEW known \in BOOLEAN, NEW known2 \in BOOLEAN, known => known2,
         NEW n \in Nat, NEW n2 \in Nat, n <= n2,
         NEW P, NEW Q, Chain(known, P), Bounded(n, P),
         \A i \in 1..8 : \A f \in Q[i] : f \in P[i] \/ f.kind \in Protocol
  PROVE  Chain(known2, Q) /\ Bounded(n2, Q)
<1>1. Chain(known2, Q)
  <2> SUFFICES ASSUME NEW i \in 1..8, NEW j \in 1..8, i < j, NEW f \in Q[i], NEW g \in Q[j]
               PROVE  Before(known2, f, g)
    BY DEF Chain
  <2>1. CASE f.kind \in Protocol \/ g.kind \in Protocol
    BY <2>1 DEF Before, Protocol, Handshake
  <2>2. CASE ~(f.kind \in Protocol \/ g.kind \in Protocol)
    <3>1. f \in P[i] /\ g \in P[j]
      BY <2>2
    <3>2. Before(known, f, g)
      BY <3>1 DEF Chain
    <3> QED
      BY <3>2 DEF Before
  <2> QED
    BY <2>1, <2>2
<1>2. Bounded(n2, Q)
  <2> SUFFICES ASSUME NEW i \in 1..8, NEW f \in Q[i], f.kind = "RFU" PROVE f.body \in 1..n2
    BY DEF Bounded
  <2>1. f \in P[i]
    BY DEF Protocol
  <2>2. f.body \in 1..n
    BY <2>1 DEF Bounded
  <2> QED
    BY <2>2
<1> QED
  BY <1>1, <1>2

\* The first of a stage, h, becomes the last of the next, x.
Moved(known, P, Q, k, h, x) ==
  /\ x.kind = h.kind /\ x.body = h.body
  /\ \A i \in 1..8 : \A f \in Q[i] : f \in P[i] \/ f.kind \in Protocol \/ (i = k /\ f = x)
  /\ \A f \in Q[k + 1] : f.kind \in Protocol \/ Before(known, h, f)

LEMMA ChainMoves ==
  ASSUME NEW known \in BOOLEAN, NEW known2 \in BOOLEAN, known => known2,
         NEW n \in Nat, NEW P, NEW Q, Chain(known, P), Bounded(n, P),
         NEW k \in 1..7, NEW h \in P[k + 1], NEW x, Moved(known, P, Q, k, h, x)
  PROVE  Chain(known2, Q) /\ Bounded(n, Q)
<1> USE DEF Moved
<1>0. k + 1 \in 1..8
  OBVIOUS
<1>1. Chain(known2, Q)
  <2> SUFFICES ASSUME NEW i \in 1..8, NEW j \in 1..8, i < j, NEW f \in Q[i], NEW g \in Q[j]
               PROVE  Before(known2, f, g)
    BY DEF Chain
  <2>1. CASE f.kind \in Protocol \/ g.kind \in Protocol
    BY <2>1 DEF Before, Protocol, Handshake
  <2>2. CASE f \in P[i] /\ g \in P[j]
    <3>1. Before(known, f, g)
      BY <2>2 DEF Chain
    <3> QED
      BY <3>1 DEF Before
  <2>3. CASE i = k /\ f = x /\ g.kind \notin Protocol
    <3>1. CASE j = k + 1
      <4>1. Before(known, h, g)
        BY <2>3, <3>1
      <4> QED
        BY <4>1, <2>3 DEF Before
    <3>2. CASE j # k + 1
      <4>1. k + 1 < j /\ g \in P[j]
        BY <2>3, <3>2
      <4>2. Before(known, h, g)
        BY <4>1, <1>0 DEF Chain
      <4> QED
        BY <4>2, <2>3 DEF Before
    <3> QED
      BY <3>1, <3>2
  <2>4. CASE j = k /\ g = x /\ f \in P[i]
    <3>1. i < k + 1
      BY <2>4
    <3>2. Before(known, f, h)
      BY <3>1, <2>4, <1>0 DEF Chain
    <3> QED
      BY <3>2, <2>4 DEF Before
  <2> QED
    BY <2>1, <2>2, <2>3, <2>4
<1>2. Bounded(n, Q)
  <2> SUFFICES ASSUME NEW i \in 1..8, NEW f \in Q[i], f.kind = "RFU" PROVE f.body \in 1..n
    BY DEF Bounded
  <2>1. CASE f \in P[i]
    BY <2>1 DEF Bounded
  <2>2. CASE f = x
    <3>1. h.kind = "RFU"
      BY <2>2
    <3>2. h.body \in 1..n
      BY <3>1, <1>0 DEF Bounded
    <3> QED
      BY <3>2, <2>2
  <2> QED
    BY <2>1, <2>2 DEF Protocol
<1> QED
  BY <1>1, <1>2

LEMMA OrderedEmpty == \A known : Ordered(known, <<>>)
BY DEF Ordered

LEMMA OrderedStays ==
  ASSUME NEW known \in BOOLEAN, NEW known2 \in BOOLEAN, known => known2, NEW q, Ordered(known, q)
  PROVE  Ordered(known2, q)
BY DEF Ordered, Before

LEMMA OrderedAppend ==
  ASSUME NEW S, NEW q \in Seq(S), NEW x \in S, NEW known, Ordered(known, q),
         \A f \in Elems(q) : Before(known, f, x)
  PROVE  Ordered(known, Append(q, x))
<1>1. Len(Append(q, x)) = Len(q) + 1 /\ Len(q) \in Nat
  OBVIOUS
<1>2. \A i \in 1..Len(q) : Append(q, x)[i] = q[i] /\ q[i] \in Elems(q)
  BY DEF Elems
<1>3. Append(q, x)[Len(q) + 1] = x
  OBVIOUS
<1> SUFFICES ASSUME NEW i \in 1..(Len(q) + 1), NEW j \in 1..(Len(q) + 1), i < j
             PROVE  Before(known, Append(q, x)[i], Append(q, x)[j])
  BY <1>1 DEF Ordered
<1>4. i \in 1..Len(q)
  BY <1>1
<1>5. CASE j \in 1..Len(q)
  BY <1>2, <1>4, <1>5 DEF Ordered
<1>6. CASE j = Len(q) + 1
  BY <1>2, <1>3, <1>4, <1>6
<1> QED
  BY <1>1, <1>5, <1>6

LEMMA OrderedTail ==
  ASSUME NEW S, NEW q \in Seq(S), q # <<>>, NEW known, Ordered(known, q)
  PROVE  Ordered(known, Tail(q)) /\ \A f \in Elems(Tail(q)) : Before(known, Head(q), f)
<1>1. Len(q) \in Nat /\ Len(q) >= 1 /\ Len(Tail(q)) = Len(q) - 1 /\ Head(q) = q[1]
  OBVIOUS
<1>2. \A i \in 1..Len(Tail(q)) : i + 1 \in 1..Len(q) /\ Tail(q)[i] = q[i + 1] /\ 1 < i + 1
  BY <1>1
<1>3. 1 \in 1..Len(q)
  BY <1>1
<1>4. \A f \in Elems(Tail(q)) : Before(known, Head(q), f)
  BY <1>1, <1>2, <1>3 DEF Elems, Ordered
<1>5. Ordered(known, Tail(q))
  <2> SUFFICES ASSUME NEW i \in 1..Len(Tail(q)), NEW j \in 1..Len(Tail(q)), i < j
               PROVE  Before(known, Tail(q)[i], Tail(q)[j])
    BY DEF Ordered
  <2>1. i + 1 < j + 1
    BY <1>1
  <2> QED
    BY <1>2, <2>1 DEF Ordered
<1> QED
  BY <1>4, <1>5

LEMMA OrderedConcat ==
  ASSUME NEW S, NEW q \in Seq(S), NEW r \in Seq(S), NEW known, Ordered(known, q),
         \A f \in Elems(r) : f.kind \in Protocol
  PROVE  Ordered(known, q \o r)
<1>1. Len(q \o r) = Len(q) + Len(r) /\ Len(q) \in Nat /\ Len(r) \in Nat
  OBVIOUS
<1>2. \A i \in 1..Len(q) : (q \o r)[i] = q[i]
  BY <1>1
<1>3. \A i \in 1..Len(q \o r) : i \notin 1..Len(q) => (q \o r)[i].kind \in Protocol
  <2> SUFFICES ASSUME NEW i \in 1..Len(q \o r), i \notin 1..Len(q)
               PROVE  (q \o r)[i].kind \in Protocol
    OBVIOUS
  <2>1. i - Len(q) \in 1..Len(r) /\ (q \o r)[i] = r[i - Len(q)]
    BY <1>1
  <2> QED
    BY <2>1 DEF Elems
<1> SUFFICES ASSUME NEW i \in 1..Len(q \o r), NEW j \in 1..Len(q \o r), i < j
             PROVE  Before(known, (q \o r)[i], (q \o r)[j])
  BY DEF Ordered
<1>4. CASE i \in 1..Len(q) /\ j \in 1..Len(q)
  BY <1>2, <1>4 DEF Ordered
<1>5. CASE i \notin 1..Len(q) \/ j \notin 1..Len(q)
  BY <1>3, <1>5 DEF Before, Protocol, Handshake
<1> QED
  BY <1>4, <1>5

LEMMA OrderedRetained ==
  ASSUME NEW q, NEW known, \A f \in Elems(q) : f.kind \in Retainable
  PROVE  Ordered(known, q)
<1>1. \A i \in 1..Len(q) : q[i].kind \in Retainable
  BY DEF Elems
<1> QED
  BY <1>1 DEF Ordered, Before, Retainable, Handshake, Protocol

LEMMA IncreasingAppend ==
  ASSUME NEW S, NEW q \in Seq(S), NEW n \in S, Increasing(q), \A m \in Elems(q) : m < n
  PROVE  Increasing(Append(q, n))
<1>1. Len(Append(q, n)) = Len(q) + 1 /\ Len(q) \in Nat
  OBVIOUS
<1>2. \A i \in 1..Len(q) : Append(q, n)[i] = q[i] /\ q[i] \in Elems(q)
  BY DEF Elems
<1>3. Append(q, n)[Len(q) + 1] = n
  OBVIOUS
<1> SUFFICES ASSUME NEW i \in 1..(Len(q) + 1), NEW j \in 1..(Len(q) + 1), i < j
             PROVE  Append(q, n)[i] < Append(q, n)[j]
  BY <1>1 DEF Increasing
<1>4. i \in 1..Len(q)
  BY <1>1
<1>5. CASE j \in 1..Len(q)
  BY <1>2, <1>4, <1>5 DEF Increasing
<1>6. CASE j = Len(q) + 1
  BY <1>2, <1>3, <1>4, <1>6
<1> QED
  BY <1>1, <1>5, <1>6

LEMMA IncreasingTail ==
  ASSUME NEW S, NEW q \in Seq(S), q # <<>>, Increasing(q)
  PROVE  Increasing(Tail(q)) /\ \A m \in Elems(Tail(q)) : Head(q) < m
<1>1. Len(q) \in Nat /\ Len(q) >= 1 /\ Len(Tail(q)) = Len(q) - 1 /\ Head(q) = q[1]
  OBVIOUS
<1>2. \A i \in 1..Len(Tail(q)) : i + 1 \in 1..Len(q) /\ Tail(q)[i] = q[i + 1] /\ 1 < i + 1
  BY <1>1
<1>3. 1 \in 1..Len(q)
  BY <1>1
<1>4. \A m \in Elems(Tail(q)) : Head(q) < m
  BY <1>1, <1>2, <1>3 DEF Elems, Increasing
<1>5. Increasing(Tail(q))
  <2> SUFFICES ASSUME NEW i \in 1..Len(Tail(q)), NEW j \in 1..Len(Tail(q)), i < j
               PROVE  Tail(q)[i] < Tail(q)[j]
    BY DEF Increasing
  <2>1. i + 1 < j + 1
    BY <1>1
  <2> QED
    BY <1>2, <2>1 DEF Increasing
<1> QED
  BY <1>4, <1>5

Knows(s) == client[s].advertisement

ChainOf(s) == Chain(Knows(s), Path(s)) /\ Bounded(offered[Peer(s)], Path(s))

QueuesOf(s) ==
  /\ Ordered(Knows(s), batch[s]) /\ Ordered(Knows(s), inbox[s]) /\ Ordered(Knows(s), down[s])
  /\ Ordered(Knows(s), up[Peer(s)]) /\ Ordered(Knows(s), outbox[Peer(s)])
  /\ Increasing(received[s]) /\ Increasing(unsent[Peer(s)])

\* Everything that is still on its way to the main thread of s.
Ahead(s) ==
  Elems(inbox[s]) \cup Elems(down[s]) \cup ({pending[Peer(s)]} \ {NoFrame}) \cup
  Elems(up[Peer(s)]) \cup Elems(outbox[Peer(s)])

Early(p) == stage[p] \in {"connecting", "advertisement"}

\* Only A advertises, before anything of its bridge; B's bridge begins with it.
EarlyOf(s) ==
  LET p == Peer(s) IN
  /\ \A f \in Ahead(s) :
       /\ f.kind = "ADVERTISEMENT" => p = "A"
       /\ Early(p) => f.kind \in Handshake
  /\ \A f \in Elems(retained[p]) : f.kind \in Retainable /\ (f.kind = "ADVERTISEMENT" => p = "A")
  /\ \A f \in Elems(inbox[s]) : f.kind \notin Protocol /\ (f.kind = "ADVERTISEMENT" => Knows(s))
  /\ s = "B" /\ ~Knows(s) => batch[s] = <<>> /\ received[s] = <<>> /\ stage[s] # "bridge"

OrderInv == \A s \in Seats : ChainOf(s) /\ QueuesOf(s) /\ EarlyOf(s)

LEMMA PathOf ==
  \A s : /\ Path(s)[1] = Numbered(received[s]) /\ Path(s)[2] = Elems(batch[s])
         /\ Path(s)[3] = Elems(inbox[s]) /\ Path(s)[4] = Elems(down[s])
         /\ Path(s)[5] = {pending[Peer(s)]} \ {NoFrame} /\ Path(s)[6] = Elems(up[Peer(s)])
         /\ Path(s)[7] = Elems(outbox[Peer(s)]) /\ Path(s)[8] = Numbered(unsent[Peer(s)])
BY DEF Path

LEMMA KnowsIsBoolean == TypeInv => \A s \in Seats : Knows(s) \in BOOLEAN
BY DEF Knows, TypeInv, ClientShape, Clients

\* What is on its way to a seat after a step: what was, protocol frames, and the one
\* frame that moved on.
Came(f, S, moved, x) == f \in S \/ f.kind \in Protocol \/ (moved /\ f = x)

\* Frame x moves into part k of the way to s; with k = 0 nothing moves.
Passes(s, k, x) ==
  /\ \A f \in Numbered(received'[s]) : Came(f, Numbered(received[s]), k = 1, x)
  /\ \A f \in Elems(batch'[s]) : Came(f, Elems(batch[s]), k = 2, x)
  /\ \A f \in Elems(inbox'[s]) : Came(f, Elems(inbox[s]), k = 3, x)
  /\ \A f \in Elems(down'[s]) : Came(f, Elems(down[s]), k = 4, x)
  /\ pending'[Peer(s)] \in {NoFrame, pending[Peer(s)]} \/ (k = 5 /\ pending'[Peer(s)] = x)
  /\ \A f \in Elems(up'[Peer(s)]) : Came(f, Elems(up[Peer(s)]), k = 6, x)
  /\ \A f \in Elems(outbox'[Peer(s)]) : Came(f, Elems(outbox[Peer(s)]), k = 7, x)
  /\ \A f \in Numbered(unsent'[Peer(s)]) : f \in Numbered(unsent[Peer(s)])

\* It was the first of the part before, S, of which T is left.
Leads(s, S, T, x) ==
  \E h \in S : /\ x.kind = h.kind /\ x.body = h.body
               /\ \A f \in T : f.kind \in Protocol \/ Before(Knows(s), h, f)

LEMMA PathMoves ==
  ASSUME TypeInv, TypeInv', NEW s \in Seats, ChainOf(s), Knows(s) => Knows(s)',
         offered' = offered, NEW k \in 0..7, NEW x, Passes(s, k, x),
         k # 0 => Leads(s, Path(s)[k + 1], Path(s)'[k + 1], x)
  PROVE  ChainOf(s)'
<1> USE DEF Passes, Leads
<1> DEFINE P == Path(s) Q == Path(s)' n == offered[Peer(s)]
<1>1. \A i \in 1..8 : i = 1 \/ i = 2 \/ i = 3 \/ i = 4 \/ i = 5 \/ i = 6 \/ i = 7 \/ i = 8
  OBVIOUS
<1>2. /\ Q[1] = Numbered(received'[s]) /\ Q[2] = Elems(batch'[s])
      /\ Q[3] = Elems(inbox'[s]) /\ Q[4] = Elems(down'[s])
      /\ Q[5] = {pending'[Peer(s)]} \ {NoFrame} /\ Q[6] = Elems(up'[Peer(s)])
      /\ Q[7] = Elems(outbox'[Peer(s)]) /\ Q[8] = Numbered(unsent'[Peer(s)])
  BY DEF Path, Numbered, Elems
<1>3. \A i \in 1..8 : \A f \in Q[i] : f \in P[i] \/ f.kind \in Protocol \/ (k # 0 /\ i = k /\ f = x)
  <2> SUFFICES ASSUME NEW i \in 1..8, NEW f \in Q[i] PROVE Came(f, P[i], k # 0 /\ i = k, x)
    BY DEF Came
  <2> HIDE DEF P, Q
  <2>0. /\ P[1] = Numbered(received[s]) /\ P[2] = Elems(batch[s])
        /\ P[3] = Elems(inbox[s]) /\ P[4] = Elems(down[s])
        /\ P[5] = {pending[Peer(s)]} \ {NoFrame} /\ P[6] = Elems(up[Peer(s)])
        /\ P[7] = Elems(outbox[Peer(s)]) /\ P[8] = Numbered(unsent[Peer(s)])
    BY PathOf DEF P
  <2>1. CASE i = 1
    BY <1>2, <2>0, <2>1 DEF Came
  <2>2. CASE i = 2
    BY <1>2, <2>0, <2>2 DEF Came
  <2>3. CASE i = 3
    BY <1>2, <2>0, <2>3 DEF Came
  <2>4. CASE i = 4
    BY <1>2, <2>0, <2>4 DEF Came
  <2>5. CASE i = 5
    BY <1>2, <2>0, <2>5 DEF Came
  <2>6. CASE i = 6
    BY <1>2, <2>0, <2>6 DEF Came
  <2>7. CASE i = 7
    BY <1>2, <2>0, <2>7 DEF Came
  <2>8. CASE i = 8
    BY <1>2, <2>0, <2>8 DEF Came
  <2> QED
    BY <1>1, <2>1, <2>2, <2>3, <2>4, <2>5, <2>6, <2>7, <2>8
<1>4. /\ Knows(s) \in BOOLEAN /\ Knows(s)' \in BOOLEAN /\ n \in Nat
      /\ Chain(Knows(s), P) /\ Bounded(n, P)
  BY KnowsIsBoolean, PeerIsOther DEF TypeInv, BridgeShape, ChainOf, Knows, ClientShape, Clients
<1>5. Chain(Knows(s)', Q) /\ Bounded(n, Q)
  <2> HIDE DEF P, Q, n
  <2>1. CASE k = 0
    BY <1>3, <1>4, <2>1, ChainShrinks
  <2>2. CASE k # 0
    <3>1. PICK h \in P[k + 1] :
             /\ x.kind = h.kind /\ x.body = h.body
             /\ \A f \in Q[k + 1] : f.kind \in Protocol \/ Before(Knows(s), h, f)
      BY <2>2 DEF P, Q
    <3>2. k \in 1..7
      BY <2>2
    <3>3. \A i \in 1..8 : \A f \in Q[i] : f \in P[i] \/ f.kind \in Protocol \/ (i = k /\ f = x)
      BY <1>3
    <3> DEFINE old == Knows(s) new == Knows(s)'
    <3>4. /\ old \in BOOLEAN /\ new \in BOOLEAN /\ n \in Nat /\ (old => new)
          /\ Chain(old, P) /\ Bounded(n, P)
          /\ \A f \in Q[k + 1] : f.kind \in Protocol \/ Before(old, h, f)
      BY <1>4, <3>1
    <3> HIDE DEF old, new
    <3>5. Moved(old, P, Q, k, h, x)
      BY <3>1, <3>3, <3>4 DEF Moved
    <3>6. Chain(new, Q) /\ Bounded(n, Q)
      BY <3>1, <3>2, <3>4, <3>5, ChainMoves
    <3> QED
      BY <3>6 DEF new
  <2> QED
    BY <2>1, <2>2
<1> QED
  BY <1>5 DEF ChainOf

LEMMA OrderStays ==
  ASSUME NEW s, ChainOf(s), QueuesOf(s), Knows(s)' = Knows(s), Peer(s)' = Peer(s),
         offered'[Peer(s)] = offered[Peer(s)],
         received'[s] = received[s], batch'[s] = batch[s], inbox'[s] = inbox[s],
         down'[s] = down[s], pending'[Peer(s)] = pending[Peer(s)], up'[Peer(s)] = up[Peer(s)],
         outbox'[Peer(s)] = outbox[Peer(s)], unsent'[Peer(s)] = unsent[Peer(s)]
  PROVE  ChainOf(s)' /\ QueuesOf(s)'
<1>1. Path(s)' = Path(s)
  BY DEF Path, Numbered, Elems
<1>2. ChainOf(s)'
  BY <1>1 DEF ChainOf
<1>3. QueuesOf(s)'
  BY DEF QueuesOf, Ordered, Increasing
<1> QED
  BY <1>2, <1>3

LEMMA EarlyKeeps ==
  ASSUME NEW s \in Seats, EarlyOf(s), Knows(s) => Knows(s)',
         \A f \in Ahead(s)' : \/ f.kind \in Protocol
                              \/ f \in Elems(retained[Peer(s)])
                              \/ \E h \in Ahead(s) : f.kind = h.kind,
         \A f \in Elems(retained[Peer(s)])' :
           f \in Elems(retained[Peer(s)]) \/ (f.kind \in Retainable /\ f \in Ahead(s)),
         \A f \in Elems(inbox[s])' :
           \/ f \in Elems(inbox[s])
           \/ f.kind \notin Protocol /\ (f.kind = "ADVERTISEMENT" => Knows(s)'),
         s = "B" /\ ~Knows(s)' =>
           /\ batch'[s] = batch[s] \/ batch'[s] = <<>>
           /\ received'[s] = received[s]
           /\ stage'[s] = "bridge" => stage[s] = "bridge",
         Early(Peer(s))' => Early(Peer(s))
  PROVE  EarlyOf(s)'
<1>1. \A f \in Ahead(s)' :
        /\ f.kind = "ADVERTISEMENT" => Peer(s) = "A"
        /\ Early(Peer(s))' => f.kind \in Handshake
  BY DEF EarlyOf, Protocol, Handshake, Retainable
<1>2. \A f \in Elems(retained[Peer(s)])' :
        f.kind \in Retainable /\ (f.kind = "ADVERTISEMENT" => Peer(s) = "A")
  BY DEF EarlyOf
<1>3. \A f \in Elems(inbox[s])' : f.kind \notin Protocol /\ (f.kind = "ADVERTISEMENT" => Knows(s)')
  BY DEF EarlyOf
<1>4. s = "B" /\ ~Knows(s)' => batch'[s] = <<>> /\ received'[s] = <<>> /\ stage'[s] # "bridge"
  BY DEF EarlyOf
<1> QED
  BY <1>1, <1>2, <1>3, <1>4 DEF EarlyOf

\* A step that leaves every queue alone.
LEMMA QuietOrder ==
  ASSUME OrderInv,
         UNCHANGED <<received, batch, inbox, down, pending, up, outbox, unsent, offered>>,
         \A s \in Seats :
           /\ Knows(s)' = Knows(s)
           /\ stage'[s] = "bridge" => stage[s] = "bridge"
           /\ Early(s)' => Early(s)
           /\ retained'[s] = retained[s] \/ retained'[s] = <<>>
  PROVE  OrderInv'
<1> SUFFICES ASSUME NEW s \in Seats PROVE ChainOf(s)' /\ QueuesOf(s)' /\ EarlyOf(s)'
  BY DEF OrderInv
<1>1. ChainOf(s) /\ QueuesOf(s) /\ EarlyOf(s) /\ Peer(s) \in Seats
  BY PeerIsOther DEF OrderInv
<1>2. ChainOf(s)' /\ QueuesOf(s)'
  BY <1>1, OrderStays
<1>3. Ahead(s)' = Ahead(s)
  BY DEF Ahead, Elems
<1>4. \A f \in Elems(retained[Peer(s)])' : f \in Elems(retained[Peer(s)])
  <2>1. CASE retained'[Peer(s)] = <<>>
    BY <2>1, ElemsOfEmpty
  <2>2. CASE retained'[Peer(s)] = retained[Peer(s)]
    BY <2>2 DEF Elems
  <2> QED
    BY <1>1, <2>1, <2>2
<1>5. Elems(inbox[s])' = Elems(inbox[s])
  BY DEF Elems
<1>6. EarlyOf(s)'
  BY <1>1, <1>3, <1>4, <1>5, EarlyKeeps
<1> QED
  BY <1>2, <1>6

\* Both sides of what a seat does.
LEMMA OrderBothSides ==
  ASSUME NEW s \in Seats,
         ChainOf(s)' /\ QueuesOf(s)' /\ EarlyOf(s)',
         ChainOf(Peer(s))' /\ QueuesOf(Peer(s))' /\ EarlyOf(Peer(s))'
  PROVE  OrderInv'
<1>1. \A x \in Seats : x = s \/ x = Peer(s)
  BY DEF Seats, Peer
<1> QED
  BY <1>1 DEF OrderInv

LEMMA DroppedOrder ==
  ASSUME TypeInv, TypeInv', OrderInv, NEW s \in Seats, Dropped(s), Knows(s)' = Knows(s),
         UNCHANGED <<sessionVars, handlers, pending, outbox, bridgeVars>>
  PROVE  OrderInv'
<1> DEFINE p == Peer(s)
<1>1. /\ p \in Seats /\ p # s /\ Peer(p) = s
      /\ ChainOf(s) /\ QueuesOf(s) /\ EarlyOf(s) /\ ChainOf(p) /\ QueuesOf(p) /\ EarlyOf(p)
  BY PeerIsOther DEF OrderInv
<1>2. /\ UNCHANGED <<up, inbox, received, batch, pending, outbox, unsent, offered, stage, retained>>
      /\ down'[s] = <<>> /\ down'[p] = down[p]
  BY <1>1 DEF Dropped, bridgeVars, sessionVars, TypeInv, RelayInv, RelayShape
<1>3. Knows(p)' = Knows(p)
  BY <1>1, DroppedEffect DEF Knows, TypeInv, ClientShape
<1>4. Elems(down[s])' = {}
  BY <1>2, ElemsOfEmpty DEF Elems
<1>5. ChainOf(s)'
  <2>1. Passes(s, 0, NoFrame)
    BY <1>1, <1>2, ElemsOfEmpty DEF Came, Passes
  <2> QED
    BY <1>1, <1>2, <2>1, PathMoves
<1>6. QueuesOf(s)'
  BY <1>1, <1>2, OrderedEmpty DEF QueuesOf, Ordered, Increasing
<1>7. Ahead(s)' \subseteq Ahead(s) /\ Elems(inbox[s])' = Elems(inbox[s])
  BY <1>2, <1>4 DEF Ahead, Elems
<1>8. EarlyOf(s)'
  <2>1. Elems(retained[p])' = Elems(retained[p]) /\ Early(p)' = Early(p)
    BY <1>2 DEF Elems, Early
  <2> QED
    BY <1>1, <1>2, <1>7, <2>1, EarlyKeeps
<1>9. ChainOf(p)' /\ QueuesOf(p)'
  BY <1>1, <1>2, <1>3, OrderStays
<1>10. EarlyOf(p)'
  <2>1. Ahead(p)' = Ahead(p) /\ Elems(retained[s])' = Elems(retained[s]) /\ Early(s)' = Early(s)
         /\ Elems(inbox[p])' = Elems(inbox[p])
    BY <1>1, <1>2 DEF Ahead, Elems, Early
  <2> QED
    BY <1>1, <1>2, <1>3, <2>1, EarlyKeeps
<1> QED
  BY <1>1, <1>5, <1>6, <1>8, <1>9, <1>10, OrderBothSides

\* What a client sends is in its queue, unless nobody serves it.
LEMMA SentFrames ==
  ASSUME TypeInv, NEW s \in Seats, NEW q \in Seq(Frames)
  PROVE  \E r \in Seq(Frames) : /\ Sent(s, q) = [up EXCEPT ![s] = up[s] \o r]
                                /\ r = q \/ r = <<>>
<1>1. CASE handlers[s] = "serving"
  BY <1>1 DEF Sent
<1>2. CASE handlers[s] # "serving"
  <2>1. up[s] \in Seq(Frames) /\ up \in [Seats -> Seq(Frames)]
    BY DEF TypeInv, RelayInv, RelayShape
  <2>2. up[s] \o <<>> = up[s] /\ <<>> \in Seq(Frames)
    BY <2>1
  <2>3. [up EXCEPT ![s] = up[s] \o <<>>] = up
    BY <2>1, <2>2
  <2> QED
    BY <1>2, <2>2, <2>3 DEF Sent
<1> QED
  BY <1>1, <1>2

\* What a client, then with state n, sends in answer to the frame f.
Answers(n, f, g) ==
  /\ g.kind \in Protocol /\ g.epoch = n.epoch
  /\ g.kind = "PROBE_CHALLENGE" => g.body = n.challenge
  /\ g.kind = "PROBE_RESPONSE" => n.answered /\ f.kind = "PROBE_CHALLENGE" /\ g.body = f.body

\* An accepted frame: the client's gate follows it, protocol frames of the client's epoch
\* answer it, others may join the inbox.
LEMMA ReadFrameEffect ==
  ASSUME TypeInv, NEW s \in Seats, Head(down[s]) \in Frames, ReadFrame(s)
  PROVE  LET f == Head(down[s]) c == client[s] n == client'[s] IN
         /\ n \in Clients /\ client' = [client EXCEPT ![s] = n]
         /\ n.up = c.up /\ n.sideSent = c.sideSent /\ n.error = c.error
         /\ n.gate.epoch = f.epoch
         /\ c.advertisement => n.advertisement
         /\ \E q \in Seq(Frames) :
              /\ up' = [up EXCEPT ![s] = up[s] \o q]
              /\ \A g \in Elems(q) : Answers(n, f, g)
         /\ \/ inbox' = inbox
            \/ /\ inbox' = [inbox EXCEPT ![s] = Append(@, f)] /\ f.kind \notin Protocol
               /\ f.kind = "ADVERTISEMENT" => n.advertisement
<1> DEFINE f == Head(down[s]) c == client[s] n == client'[s]
<1>1. /\ c \in Clients /\ c.epoch \in Nat /\ c.seq \in Nat /\ f.body \in Bodies
      /\ up \in [Seats -> Seq(Frames)]
  BY FrameFields DEF TypeInv, ClientShape, Clients, RelayInv, RelayShape
<1>2. "PEER_READY" \in FrameKinds /\ "PROBE_CHALLENGE" \in FrameKinds /\ "PROBE_RESPONSE" \in FrameKinds
  BY DEF FrameKinds
<1>3. ASSUME up' = up
      PROVE  \E q \in Seq(Frames) : /\ up' = [up EXCEPT ![s] = up[s] \o q]
                                    /\ \A g \in Elems(q) : Answers(n, f, g)
  <2>1. up[s] \o <<>> = up[s]
    BY <1>1
  <2>2. up' = [up EXCEPT ![s] = up[s] \o <<>>]
    BY <1>1, <1>3, <2>1
  <2> QED
    BY <2>2, ElemsOfEmpty, EmptySeq
<1>4. CASE OnPeerReady(s, f)
  <2>1. /\ n \in Clients /\ client' = [client EXCEPT ![s] = n] /\ n.gate.epoch = f.epoch
        /\ n.up = c.up /\ n.sideSent = c.sideSent /\ n.error = c.error
        /\ n.advertisement = c.advertisement
    BY <1>4, PeerReadyEffect
  <2>2. PICK i \in Nat :
          up' = Sent(s, (IF Again(s, f) THEN <<Frame(n.epoch, 0, "PEER_READY", 0)>> ELSE <<>>) \o
                        <<Frame(n.epoch, i, "PROBE_CHALLENGE", n.challenge)>>)
    BY <1>4, PeerReadyEffect
  <2> DEFINE a == Frame(n.epoch, 0, "PEER_READY", 0)
             b == Frame(n.epoch, i, "PROBE_CHALLENGE", n.challenge)
             first == IF Again(s, f) THEN <<a>> ELSE <<>>
             second == <<b>>
             q == first \o second
  <2>3. n.epoch \in Nat /\ n.challenge \in Bodies
    BY <2>1 DEF Clients, Bodies
  <2>4. a \in Frames /\ b \in Frames
    BY <1>2, <2>3 DEF Frame, Frames, Bodies
  <2>5. Answers(n, f, a) /\ Answers(n, f, b)
    BY DEF Frame, Protocol, Answers
  <2> HIDE DEF a, b
  <2>6. /\ first \in Seq(Frames) /\ second \in Seq(Frames)
        /\ Elems(first) \subseteq {a} /\ Elems(second) = {b}
    BY <2>4, ElemsOfOne, ElemsOfEmpty, EmptySeq, SingleSeq
  <2>7. q \in Seq(Frames) /\ Elems(q) \subseteq {a, b}
    <3> HIDE DEF first, second
    <3> QED
      BY <2>6, ElemsOfConcat
  <2>8. up' = Sent(s, q)
    BY <2>2 DEF a, b
  <2> HIDE DEF q
  <2>9. PICK r \in Seq(Frames) : Sent(s, q) = [up EXCEPT ![s] = up[s] \o r] /\ (r = q \/ r = <<>>)
    BY <2>7, SentFrames
  <2>10. \A g \in Elems(r) : Answers(n, f, g)
    BY <2>5, <2>7, <2>9, ElemsOfEmpty
  <2>11. inbox' = inbox
    BY <1>4 DEF OnPeerReady
  <2> QED
    BY <2>1, <2>8, <2>9, <2>10, <2>11
<1>5. CASE f.kind = "PROBE_CHALLENGE" /\ OnChallenge(s, f)
  <2>1. /\ n \in Clients /\ client' = [client EXCEPT ![s] = n] /\ n.gate.epoch = f.epoch
        /\ SameConnection(c, n) /\ n.advertisement = c.advertisement /\ n.answered
        /\ up' = Sent(s, <<Frame(c.epoch, c.seq, "PROBE_RESPONSE", f.body)>>)
    BY <1>5, ChallengeEffect
  <2> DEFINE a == Frame(c.epoch, c.seq, "PROBE_RESPONSE", f.body)
  <2>2. a \in Frames
    BY <1>1, <1>2 DEF Frame, Frames, Bodies
  <2>3. Answers(n, f, a)
    BY <1>5, <2>1 DEF Frame, Protocol, SameConnection, Answers
  <2> HIDE DEF a
  <2>4. <<a>> \in Seq(Frames)
    BY <2>2
  <2>5. PICK r \in Seq(Frames) : /\ Sent(s, <<a>>) = [up EXCEPT ![s] = up[s] \o r]
                                 /\ r = <<a>> \/ r = <<>>
    BY <2>4, SentFrames
  <2>6. \A g \in Elems(r) : Answers(n, f, g)
    BY <2>3, <2>5, ElemsOfEmpty, ElemsOfOne
  <2>7. inbox' = inbox
    BY <1>5 DEF OnChallenge
  <2>8. up' = [up EXCEPT ![s] = up[s] \o r]
    BY <2>1, <2>5 DEF a
  <2> QED
    BY <2>1, <2>6, <2>7, <2>8 DEF SameConnection
<1>6. CASE OwnResponse(s, f)
  <2>1. /\ n \in Clients /\ client' = [client EXCEPT ![s] = n] /\ n.gate.epoch = f.epoch
        /\ SameConnection(c, n) /\ n.advertisement = c.advertisement
    BY <1>6, ResponseEffect
  <2>2. up' = up /\ inbox' = inbox
    BY <1>6 DEF OwnResponse
  <2> QED
    BY <1>3, <2>1, <2>2 DEF SameConnection
<1>7. CASE Delivered(s, f)
  <2>1. /\ n \in Clients /\ client' = [client EXCEPT ![s] = n] /\ n.gate.epoch = f.epoch
        /\ SameConnection(c, n)
        /\ c.advertisement => n.advertisement
    BY <1>7, DeliveredEffect
  <2>2. up' = up /\ f.kind \notin Protocol
    BY <1>7 DEF Delivered, Protocol
  <2>3. \/ inbox' = inbox
        \/ /\ inbox' = [inbox EXCEPT ![s] = Append(@, f)]
           /\ f.kind = "ADVERTISEMENT" => n.advertisement
    BY <1>7 DEF Delivered
  <2> QED
    BY <1>3, <2>1, <2>2, <2>3 DEF SameConnection
<1> QED
  BY <1>4, <1>5, <1>6, <1>7 DEF ReadFrame

\* Every queue is as it was or in order by itself.
Follows(s) ==
  /\ batch'[s] = batch[s] \/ Ordered(Knows(s)', batch'[s])
  /\ inbox'[s] = inbox[s] \/ Ordered(Knows(s)', inbox'[s])
  /\ down'[s] = down[s] \/ Ordered(Knows(s)', down'[s])
  /\ up'[Peer(s)] = up[Peer(s)] \/ Ordered(Knows(s)', up'[Peer(s)])
  /\ outbox'[Peer(s)] = outbox[Peer(s)] \/ Ordered(Knows(s)', outbox'[Peer(s)])
  /\ received'[s] = received[s] \/ Increasing(received'[s])
  /\ unsent'[Peer(s)] = unsent[Peer(s)] \/ Increasing(unsent'[Peer(s)])

LEMMA QueuesStay ==
  ASSUME TypeInv, TypeInv', NEW s \in Seats, QueuesOf(s), Knows(s) => Knows(s)', Follows(s)
  PROVE  QueuesOf(s)'
<1> DEFINE old == Knows(s) new == Knows(s)'
<1>1. old \in BOOLEAN /\ new \in BOOLEAN /\ (old => new)
  BY DEF Knows, TypeInv, ClientShape, Clients
<1>2. /\ Ordered(old, batch[s]) /\ Ordered(old, inbox[s]) /\ Ordered(old, down[s])
      /\ Ordered(old, up[Peer(s)]) /\ Ordered(old, outbox[Peer(s)])
  BY DEF QueuesOf
<1>3. /\ Ordered(new, batch[s]) /\ Ordered(new, inbox[s]) /\ Ordered(new, down[s])
      /\ Ordered(new, up[Peer(s)]) /\ Ordered(new, outbox[Peer(s)])
  <2> HIDE DEF old, new
  <2>1. \A q : Ordered(old, q) => Ordered(new, q)
    BY <1>1, OrderedStays
  <2> QED
    BY <1>2, <2>1
<1>4. /\ Ordered(new, batch'[s]) /\ Ordered(new, inbox'[s]) /\ Ordered(new, down'[s])
      /\ Ordered(new, up'[Peer(s)]) /\ Ordered(new, outbox'[Peer(s)])
  BY <1>3 DEF Follows
<1>5. Increasing(received'[s]) /\ Increasing(unsent'[Peer(s)])
  BY DEF Follows, QueuesOf
<1> QED
  BY <1>4, <1>5 DEF QueuesOf, Ordered, Increasing

\* What a seat sends itself changes nothing of the order in which its bridge's frames travel.
LEMMA AnswersOrder ==
  ASSUME TypeInv, TypeInv', OrderInv, NEW s \in Seats, NEW q \in Seq(Frames),
         up' = [up EXCEPT ![s] = up[s] \o q], \A g \in Elems(q) : g.kind \in Protocol,
         Knows(Peer(s))' = Knows(Peer(s)), down'[Peer(s)] = down[Peer(s)],
         inbox'[Peer(s)] = inbox[Peer(s)],
         UNCHANGED <<pending, outbox, batch, received, unsent, offered, stage, retained>>
  PROVE  ChainOf(Peer(s))' /\ QueuesOf(Peer(s))' /\ EarlyOf(Peer(s))'
<1> DEFINE p == Peer(s)
<1>1. /\ p \in Seats /\ Peer(p) = s /\ ChainOf(p) /\ QueuesOf(p) /\ EarlyOf(p)
  BY PeerIsOther DEF OrderInv
<1>2. up[s] \in Seq(Frames) /\ up'[s] = up[s] \o q
  BY DEF TypeInv, RelayInv, RelayShape
<1>3. Elems(up'[s]) = Elems(up[s]) \cup Elems(q)
  <2> DEFINE u == up[s]
  <2>1. u \in Seq(Frames) /\ up'[s] = u \o q
    BY <1>2
  <2> HIDE DEF u
  <2>2. Elems(u \o q) = Elems(u) \cup Elems(q)
    BY <2>1, ElemsOfConcat
  <2>3. Elems(up'[s]) = Elems(u \o q)
    BY <2>1
  <2> QED
    BY <2>2, <2>3 DEF u
<1>4. ChainOf(p)'
  <2>1. Passes(p, 0, NoFrame)
    BY <1>1, <1>3 DEF Came, Passes
  <2> QED
    BY <1>1, <2>1, PathMoves
<1>5. QueuesOf(p)'
  <2>1. Ordered(Knows(p), up'[s])
    BY <1>1, <1>2, OrderedConcat DEF QueuesOf
  <2>2. Follows(p)
    BY <1>1, <2>1 DEF Follows
  <2> QED
    BY <1>1, <2>2, QueuesStay
<1>6. EarlyOf(p)'
  <2>1. \A f \in Ahead(p)' : f.kind \in Protocol \/ f \in Ahead(p)
    <3>1. /\ Elems(inbox[p])' = Elems(inbox[p]) /\ Elems(down[p])' = Elems(down[p])
          /\ Elems(outbox[s])' = Elems(outbox[s]) /\ pending'[s] = pending[s]
          /\ Elems(up[s])' = Elems(up[s]) \cup Elems(q)
      BY <1>3 DEF Elems
    <3>2. Ahead(p) = Elems(inbox[p]) \cup Elems(down[p]) \cup ({pending[s]} \ {NoFrame}) \cup
                     Elems(up[s]) \cup Elems(outbox[s])
      BY <1>1 DEF Ahead
    <3>3. Ahead(p)' = Elems(inbox[p])' \cup Elems(down[p])' \cup ({pending'[s]} \ {NoFrame}) \cup
                      Elems(up[s])' \cup Elems(outbox[s])'
      BY <1>1 DEF Ahead
    <3> QED
      BY <3>1, <3>2, <3>3
  <2>2. Elems(retained[s])' = Elems(retained[s]) /\ Early(s)' = Early(s) /\ Elems(inbox[p])' = Elems(inbox[p])
    BY DEF Elems, Early
  <2> QED
    BY <1>1, <2>1, <2>2, EarlyKeeps
<1> QED
  BY <1>4, <1>5, <1>6

LEMMA ReadFrameOrder ==
  ASSUME TypeInv, TypeInv', OrderInv, NEW s \in Seats, down[s] # <<>>, Head(down[s]) \in Frames,
         UNCHANGED <<sessionVars, handlers, pending, outbox, bridgeVars>>, ReadFrame(s)
  PROVE  OrderInv'
<1> DEFINE p == Peer(s) f == Head(down[s])
<1>1. /\ p \in Seats /\ p # s /\ Peer(p) = s
      /\ ChainOf(s) /\ QueuesOf(s) /\ EarlyOf(s)
  BY PeerIsOther DEF OrderInv
<1>2. /\ UNCHANGED <<received, batch, pending, outbox, unsent, offered, stage, retained>>
  BY DEF bridgeVars, sessionVars
<1>3. /\ down[s] \in Seq(Frames) /\ down'[s] = Tail(down[s]) /\ down'[p] = down[p]
      /\ inbox[s] \in Seq(Frames)
  BY <1>1 DEF ReadFrame, TypeInv, RelayInv, RelayShape, ClientShape
<1>4. f \in Elems(down[s]) /\ Elems(down'[s]) \subseteq Elems(down[s])
  BY <1>3, ElemsOfTail
<1>5. PICK q \in Seq(Frames) : /\ up' = [up EXCEPT ![s] = up[s] \o q]
                               /\ \A g \in Elems(q) : g.kind \in Protocol
  BY ReadFrameEffect DEF Answers
<1>6. Knows(p)' = Knows(p) /\ (Knows(s) => Knows(s)')
  BY <1>1, ReadFrameEffect DEF Knows, TypeInv, ClientShape
<1>7. \/ inbox'[s] = inbox[s]
      \/ inbox'[s] = Append(inbox[s], f) /\ f.kind \notin Protocol /\ (f.kind = "ADVERTISEMENT" => Knows(s)')
  BY ReadFrameEffect DEF Knows, TypeInv, ClientShape
<1>8. inbox'[p] = inbox[p] /\ up'[p] = up[p]
  <2>1. inbox' = inbox \/ inbox' = [inbox EXCEPT ![s] = Append(@, f)]
    BY ReadFrameEffect
  <2>2. up'[p] = up[p]
    BY <1>1, <1>5 DEF TypeInv, RelayInv, RelayShape
  <2>3. inbox'[p] = inbox[p]
    BY <1>1, <2>1 DEF TypeInv, ClientShape
  <2> QED
    BY <2>2, <2>3
<1>9. Ordered(Knows(s), down'[s]) /\ \A g \in Elems(down'[s]) : Before(Knows(s), f, g)
  BY <1>1, <1>3, OrderedTail DEF QueuesOf
<1>10. \A g \in Elems(inbox'[s]) : g \in Elems(inbox[s]) \/ (inbox'[s] # inbox[s] /\ g = f)
  <2>1. Elems(Append(inbox[s], f)) = Elems(inbox[s]) \cup {f}
    BY <1>3, ElemsOfAppend
  <2> QED
    BY <1>7, <2>1
<1>11. ChainOf(s)'
  <2>1. CASE inbox'[s] = inbox[s]
    <3>1. Passes(s, 0, f)
      BY <1>2, <1>4, <1>8, <2>1 DEF Came, Passes
    <3> QED
      BY <1>1, <1>2, <1>6, <3>1, PathMoves
  <2>2. CASE inbox'[s] # inbox[s]
    <3>1. Passes(s, 3, f)
      BY <1>2, <1>4, <1>8, <1>10 DEF Came, Passes
    <3>2. f \in Path(s)[3 + 1] /\ Path(s)'[3 + 1] = Elems(down'[s])
      BY <1>4, PathOf DEF Path, Elems
    <3>3. Leads(s, Path(s)[3 + 1], Path(s)'[3 + 1], f)
      BY <1>9, <3>2 DEF Leads
    <3> HIDE DEF f
    <3> QED
      BY <1>1, <1>2, <1>6, <3>1, <3>3, PathMoves
  <2> QED
    BY <2>1, <2>2
<1>12. QueuesOf(s)'
  <2>1. \A g \in Elems(inbox[s]) : Before(Knows(s), g, f)
    <3>1. f \in Path(s)[4] /\ Path(s)[3] = Elems(inbox[s])
      BY <1>4, PathOf
    <3> QED
      BY <1>1, <3>1 DEF ChainOf, Chain
  <2> DEFINE old == Knows(s) new == Knows(s)'
  <2>2. Ordered(old, inbox'[s])
    <3>1. Ordered(old, inbox[s])
      BY <1>1 DEF QueuesOf
    <3>2. Ordered(old, Append(inbox[s], f))
      BY <1>3, <1>4, <2>1, <3>1, OrderedAppend
    <3> QED
      BY <1>7, <3>1, <3>2
  <2>3. old \in BOOLEAN /\ new \in BOOLEAN /\ (old => new) /\ Ordered(old, down'[s])
    BY <1>6, <1>9 DEF Knows, TypeInv, ClientShape, Clients
  <2>4. Ordered(new, inbox'[s]) /\ Ordered(new, down'[s])
    <3> HIDE DEF old, new
    <3> QED
      BY <2>2, <2>3, OrderedStays
  <2>5. Follows(s)
    BY <1>2, <1>8, <2>4 DEF Follows
  <2> QED
    BY <1>1, <1>6, <2>5, QueuesStay
<1>13. EarlyOf(s)'
  <2>1. \A g \in Ahead(s)' : g \in Ahead(s)
    <3>1. /\ Elems(inbox[s])' \subseteq Elems(inbox[s]) \cup Elems(down[s])
          /\ Elems(down[s])' \subseteq Elems(down[s])
      BY <1>4, <1>10 DEF Elems
    <3>2. Elems(outbox[p])' = Elems(outbox[p]) /\ Elems(up[p])' = Elems(up[p]) /\ pending'[p] = pending[p]
      BY <1>2, <1>8 DEF Elems
    <3> QED
      BY <3>1, <3>2 DEF Ahead
  <2>2. \A g \in Elems(inbox[s])' :
          \/ g \in Elems(inbox[s])
          \/ g.kind \notin Protocol /\ (g.kind = "ADVERTISEMENT" => Knows(s)')
    BY <1>7, <1>10 DEF Elems
  <2>3. Elems(retained[p])' = Elems(retained[p]) /\ Early(p)' = Early(p)
    BY <1>2 DEF Elems, Early
  <2> QED
    BY <1>1, <1>2, <1>6, <2>1, <2>2, <2>3, EarlyKeeps
<1>14. ChainOf(p)' /\ QueuesOf(p)' /\ EarlyOf(p)'
  BY <1>2, <1>3, <1>5, <1>6, <1>8, AnswersOrder
<1> QED
  BY <1>11, <1>12, <1>13, <1>14, OrderBothSides

\* What a step may change around the way to s without letting anything overtake.
EarlyStep(s) ==
  /\ \A f \in Elems(retained'[Peer(s)]) :
       f \in Elems(retained[Peer(s)]) \/ (f.kind \in Retainable /\ f \in Ahead(s))
  /\ \A f \in Elems(inbox'[s]) :
       \/ f \in Elems(inbox[s])
       \/ f.kind \notin Protocol /\ (f.kind = "ADVERTISEMENT" => Knows(s)')
  /\ s = "B" /\ ~Knows(s)' =>
       /\ batch'[s] = batch[s] \/ batch'[s] = <<>>
       /\ received'[s] = received[s]
       /\ stage'[s] = "bridge" => stage[s] = "bridge"
  /\ Early(Peer(s))' => Early(Peer(s))

LEMMA SideMoves ==
  ASSUME TypeInv, TypeInv', NEW s \in Seats, ChainOf(s), QueuesOf(s), EarlyOf(s),
         Knows(s) => Knows(s)', offered' = offered, NEW k \in 0..6, NEW x, Passes(s, k, x),
         k # 0 => Leads(s, Path(s)[k + 1], Path(s)'[k + 1], x),
         Follows(s), EarlyStep(s)
  PROVE  ChainOf(s)' /\ QueuesOf(s)' /\ EarlyOf(s)'
<1> DEFINE p == Peer(s)
<1>1. ChainOf(s)'
  BY PathMoves
<1>2. QueuesOf(s)'
  BY QueuesStay
<1>3. /\ \A f \in Elems(retained[p])' :
           f \in Elems(retained[p]) \/ (f.kind \in Retainable /\ f \in Ahead(s))
      /\ \A f \in Elems(inbox[s])' :
           \/ f \in Elems(inbox[s])
           \/ f.kind \notin Protocol /\ (f.kind = "ADVERTISEMENT" => Knows(s)')
  BY DEF EarlyStep, Elems
<1>5. k \in 3..6 => \E h \in Ahead(s) : x.kind = h.kind
  <2> SUFFICES ASSUME k \in 3..6 PROVE \E h \in Ahead(s) : x.kind = h.kind
    OBVIOUS
  <2>1. PICK h \in Path(s)[k + 1] : x.kind = h.kind
    BY DEF Leads
  <2>2. Path(s)[k + 1] \subseteq Ahead(s)
    <3>1. CASE k = 3
      BY <3>1, PathOf DEF Ahead
    <3>2. CASE k = 4
      BY <3>2, PathOf DEF Ahead
    <3>3. CASE k = 5
      BY <3>3, PathOf DEF Ahead
    <3>4. CASE k = 6
      BY <3>4, PathOf DEF Ahead
    <3> QED
      BY <3>1, <3>2, <3>3, <3>4
  <2> QED
    BY <2>1, <2>2
<1>6. \A f \in Ahead(s)' : f.kind \in Protocol \/ \E h \in Ahead(s) : f.kind = h.kind
  <2> SUFFICES ASSUME NEW f \in Ahead(s)'
               PROVE  f.kind \in Protocol \/ \E h \in Ahead(s) : f.kind = h.kind
    OBVIOUS
  <2>1. /\ Elems(inbox[s]) \subseteq Ahead(s) /\ Elems(down[s]) \subseteq Ahead(s)
        /\ {pending[p]} \ {NoFrame} \subseteq Ahead(s)
        /\ Elems(up[p]) \subseteq Ahead(s) /\ Elems(outbox[p]) \subseteq Ahead(s)
    BY DEF Ahead
  <2>2. \/ f \in Elems(inbox'[s]) \/ f \in Elems(down'[s])
        \/ f \in {pending'[p]} \ {NoFrame}
        \/ f \in Elems(up'[p]) \/ f \in Elems(outbox'[p])
    BY DEF Ahead, Elems
  <2>3. CASE f \in Elems(inbox'[s])
    BY <2>1, <2>3, <1>5 DEF Passes, Came
  <2>4. CASE f \in Elems(down'[s])
    BY <2>1, <2>4, <1>5 DEF Passes, Came
  <2>5. CASE f \in {pending'[p]} \ {NoFrame}
    BY <2>1, <2>5, <1>5 DEF Passes
  <2>6. CASE f \in Elems(up'[p])
    BY <2>1, <2>6, <1>5 DEF Passes, Came
  <2>7. CASE f \in Elems(outbox'[p])
    BY <2>1, <2>7, <1>5 DEF Passes, Came
  <2> QED
    BY <2>2, <2>3, <2>4, <2>5, <2>6, <2>7
<1>7. EarlyOf(s)'
  BY <1>3, <1>6, EarlyKeeps DEF EarlyStep
<1> QED
  BY <1>1, <1>2, <1>7

\* Nothing of the way to s changes.
LEMMA SideStays ==
  ASSUME TypeInv, TypeInv', NEW s \in Seats, ChainOf(s), QueuesOf(s), EarlyOf(s),
         Knows(s)' = Knows(s), offered'[Peer(s)] = offered[Peer(s)],
         received'[s] = received[s], batch'[s] = batch[s], inbox'[s] = inbox[s],
         down'[s] = down[s], pending'[Peer(s)] = pending[Peer(s)], up'[Peer(s)] = up[Peer(s)],
         outbox'[Peer(s)] = outbox[Peer(s)], unsent'[Peer(s)] = unsent[Peer(s)],
         retained'[Peer(s)] \in {retained[Peer(s)], <<>>},
         s = "B" /\ stage'[s] = "bridge" => stage[s] = "bridge" \/ Knows(s),
         Early(Peer(s))' => Early(Peer(s))
  PROVE  ChainOf(s)' /\ QueuesOf(s)' /\ EarlyOf(s)'
<1>1. ChainOf(s)' /\ QueuesOf(s)'
  BY OrderStays DEF Peer
<1>2. Ahead(s)' = Ahead(s) /\ Elems(inbox[s])' = Elems(inbox[s])
  BY DEF Ahead, Elems
<1>3. \A f \in Elems(retained[Peer(s)])' : f \in Elems(retained[Peer(s)])
  <2>1. CASE retained'[Peer(s)] = <<>>
    BY <2>1, ElemsOfEmpty DEF Elems
  <2>2. CASE retained'[Peer(s)] = retained[Peer(s)]
    BY <2>2 DEF Elems
  <2> QED
    BY <2>1, <2>2
<1>4. EarlyOf(s)'
  BY <1>2, <1>3, EarlyKeeps
<1> QED
  BY <1>1, <1>4

LEMMA BothSides ==
  ASSUME OrderInv, NEW s \in Seats
  PROVE  /\ Peer(s) \in Seats /\ Peer(s) # s /\ Peer(Peer(s)) = s
         /\ ChainOf(s) /\ QueuesOf(s) /\ EarlyOf(s)
         /\ ChainOf(Peer(s)) /\ QueuesOf(Peer(s)) /\ EarlyOf(Peer(s))
BY PeerIsOther DEF OrderInv

\* A frame is sent to the relay, behind those that went before it.
LEMMA SendPendingOrder ==
  ASSUME TypeInv, TypeInv', OrderInv, NEW s \in Seats, SendPending(s)
  PROVE  OrderInv'
<1> DEFINE p == Peer(s) h == Head(outbox[s]) x == Frame(client[s].epoch, client[s].seq, h.kind, h.body)
<1>1. /\ p \in Seats /\ p # s /\ Peer(p) = s
      /\ ChainOf(s) /\ QueuesOf(s) /\ EarlyOf(s) /\ ChainOf(p) /\ QueuesOf(p) /\ EarlyOf(p)
  BY BothSides
<1>2. /\ UNCHANGED <<pending, down, inbox, retained>> /\ UNCHANGED <<stage, batch, unsent, offered, received>>
      /\ outbox[s] # <<>> /\ outbox' = [outbox EXCEPT ![s] = Tail(outbox[s])]
  BY DEF SendPending, sessionVars, bridgeVars
<1>3. /\ client' = [client EXCEPT ![s] = client'[s]]
      /\ client'[s].advertisement = client[s].advertisement
      /\ x \in Frames /\ up' = Sent(s, <<x>>) /\ h \in Notes
  BY SendPendingEffect
<1>4. Knows(s)' = Knows(s) /\ Knows(p)' = Knows(p)
  BY <1>1, <1>3 DEF Knows, TypeInv, ClientShape
<1>5. /\ outbox[s] \in Seq(Notes) /\ outbox \in [Seats -> Seq(Notes)]
      /\ up[s] \in Seq(Frames) /\ up \in [Seats -> Seq(Frames)]
  BY DEF TypeInv, ClientShape, RelayInv, RelayShape
<1>6. x.kind = h.kind /\ x.body = h.body
  BY DEF Frame
<1> HIDE DEF x
<1>7. /\ up' = up \/ up' = [up EXCEPT ![s] = up[s] \o <<x>>]
      /\ up'[p] = up[p] /\ outbox'[p] = outbox[p] /\ outbox'[s] = Tail(outbox[s])
  BY <1>1, <1>2, <1>3, <1>5 DEF Sent
<1>8. h \in Elems(outbox[s]) /\ Elems(outbox'[s]) \subseteq Elems(outbox[s])
  BY <1>2, <1>5, <1>7, ElemsOfTail
<1>9. Ordered(Knows(p), outbox'[s]) /\ \A f \in Elems(outbox'[s]) : Before(Knows(p), h, f)
  BY <1>1, <1>2, <1>5, <1>7, OrderedTail DEF QueuesOf
<1>10. EarlyStep(p) /\ offered' = offered
  BY <1>2 DEF EarlyStep, Early
<1>11. ChainOf(p)' /\ QueuesOf(p)' /\ EarlyOf(p)'
  <2>1. CASE up' = up
    <3>1. Passes(p, 0, NoFrame)
      BY <1>1, <1>2, <1>8, <2>1 DEF Passes, Came
    <3>2. Follows(p)
      BY <1>1, <1>2, <1>4, <1>9, <2>1 DEF Follows
    <3> QED
      BY <1>1, <1>4, <1>10, <3>1, <3>2, SideMoves
  <2>2. CASE up' = [up EXCEPT ![s] = up[s] \o <<x>>]
    <3> DEFINE q == up[s]
    <3>1. up'[s] = Append(q, x) /\ q \in Seq(Frames) /\ x \in Frames
      <4>1. up'[s] = q \o <<x>> /\ q \in Seq(Frames) /\ x \in Frames
        BY <1>3, <1>5, <2>2
      <4> HIDE DEF q
      <4>2. Append(q, x) = q \o <<x>>
        BY ONLY <4>1
      <4> QED
        BY <4>1, <4>2
    <3>2. \A f \in Elems(q) : Before(Knows(p), f, h)
      <4>1. Path(p)[6] = Elems(q) /\ Path(p)[7] = Elems(outbox[s])
        BY <1>1, PathOf
      <4> QED
        BY <1>1, <1>8, <4>1 DEF ChainOf, Chain
    <3>3. \A f \in Elems(q) : Before(Knows(p), f, x)
      BY <1>6, <3>2 DEF Before
    <3>4. Ordered(Knows(p), q)
      BY <1>1 DEF QueuesOf
    <3> HIDE DEF q
    <3>5. Ordered(Knows(p), up'[s]) /\ Elems(up'[s]) = Elems(q) \cup {x}
      BY <3>1, <3>3, <3>4, OrderedAppend, ElemsOfAppend
    <3>6. \A f \in Elems(up'[s]) : Came(f, Elems(up[s]), 6 = 6, x)
      BY <3>5 DEF Came, q
    <3>7. Passes(p, 6, x)
      BY <1>1, <1>2, <1>8, <3>6 DEF Passes, Came
    <3>8. Follows(p)
      BY <1>1, <1>2, <1>4, <1>9, <3>5 DEF Follows
    <3>9. Path(p)[6 + 1] = Elems(outbox[s]) /\ Path(p)'[6 + 1] = Elems(outbox'[s])
      BY <1>1, PathOf DEF Path, Elems
    <3>10. Leads(p, Path(p)[6 + 1], Path(p)'[6 + 1], x)
      BY <1>6, <1>8, <1>9, <3>9 DEF Leads
    <3> QED
      BY <1>1, <1>4, <1>10, <3>7, <3>8, <3>10, SideMoves
  <2> QED
    BY <1>7, <2>1, <2>2
<1>12. ChainOf(s)' /\ QueuesOf(s)' /\ EarlyOf(s)'
  BY <1>1, <1>2, <1>4, <1>7, SideStays DEF Early
<1> QED
  BY <1>11, <1>12, OrderBothSides

\* A handler takes a frame from its socket.
LEMMA TakeOrder ==
  ASSUME TypeInv, TypeInv', OrderInv, NEW s \in Seats, Take(s), UNCHANGED <<clientVars, bridgeVars>>
  PROVE  OrderInv'
<1> DEFINE p == Peer(s) x == Head(up[s])
<1>1. /\ p \in Seats /\ p # s /\ Peer(p) = s
      /\ ChainOf(s) /\ QueuesOf(s) /\ EarlyOf(s) /\ ChainOf(p) /\ QueuesOf(p) /\ EarlyOf(p)
  BY BothSides
<1>2. /\ UNCHANGED <<down, retained, client, outbox, inbox>> /\ UNCHANGED <<stage, batch, unsent, offered, received>>
      /\ up[s] # <<>> /\ pending' = [pending EXCEPT ![s] = x] /\ up' = [up EXCEPT ![s] = Tail(up[s])]
  BY DEF Take, sessionVars, clientVars, bridgeVars
<1>3. /\ up \in [Seats -> Seq(Frames)] /\ up[s] \in Seq(Frames) /\ pending \in [Seats -> Frames]
  BY DEF TypeInv, RelayInv, RelayShape
<1>4. Knows(s)' = Knows(s) /\ Knows(p)' = Knows(p)
  BY <1>2 DEF Knows
<1>5. /\ up'[s] = Tail(up[s]) /\ up'[p] = up[p] /\ pending'[s] = x /\ pending'[p] = pending[p]
  BY <1>1, <1>2, <1>3
<1>6. x \in Elems(up[s]) /\ Elems(up'[s]) \subseteq Elems(up[s])
  BY <1>2, <1>3, <1>5, ElemsOfTail
<1>7. Ordered(Knows(p), up'[s]) /\ \A f \in Elems(up'[s]) : Before(Knows(p), x, f)
  BY <1>1, <1>2, <1>3, <1>5, OrderedTail DEF QueuesOf
<1>8. EarlyStep(p)
  BY <1>2 DEF EarlyStep, Early
<1>9. ChainOf(p)' /\ QueuesOf(p)' /\ EarlyOf(p)'
  <2> HIDE DEF x
  <2>1. Passes(p, 5, x)
    BY <1>1, <1>2, <1>5, <1>6 DEF Passes, Came
  <2>2. Follows(p)
    BY <1>1, <1>2, <1>4, <1>7 DEF Follows
  <2>3. Path(p)[5 + 1] = Elems(up[s]) /\ Path(p)'[5 + 1] = Elems(up'[s])
    BY <1>1, PathOf DEF Path, Elems
  <2>4. Leads(p, Path(p)[5 + 1], Path(p)'[5 + 1], x)
    BY <1>6, <1>7, <2>3 DEF Leads
  <2> QED
    BY <1>1, <1>2, <1>4, <1>8, <2>1, <2>2, <2>4, SideMoves
<1>10. ChainOf(s)' /\ QueuesOf(s)' /\ EarlyOf(s)'
  BY <1>1, <1>2, <1>4, <1>5, SideStays DEF Early
<1> QED
  BY <1>9, <1>10, OrderBothSides

\* A handler passes its frame on and keeps it when a later connection needs it.
LEMMA ProcessOrder ==
  ASSUME TypeInv, TypeInv', OrderInv, NEW s \in Seats, Process(s), UNCHANGED <<clientVars, bridgeVars>>
  PROVE  OrderInv'
<1> DEFINE p == Peer(s) x == pending[s]
           kept == IF x.kind \in Retainable THEN <<x>> ELSE <<>>
<1>1. /\ p \in Seats /\ p # s /\ Peer(p) = s
      /\ ChainOf(s) /\ QueuesOf(s) /\ EarlyOf(s) /\ ChainOf(p) /\ QueuesOf(p) /\ EarlyOf(p)
  BY BothSides
<1>2. /\ UNCHANGED <<up, client, outbox, inbox>> /\ UNCHANGED <<stage, batch, unsent, offered, received>>
      /\ x # NoFrame /\ pending' = [pending EXCEPT ![s] = NoFrame]
      /\ retained' = [retained EXCEPT ![s] = RetainedBefore(s, x) \o kept]
      /\ down' = down \/ down' = [down EXCEPT ![p] = Append(down[p], x)]
  BY DEF Process, clientVars, bridgeVars
<1>3. /\ down \in [Seats -> Seq(Frames)] /\ down[p] \in Seq(Frames) /\ x \in Frames
      /\ pending \in [Seats -> Frames] /\ retained \in [Seats -> Seq(Frames)]
  BY <1>1 DEF TypeInv, RelayInv, RelayShape
<1>4. Knows(s)' = Knows(s) /\ Knows(p)' = Knows(p)
  BY <1>2 DEF Knows
<1>5. /\ pending'[s] = NoFrame /\ pending'[p] = pending[p] /\ retained'[p] = retained[p]
      /\ retained'[s] = RetainedBefore(s, x) \o kept /\ down'[s] = down[s]
  BY <1>1, <1>2, <1>3
<1>6. x \in Ahead(p)
  BY <1>1, <1>2 DEF Ahead
<1>7. \A f \in Elems(retained'[s]) : f \in Elems(retained[s]) \/ (f.kind \in Retainable /\ f = x)
  <2> DEFINE before == RetainedBefore(s, x)
  <2>1. before \in Seq(Frames) /\ Elems(before) \subseteq Elems(retained[s])
    BY <1>3, ElemsOfEmpty, EmptySeq DEF RetainedBefore
  <2>2. kept \in Seq(Frames) /\ \A f \in Elems(kept) : f.kind \in Retainable /\ f = x
    <3>1. CASE x.kind \in Retainable
      BY <1>3, <3>1, SingleSeq, ElemsOfOne
    <3>2. CASE x.kind \notin Retainable
      BY <3>2, EmptySeq, ElemsOfEmpty
    <3> QED
      BY <3>1, <3>2
  <2> HIDE DEF before, kept
  <2>3. Elems(before \o kept) = Elems(before) \cup Elems(kept)
    BY <2>1, <2>2, ElemsOfConcat
  <2>4. Elems(retained'[s]) = Elems(before \o kept)
    BY <1>5 DEF before, kept
  <2> QED
    BY <2>1, <2>2, <2>3, <2>4
<1>8. EarlyStep(p)
  BY <1>1, <1>2, <1>6, <1>7 DEF EarlyStep, Early
<1> HIDE DEF x
<1>9. ChainOf(p)' /\ QueuesOf(p)' /\ EarlyOf(p)'
  <2>1. CASE down' = down
    <3>1. Passes(p, 0, NoFrame)
      BY <1>1, <1>2, <1>5, <2>1 DEF Passes, Came
    <3>2. Follows(p)
      BY <1>1, <1>2, <2>1 DEF Follows
    <3> QED
      BY <1>1, <1>2, <1>4, <1>8, <3>1, <3>2, SideMoves
  <2>2. CASE down' = [down EXCEPT ![p] = Append(down[p], x)]
    <3> DEFINE q == down[p]
    <3>1. down'[p] = Append(q, x) /\ q \in Seq(Frames)
      BY <1>1, <1>3, <2>2
    <3>2. \A f \in Elems(q) : Before(Knows(p), f, x)
      <4>1. Path(p)[4] = Elems(q) /\ x \in Path(p)[5]
        BY <1>1, <1>2, PathOf DEF x
      <4> QED
        BY <1>1, <4>1 DEF ChainOf, Chain
    <3>3. Ordered(Knows(p), q)
      BY <1>1 DEF QueuesOf
    <3> HIDE DEF q
    <3>4. Ordered(Knows(p), down'[p]) /\ Elems(down'[p]) = Elems(q) \cup {x}
      BY <1>3, <3>1, <3>2, <3>3, OrderedAppend, ElemsOfAppend
    <3>5. \A f \in Elems(down'[p]) : Came(f, Elems(down[p]), 4 = 4, x)
      BY <3>4 DEF Came, q
    <3>6. Passes(p, 4, x)
      BY <1>1, <1>2, <1>5, <3>5 DEF Passes, Came
    <3>7. Follows(p)
      BY <1>1, <1>2, <1>4, <3>4 DEF Follows
    <3>8. x \in Path(p)[4 + 1] /\ Path(p)'[4 + 1] = {}
      BY <1>1, <1>2, <1>5, PathOf DEF Path, x
    <3>9. Leads(p, Path(p)[4 + 1], Path(p)'[4 + 1], x)
      BY <3>8 DEF Leads
    <3> QED
      BY <1>1, <1>2, <1>4, <1>8, <3>6, <3>7, <3>9, SideMoves
  <2> QED
    BY <1>2, <2>1, <2>2
<1>10. ChainOf(s)' /\ QueuesOf(s)' /\ EarlyOf(s)'
  BY <1>1, <1>2, <1>4, <1>5, SideStays DEF Early
<1> QED
  BY <1>9, <1>10, OrderBothSides

\* A handler ends; what it closes the peer's connection with is no frame of the bridge.
LEMMA HandlerEndsOrder ==
  ASSUME TypeInv, TypeInv', OrderInv, NEW s \in Seats, UNCHANGED <<clientVars, bridgeVars>>,
         Reject(s) \/ RevokedEnds(s) \/ Reset(s)
  PROVE  OrderInv'
<1> DEFINE p == Peer(s) close == Frame(gates[s].epoch, gates[s].next, "PEER_CLOSE", 0)
<1>1. /\ p \in Seats /\ p # s /\ Peer(p) = s
      /\ ChainOf(s) /\ QueuesOf(s) /\ EarlyOf(s) /\ ChainOf(p) /\ QueuesOf(p) /\ EarlyOf(p)
  BY BothSides
<1>2. /\ UNCHANGED <<client, outbox, inbox>> /\ UNCHANGED <<stage, batch, unsent, offered, received>>
      /\ up' = [up EXCEPT ![s] = <<>>]
      /\ pending' = pending \/ pending' = [pending EXCEPT ![s] = NoFrame]
      /\ retained' = retained \/ retained' = Each(<<>>)
      /\ down' = down \/ down' = [down EXCEPT ![p] = Append(down[p], close)]
  <2>1. UNCHANGED <<client, outbox, inbox>> /\ UNCHANGED <<stage, batch, unsent, offered, received>>
    BY DEF clientVars, bridgeVars
  <2>2. CASE Reject(s)
    BY <2>1, <2>2 DEF Reject, EndSession
  <2>3. CASE RevokedEnds(s)
    BY <2>1, <2>3 DEF RevokedEnds, sessionVars
  <2>4. CASE Reset(s)
    BY <2>1, <2>4 DEF Reset
  <2> QED
    BY <2>2, <2>3, <2>4
<1>3. /\ down \in [Seats -> Seq(Frames)] /\ down[p] \in Seq(Frames) /\ gates[s] \in GateSet
      /\ pending \in [Seats -> Frames] /\ up \in [Seats -> Seq(Frames)]
  BY <1>1 DEF TypeInv, RelayInv, RelayShape
<1>4. close \in Frames /\ close.kind \in Protocol
  BY <1>3, FrameIn DEF GateSet, FrameKinds, Bodies, Frame, Protocol
<1> HIDE DEF close
<1>5. Knows(s)' = Knows(s) /\ Knows(p)' = Knows(p)
  BY <1>2 DEF Knows
<1>6. /\ up'[s] = <<>> /\ up'[p] = up[p] /\ pending'[s] \in {NoFrame, pending[s]}
      /\ pending'[p] = pending[p] /\ down'[s] = down[s]
      /\ down'[p] = down[p] \/ down'[p] = Append(down[p], close)
  <2>1. up'[s] = <<>> /\ up'[p] = up[p]
    BY <1>1, <1>2, <1>3
  <2>2. pending'[s] \in {NoFrame, pending[s]} /\ pending'[p] = pending[p]
    BY <1>1, <1>2, <1>3
  <2>3. down'[s] = down[s] /\ (down'[p] = down[p] \/ down'[p] = Append(down[p], close))
    BY <1>1, <1>2, <1>3
  <2> QED
    BY <2>1, <2>2, <2>3
<1>7. \A y \in Seats : retained'[y] \in {retained[y], <<>>}
  BY <1>2 DEF Each
<1>8. \A y \in Seats : \A f \in Elems(retained'[y]) : f \in Elems(retained[y])
  BY <1>7, ElemsOfEmpty
<1>9. EarlyStep(p)
  BY <1>1, <1>2, <1>8 DEF EarlyStep, Early
<1>10. /\ \A f \in Elems(down'[p]) : f \in Elems(down[p]) \/ f.kind \in Protocol
       /\ down'[p] = down[p] \/ Ordered(Knows(p), down'[p])
  <2> DEFINE q == down[p]
  <2>1. q \in Seq(Frames) /\ Ordered(Knows(p), q) /\ \A f \in Elems(q) : Before(Knows(p), f, close)
    BY <1>1, <1>3, <1>4 DEF QueuesOf, Before, Protocol
  <2>2. down'[p] = q \/ down'[p] = Append(q, close)
    BY <1>6
  <2> HIDE DEF q
  <2>3. Elems(Append(q, close)) = Elems(q) \cup {close} /\ Ordered(Knows(p), Append(q, close))
    BY <1>4, <2>1, ElemsOfAppend, OrderedAppend
  <2>4. CASE down'[p] = q
    BY <2>4 DEF q
  <2>5. CASE down'[p] = Append(q, close)
    <3>1. Elems(down'[p]) = Elems(q) \cup {close} /\ Ordered(Knows(p), down'[p])
      BY <2>3, <2>5
    <3>2. \A f \in Elems(down'[p]) : f \in Elems(down[p]) \/ f.kind \in Protocol
      BY <1>4, <3>1 DEF q
    <3> QED
      BY <3>1, <3>2
  <2> QED
    BY <2>2, <2>4, <2>5
<1>11. ChainOf(p)' /\ QueuesOf(p)' /\ EarlyOf(p)'
  <2>1. Passes(p, 0, NoFrame)
    BY <1>1, <1>2, <1>6, <1>10, ElemsOfEmpty DEF Passes, Came
  <2>2. Follows(p)
    BY <1>1, <1>2, <1>5, <1>6, <1>10, OrderedEmpty DEF Follows
  <2> QED
    BY <1>1, <1>2, <1>5, <1>9, <2>1, <2>2, SideMoves
<1>12. ChainOf(s)' /\ QueuesOf(s)' /\ EarlyOf(s)'
  BY <1>1, <1>2, <1>5, <1>6, <1>7, SideStays DEF Early
<1> QED
  BY <1>11, <1>12, OrderBothSides

-----------------------------------------------------------------------------
(* Frames that enter the way.                                               *)

\* The advertisement enters behind nothing of the bridge, a bridge's frame without an
\* advertisement behind it.
Enters(known, P, i, f) ==
  /\ f.kind # "RFU"
  /\ f.kind = "ADVERTISEMENT" /\ ~known =>
       \A j \in 1..8 : j < i => \A g \in P[j] : g.kind \in Handshake
  /\ f.kind \notin Handshake => \A j \in 1..8 : j > i => \A g \in P[j] : g.kind # "ADVERTISEMENT"

LEMMA ChainGrows ==
  ASSUME NEW known \in BOOLEAN, NEW n \in Nat, NEW P, NEW Q, Chain(known, P), Bounded(n, P),
         \A i \in 1..8 : \A f \in Q[i] : f \in P[i] \/ f.kind \in Protocol \/ Enters(known, Q, i, f)
  PROVE  Chain(known, Q) /\ Bounded(n, Q)
<1>1. Chain(known, Q)
  <2> SUFFICES ASSUME NEW i \in 1..8, NEW j \in 1..8, i < j, NEW f \in Q[i], NEW g \in Q[j]
               PROVE  Before(known, f, g)
    BY DEF Chain
  <2>1. CASE f \in P[i] /\ g \in P[j]
    BY <2>1 DEF Chain
  <2>2. CASE f.kind \in Protocol \/ g.kind \in Protocol
    BY <2>2 DEF Before, Protocol, Handshake
  <2>3. CASE Enters(known, Q, i, f)
    BY <2>3 DEF Before, Enters
  <2>4. CASE Enters(known, Q, j, g)
    BY <2>4 DEF Before, Enters
  <2> QED
    BY <2>1, <2>2, <2>3, <2>4
<1>2. Bounded(n, Q)
  BY DEF Bounded, Enters, Protocol
<1> QED
  BY <1>1, <1>2

\* Only the advertisement and the peer's own frames reach a seat before its peer's bridge runs.
LEMMA EarlyAhead ==
  ASSUME NEW s \in Seats, EarlyOf(s)
  PROVE  /\ \A f \in Ahead(s) : Early(Peer(s)) => f.kind \in Handshake
         /\ s = "B" /\ ~Knows(s) => Path(s)[1] = {} /\ Path(s)[2] = {}
<1>1. s = "B" /\ ~Knows(s) => Numbered(received[s]) = {} /\ Elems(batch[s]) = {}
  BY ElemsOfEmpty DEF EarlyOf, Numbered
<1> QED
  BY <1>1, PathOf DEF EarlyOf

LEMMA PathGrows ==
  ASSUME TypeInv, TypeInv', NEW s \in Seats, ChainOf(s), Knows(s)' = Knows(s), offered' = offered,
         NEW k \in 1..8,
         \A i \in 1..8 : i # k => \A f \in Path(s)'[i] : f \in Path(s)[i] \/ f.kind \in Protocol,
         \A f \in Path(s)'[k] :
           f \in Path(s)[k] \/ f.kind \in Protocol \/ Enters(Knows(s), Path(s)', k, f)
  PROVE  ChainOf(s)'
<1> DEFINE P == Path(s) Q == Path(s)' n == offered[Peer(s)] known == Knows(s)
<1>1. /\ known \in BOOLEAN /\ n \in Nat /\ Chain(known, P) /\ Bounded(n, P)
  BY KnowsIsBoolean, PeerIsOther DEF TypeInv, BridgeShape, ChainOf
<1>2. \A i \in 1..8 : \A f \in Q[i] : f \in P[i] \/ f.kind \in Protocol \/ Enters(known, Q, i, f)
  OBVIOUS
<1> HIDE DEF P, Q, n, known
<1>3. Chain(known, Q) /\ Bounded(n, Q)
  BY <1>1, <1>2, ChainGrows
<1> QED
  BY <1>3 DEF ChainOf, known, Q, n

LEMMA PathAfter ==
  \A s : /\ Path(s)'[1] = Numbered(received'[s]) /\ Path(s)'[2] = Elems(batch'[s])
         /\ Path(s)'[3] = Elems(inbox'[s]) /\ Path(s)'[4] = Elems(down'[s])
         /\ Path(s)'[5] = {pending'[Peer(s)]} \ {NoFrame} /\ Path(s)'[6] = Elems(up'[Peer(s)])
         /\ Path(s)'[7] = Elems(outbox'[Peer(s)]) /\ Path(s)'[8] = Numbered(unsent'[Peer(s)])
BY DEF Path, Numbered, Elems

\* A client's first frame opens its connection, in which the relay replays what the peer's
\* handler kept.
LEMMA ConnectOrder ==
  ASSUME TypeInv, TypeInv', OrderInv, NEW s \in Seats, Connect(s)
  PROVE  OrderInv'
<1> DEFINE p == Peer(s) first == Frame(client'[s].epoch, 0, "PEER_READY", 0)
<1>1. /\ p \in Seats /\ p # s /\ Peer(p) = s
      /\ ChainOf(s) /\ QueuesOf(s) /\ EarlyOf(s) /\ ChainOf(p) /\ QueuesOf(p) /\ EarlyOf(p)
  BY BothSides
<1>2. /\ client' = [client EXCEPT ![s] = client'[s]] /\ first \in Frames
      /\ client'[s].advertisement = client[s].advertisement /\ Accept(s, first)
  BY ConnectEffect
<1>3. /\ outbox' = [outbox EXCEPT ![s] = <<>>] /\ inbox' = [inbox EXCEPT ![s] = <<>>]
      /\ UNCHANGED <<stage, batch, unsent, offered, received>>
  BY DEF Connect, bridgeVars
<1>4. /\ down' = [down EXCEPT ![s] = retained[p]] /\ up' = [up EXCEPT ![s] = <<first>>]
      /\ UNCHANGED <<pending, retained>>
  BY <1>2 DEF Accept
<1>5. first.kind \in Protocol
  BY DEF Frame, Protocol
<1> HIDE DEF first
<1>6. /\ outbox'[s] = <<>> /\ outbox'[p] = outbox[p] /\ inbox'[s] = <<>> /\ inbox'[p] = inbox[p]
      /\ down'[s] = retained[p] /\ down'[p] = down[p] /\ up'[s] = <<first>> /\ up'[p] = up[p]
  BY <1>1, <1>3, <1>4 DEF TypeInv, ClientShape, RelayInv, RelayShape
<1>7. Knows(s)' = Knows(s) /\ Knows(p)' = Knows(p)
  BY <1>1, <1>2 DEF Knows, TypeInv, ClientShape
<1>8. ChainOf(p)' /\ QueuesOf(p)' /\ EarlyOf(p)'
  <2>1. \A f \in Elems(<<first>>) : f.kind \in Protocol
    BY <1>5, ElemsOfOne
  <2>2. Ordered(Knows(p), <<first>>)
    <3>1. \A i, j \in 1..Len(<<first>>) : ~(i < j)
      OBVIOUS
    <3> QED
      BY <3>1 DEF Ordered
  <2>3. Passes(p, 0, NoFrame)
    BY <1>1, <1>3, <1>4, <1>6, <2>1, ElemsOfEmpty DEF Passes, Came
  <2>4. Follows(p)
    BY <1>1, <1>3, <1>6, <1>7, <2>2, OrderedEmpty DEF Follows
  <2>5. EarlyStep(p)
    BY <1>3, <1>4, <1>6 DEF EarlyStep, Early
  <2> QED
    BY <1>1, <1>3, <1>7, <2>3, <2>4, <2>5, SideMoves
<1>9. \A f \in Elems(retained[p]) : f.kind \in Retainable /\ (f.kind = "ADVERTISEMENT" => p = "A")
  BY <1>1 DEF EarlyOf
<1>10. ChainOf(s)'
  <2>1. \A i \in 1..8 : i # 4 => \A f \in Path(s)'[i] : f \in Path(s)[i]
    <3> SUFFICES ASSUME NEW i \in 1..8, i # 4 PROVE Path(s)'[i] \subseteq Path(s)[i]
      OBVIOUS
    <3>1. i = 1 \/ i = 2 \/ i = 3 \/ i = 5 \/ i = 6 \/ i = 7 \/ i = 8
      OBVIOUS
    <3>2. CASE i = 1 \/ i = 2 \/ i = 8
      BY <1>3, <3>2, PathOf, PathAfter
    <3>3. CASE i = 3
      BY <1>6, <3>3, PathAfter, ElemsOfEmpty
    <3>4. CASE i = 5 \/ i = 6 \/ i = 7
      BY <1>4, <1>6, <3>4, PathOf, PathAfter
    <3> QED
      BY <3>1, <3>2, <3>3, <3>4
  <2>2. \A f \in Path(s)'[4] : f.kind \in Protocol \/ Enters(Knows(s), Path(s)', 4, f)
    <3> SUFFICES ASSUME NEW f \in Path(s)'[4], f.kind \notin Protocol
                 PROVE  Enters(Knows(s), Path(s)', 4, f)
      OBVIOUS
    <3>1. f \in Elems(retained[p])
      BY <1>6, PathAfter
    <3>2. f.kind = "ADVERTISEMENT" /\ s = "B"
      BY <1>9, <3>1 DEF Retainable, Protocol, Seats, Peer
    <3>3. ~Knows(s) => Path(s)'[1] = {} /\ Path(s)'[2] = {} /\ Path(s)'[3] = {}
      <4>1. Path(s)'[3] = {}
        BY <1>6, PathAfter, ElemsOfEmpty
      <4>2. ~Knows(s) => Path(s)[1] = {} /\ Path(s)[2] = {}
        BY <1>1, <3>2, EarlyAhead
      <4> QED
        BY <2>1, <4>1, <4>2
    <3>4. \A j \in 1..8 : j < 4 => j = 1 \/ j = 2 \/ j = 3
      OBVIOUS
    <3> QED
      BY <3>2, <3>3, <3>4 DEF Enters, Handshake
  <2> QED
    BY <1>1, <1>3, <1>7, <2>1, <2>2, PathGrows
<1>11. QueuesOf(s)'
  <2>1. Ordered(Knows(s), retained[p])
    BY <1>9, OrderedRetained
  <2>2. Follows(s)
    BY <1>1, <1>3, <1>6, <1>7, <2>1, OrderedEmpty DEF Follows
  <2> QED
    BY <1>1, <1>7, <2>2, QueuesStay
<1>12. EarlyOf(s)'
  <2>1. \A f \in Ahead(s)' : f \in Elems(retained[p]) \/ f \in Ahead(s)
    <3>1. /\ Elems(inbox[s])' = {} /\ Elems(down[s])' = Elems(retained[p])
          /\ Elems(up[p])' = Elems(up[p]) /\ Elems(outbox[p])' = Elems(outbox[p])
          /\ pending'[p] = pending[p]
      BY <1>4, <1>6, ElemsOfEmpty DEF Elems
    <3> QED
      BY <3>1 DEF Ahead
  <2>2. Elems(inbox[s])' = {} /\ Elems(retained[p])' = Elems(retained[p]) /\ Early(p)' = Early(p)
    BY <1>3, <1>4, <1>6, ElemsOfEmpty DEF Elems, Early
  <2> QED
    BY <1>1, <1>3, <1>7, <2>1, <2>2, EarlyKeeps
<1> QED
  BY <1>8, <1>10, <1>11, <1>12, OrderBothSides

\* The advertisement, before anything of A's bridge, and readiness, for which nothing
\* follows but RFU.
Posts(s, x) ==
  /\ outbox' = [outbox EXCEPT ![s] = Append(outbox[s], x)]
  /\ \/ x.kind = "ADVERTISEMENT" /\ s = "A" /\ Early(s)
     \/ x.kind = "SIDE_READY"
  /\ ~Early(s)' /\ stage'[Peer(s)] = stage[Peer(s)]
  /\ stage'[s] = "bridge" => stage[s] = "bridge" \/ s = "A"

LEMMA PostsOrder ==
  ASSUME TypeInv, TypeInv', OrderInv, NEW s \in Seats, NEW x \in Notes, Posts(s, x),
         \A y \in Seats : Knows(y)' = Knows(y),
         UNCHANGED <<up, down, pending, retained, inbox, batch, unsent, offered, received>>
  PROVE  OrderInv'
<1>0. PICK p \in Seats : p = Peer(s)
  BY PeerIsOther
<1>1. /\ p \in Seats /\ p # s /\ Peer(p) = s
      /\ ChainOf(s) /\ QueuesOf(s) /\ EarlyOf(s) /\ ChainOf(p) /\ QueuesOf(p) /\ EarlyOf(p)
  BY <1>0, BothSides
<1>2. outbox \in [Seats -> Seq(Notes)] /\ outbox[s] \in Seq(Notes)
  BY DEF TypeInv, ClientShape
<1>3. outbox'[s] = Append(outbox[s], x) /\ outbox'[p] = outbox[p]
  BY <1>0, <1>1, <1>2 DEF Posts
<1>4. Elems(outbox'[s]) = Elems(outbox[s]) \cup {x}
  BY <1>2, <1>3, ElemsOfAppend
<1>5. Elems(outbox[s]) \subseteq Ahead(p)
  BY <1>1 DEF Ahead
<1>6. ASSUME x.kind = "ADVERTISEMENT", ~Knows(p)
      PROVE  /\ p = "B" /\ \A f \in Ahead(p) : f.kind \in Handshake
             /\ Path(p)[1] = {} /\ Path(p)[2] = {}
  <2>1. s = "A" /\ Early(s)
    BY <1>6 DEF Posts
  <2>2. p = "B"
    BY <1>0, <2>1 DEF Peer
  <2> QED
    BY <1>1, <1>6, <2>1, <2>2, EarlyAhead
<1>7. \A i \in 1..8 : i # 7 => Path(p)'[i] = Path(p)[i]
  <2> SUFFICES ASSUME NEW i \in 1..8, i # 7 PROVE Path(p)'[i] = Path(p)[i]
    OBVIOUS
  <2>1. i = 1 \/ i = 2 \/ i = 3 \/ i = 4 \/ i = 5 \/ i = 6 \/ i = 8
    OBVIOUS
  <2>2. CASE i = 1 \/ i = 2 \/ i = 3 \/ i = 4
    BY <2>2, PathOf, PathAfter
  <2>3. CASE i = 5
    <3>1. Path(p)'[5] = {pending'[s]} \ {NoFrame} /\ Path(p)[5] = {pending[s]} \ {NoFrame}
      BY <1>1, PathOf, PathAfter
    <3> QED
      BY <2>3, <3>1
  <2>4. CASE i = 6 \/ i = 8
    BY <1>1, <2>4, PathOf, PathAfter
  <2> QED
    BY <2>1, <2>2, <2>3, <2>4
<1>8. Enters(Knows(p), Path(p)', 7, x)
  <2>1. CASE x.kind = "SIDE_READY"
    <3>1. \A j \in 1..8 : j > 7 => j = 8
      OBVIOUS
    <3>2. \A g \in Path(p)'[8] : g.kind = "RFU"
      BY <1>7, PathOf DEF Numbered, Pending
    <3> QED
      BY <2>1, <3>1, <3>2 DEF Enters
  <2>2. CASE x.kind = "ADVERTISEMENT" /\ ~Knows(p)
    <3> SUFFICES ASSUME NEW j \in 1..8, j < 7, NEW g \in Path(p)'[j] PROVE g.kind \in Handshake
      BY <2>2 DEF Enters, Handshake
    <3>1. g \in Path(p)[j]
      BY <1>7
    <3>2. j = 1 \/ j = 2 \/ j = 3 \/ j = 4 \/ j = 5 \/ j = 6
      OBVIOUS
    <3>3. j = 1 \/ j = 2 \/ g \in Ahead(p)
      BY <3>1, <3>2, PathOf DEF Ahead
    <3> QED
      BY <1>6, <2>2, <3>1, <3>3
  <2>3. CASE x.kind = "ADVERTISEMENT" /\ Knows(p)
    BY <2>3 DEF Enters, Handshake
  <2> QED
    BY <2>1, <2>2, <2>3 DEF Posts
<1>9. ChainOf(p)'
  <2>1. \A f \in Path(p)'[7] : f \in Path(p)[7] \/ f = x
    <3>1. Path(p)'[7] = Elems(outbox'[s])
      BY <1>1, PathAfter
    <3>2. Path(p)[7] = Elems(outbox[s])
      BY <1>1, PathOf
    <3> QED
      BY <1>4, <3>1, <3>2
  <2> QED
    BY <1>1, <1>7, <1>8, <2>1, PathGrows
<1>10. QueuesOf(p)'
  <2>1. \A f \in Elems(outbox[s]) : Before(Knows(p), f, x)
    BY <1>5, <1>6 DEF Before, Posts
  <2>2. Ordered(Knows(p), outbox'[s])
    BY <1>1, <1>2, <1>3, <2>1, OrderedAppend DEF QueuesOf
  <2>3. Follows(p)
    BY <1>1, <2>2 DEF Follows
  <2> QED
    BY <1>1, <2>3, QueuesStay
<1>11. EarlyOf(p)'
  <2>1. \A f \in Ahead(p)' : f \in Ahead(p) \/ f = x
    <3>1. /\ Elems(inbox[p])' = Elems(inbox[p]) /\ Elems(down[p])' = Elems(down[p])
          /\ Elems(up[s])' = Elems(up[s]) /\ Elems(outbox[s])' = Elems(outbox[s]) \cup {x}
          /\ pending'[s] = pending[s]
      BY <1>4 DEF Elems
    <3> QED
      BY <1>1, <3>1 DEF Ahead
  <2>2. x.kind = "ADVERTISEMENT" => s = "A"
    BY DEF Posts
  <2>3. ~Early(s)'
    BY DEF Posts
  <2>4. Elems(retained[s])' = Elems(retained[s]) /\ Elems(inbox[p])' = Elems(inbox[p])
    BY DEF Elems
  <2>5. stage'[p] = stage[p]
    BY <1>0 DEF Posts
  <2> QED
    BY <1>1, <2>1, <2>2, <2>3, <2>4, <2>5 DEF EarlyOf
<1>12. ChainOf(s)' /\ QueuesOf(s)' /\ EarlyOf(s)'
  <2>1. s = "B" /\ stage'[s] = "bridge" => stage[s] = "bridge"
    BY DEF Posts
  <2>2. Early(p)' = Early(p)
    BY <1>0 DEF Posts, Early
  <2> QED
    BY <1>0, <1>1, <1>3, <2>1, <2>2, SideStays
<1> QED
  BY <1>0, <1>9, <1>10, <1>11, <1>12, OrderBothSides

LEMMA QuietBridgeOrder ==
  ASSUME TypeInv, OrderInv,
         UNCHANGED <<received, batch, inbox, down, pending, up, outbox, unsent, offered, retained>>,
         \A s \in Seats : Knows(s)' = Knows(s),
         stage' = stage \/ \E s \in Seats : stage' = [stage EXCEPT ![s] = "failed"]
  PROVE  OrderInv'
<1>1. stage \in [Seats -> {"connecting", "advertisement", "bridge", "failed"}]
  BY DEF TypeInv, BridgeShape
<1>2. \A s \in Seats : stage'[s] = stage[s] \/ stage'[s] = "failed"
  BY <1>1
<1> QED
  BY <1>2, QuietOrder DEF Early

LEMMA AdvertisementOrder ==
  ASSUME TypeInv, TypeInv', OrderInv, Publish \/ AwaitAdvertisement
  PROVE  OrderInv'
<1>1. \A s \in Seats : Knows(s)' = Knows(s)
  BY DEF Publish, AwaitAdvertisement, Knows
<1>2. stage \in [Seats -> {"connecting", "advertisement", "bridge", "failed"}]
  BY DEF TypeInv, BridgeShape
<1>3. "A" \in Seats /\ "B" \in Seats /\ Peer("A") = "B" /\ Peer("B") = "A"
  BY DEF Seats, Peer
<1>4. CASE Publish /\ ~client["A"].proven
  <2>1. stage' = [stage EXCEPT !["A"] = "failed"] /\ outbox' = outbox
    BY <1>4 DEF Publish
  <2>2. UNCHANGED <<received, batch, inbox, down, pending, up, unsent, offered, retained>>
    BY <1>4 DEF Publish, relayVars, sessionVars
  <2> QED
    BY <1>1, <1>3, <2>1, <2>2, QuietBridgeOrder
<1>5. CASE Publish /\ client["A"].proven
  <2> DEFINE x == Pending("ADVERTISEMENT", 1)
  <2>1. /\ outbox' = [outbox EXCEPT !["A"] = Append(outbox["A"], x)]
        /\ stage["A"] = "advertisement" /\ stage' = [stage EXCEPT !["A"] = "bridge"]
        /\ UNCHANGED <<up, down, pending, retained, inbox, batch, unsent, offered, received>>
    BY <1>5 DEF Publish, relayVars, sessionVars
  <2>2. x \in Notes /\ x.kind = "ADVERTISEMENT"
    BY DEF Pending, Notes, FrameKinds
  <2>3. stage'["A"] = "bridge" /\ stage'["B"] = stage["B"]
    BY <1>2, <1>3, <2>1
  <2> HIDE DEF x
  <2>4. Posts("A", x)
    BY <1>3, <2>1, <2>2, <2>3 DEF Posts, Early
  <2> QED
    BY <1>1, <1>3, <2>1, <2>2, <2>4, PostsOrder
<1>6. CASE AwaitAdvertisement
  <2>1. UNCHANGED <<received, batch, down, pending, up, outbox, unsent, offered, retained>>
    BY <1>6 DEF AwaitAdvertisement, relayVars, sessionVars
  <2>2. CASE inbox' = inbox /\ stage' = [stage EXCEPT !["B"] = "failed"]
    BY <1>1, <1>3, <2>1, <2>2, QuietBridgeOrder
  <2>3. CASE inbox' = [inbox EXCEPT !["B"] = <<>>]
    <3>1. /\ ChainOf("B") /\ QueuesOf("B") /\ EarlyOf("B")
          /\ ChainOf("A") /\ QueuesOf("A") /\ EarlyOf("A")
      BY <1>3, BothSides
    <3>2. inbox'["B"] = <<>> /\ inbox'["A"] = inbox["A"]
      BY <1>3, <2>3 DEF TypeInv, ClientShape
    <3>3. stage'["A"] = stage["A"] /\ (stage'["B"] = "bridge" => Knows("B"))
      <4>1. \/ stage' = IF \E i \in 1..Len(inbox["B"]) : IsAdvertisement(inbox["B"][i])
                        THEN [stage EXCEPT !["B"] = "bridge"] ELSE stage
            \/ stage' = [stage EXCEPT !["B"] = "failed"]
        BY <1>6 DEF AwaitAdvertisement
      <4>2. stage["B"] = "advertisement"
        BY <1>6 DEF AwaitAdvertisement
      <4>3. (\E i \in 1..Len(inbox["B"]) : IsAdvertisement(inbox["B"][i])) => Knows("B")
        <5> SUFFICES ASSUME NEW i \in 1..Len(inbox["B"]), inbox["B"][i].kind = "ADVERTISEMENT"
                     PROVE  Knows("B")
          BY DEF IsAdvertisement
        <5>1. inbox["B"][i] \in Elems(inbox["B"])
          BY DEF Elems
        <5> QED
          BY <3>1, <5>1 DEF EarlyOf
      <4> QED
        BY <1>2, <1>3, <4>1, <4>2, <4>3
    <3>4. ChainOf("B")' /\ QueuesOf("B")' /\ EarlyOf("B")'
      <4>1. Passes("B", 0, NoFrame)
        <5>1. Elems(inbox'["B"]) = {}
          BY <3>2, ElemsOfEmpty
        <5> QED
          BY <1>3, <2>1, <5>1 DEF Passes, Came
      <4>2. Follows("B")
        BY <1>3, <2>1, <3>2, OrderedEmpty DEF Follows
      <4>3. EarlyStep("B")
        BY <1>1, <1>3, <2>1, <3>2, <3>3, ElemsOfEmpty DEF EarlyStep, Early
      <4> QED
        BY <1>1, <1>3, <2>1, <3>1, <4>1, <4>2, <4>3, SideMoves
    <3>5. ChainOf("A")' /\ QueuesOf("A")' /\ EarlyOf("A")'
      <4>1. Early("B")' => Early("B")
        BY <1>6 DEF AwaitAdvertisement, Early
      <4> QED
        BY <1>1, <1>3, <2>1, <3>1, <3>2, <4>1, SideStays
    <3> QED
      BY <1>3, <3>4, <3>5, OrderBothSides
  <2> QED
    BY <1>6, <2>2, <2>3 DEF AwaitAdvertisement
<1> QED
  BY <1>4, <1>5, <1>6

-----------------------------------------------------------------------------
(* The pump, one call at a time.                                            *)

LEMMA SendSideReadyOrder ==
  ASSUME TypeInv, TypeInv', OrderInv, NEW s \in Seats, SendSideReady(s)
  PROVE  OrderInv'
<1> DEFINE x == Pending("SIDE_READY", bridge[s].proof)
<1>1. /\ UNCHANGED <<up, down, pending, retained, inbox, batch, unsent, offered, received>>
      /\ stage[s] = "bridge"
  BY DEF SendSideReady, relayVars, sessionVars, At
<1>2. CASE UNCHANGED <<client, outbox>> /\ Fail(s, "C_SIDE_READY_SEND_FAILED")
  BY <1>1, <1>2, QuietBridgeOrder DEF Fail, Knows
<1>3. CASE /\ client' = [client EXCEPT ![s] = client'[s]] /\ x \in Notes
           /\ client'[s].advertisement = client[s].advertisement
           /\ outbox' = [outbox EXCEPT ![s] = Append(@, x)] /\ UNCHANGED stage
  <2>1. \A y \in Seats : Knows(y)' = Knows(y)
    BY <1>3 DEF Knows, TypeInv, ClientShape
  <2>2. Posts(s, x)
    BY <1>1, <1>3 DEF Posts, Pending, Early
  <2> HIDE DEF x
  <2> QED
    BY <1>1, <1>3, <2>1, <2>2, PostsOrder
<1> QED
  BY <1>2, <1>3, SendSideReadyEffect

\* The inbox becomes the batch.
LEMMA PollOrder ==
  ASSUME TypeInv, TypeInv', OrderInv, NEW s \in Seats, Poll(s)
  PROVE  OrderInv'
<1>0. PICK p \in Seats : p = Peer(s)
  BY PeerIsOther
<1>1. /\ p # s /\ Peer(p) = s
      /\ ChainOf(s) /\ QueuesOf(s) /\ EarlyOf(s) /\ ChainOf(p) /\ QueuesOf(p) /\ EarlyOf(p)
  BY <1>0, BothSides
<1>2. /\ UNCHANGED <<up, down, pending, retained, client, outbox, stage, unsent, offered, received>>
      /\ batch' = [batch EXCEPT ![s] = inbox[s]] /\ inbox' = [inbox EXCEPT ![s] = <<>>]
      /\ stage[s] = "bridge"
  BY DEF Poll, relayVars, sessionVars, At
<1>3. batch'[s] = inbox[s] /\ inbox'[s] = <<>> /\ batch'[p] = batch[p] /\ inbox'[p] = inbox[p]
  BY <1>1, <1>2 DEF TypeInv, ClientShape, BridgeShape
<1>4. \A y \in Seats : Knows(y)' = Knows(y)
  BY <1>2 DEF Knows
<1>5. ChainOf(s)'
  <2> DEFINE P == Path(s) Q == Path(s)' n == offered[p] known == Knows(s)
             Before2(i) == IF i = 2 THEN 3 ELSE i
  <2>1. known \in BOOLEAN /\ n \in Nat /\ Chain(known, P) /\ Bounded(n, P)
    BY <1>0, <1>1, KnowsIsBoolean DEF TypeInv, BridgeShape, ChainOf
  <2>2. \A i \in 1..8 : Q[i] = {} \/ (i # 3 /\ Q[i] \subseteq P[Before2(i)])
    <3> SUFFICES ASSUME NEW i \in 1..8 PROVE Q[i] = {} \/ (i # 3 /\ Q[i] \subseteq P[Before2(i)])
      OBVIOUS
    <3>1. i = 1 \/ i = 2 \/ i = 3 \/ i = 4 \/ i = 5 \/ i = 6 \/ i = 7 \/ i = 8
      OBVIOUS
    <3>2. CASE i = 1 \/ i = 4 \/ i = 8
      BY <1>2, <3>2, PathOf, PathAfter
    <3>3. CASE i = 2
      BY <1>3, <3>3, PathOf, PathAfter
    <3>4. CASE i = 3
      BY <1>3, <3>4, PathAfter, ElemsOfEmpty
    <3>5. CASE i = 5
      <4>1. Q[5] = {pending'[Peer(s)]} \ {NoFrame} /\ P[5] = {pending[Peer(s)]} \ {NoFrame}
        BY PathOf, PathAfter
      <4> QED
        BY <1>2, <3>5, <4>1
    <3>6. CASE i = 6 \/ i = 7
      BY <1>2, <3>6, PathOf, PathAfter
    <3> QED
      BY <3>1, <3>2, <3>3, <3>4, <3>5, <3>6
  <2> HIDE DEF P, Q, n, known
  <2>3. Chain(known, Q)
    <3> SUFFICES ASSUME NEW i \in 1..8, NEW j \in 1..8, i < j, NEW f \in Q[i], NEW g \in Q[j]
                 PROVE  Before(known, f, g)
      BY DEF Chain
    <3>1. /\ f \in P[Before2(i)] /\ g \in P[Before2(j)] /\ i # 3 /\ j # 3
      BY <2>2
    <3>2. Before2(i) \in 1..8 /\ Before2(j) \in 1..8 /\ Before2(i) < Before2(j)
      BY <3>1
    <3> HIDE DEF Before2
    <3> QED
      BY <2>1, <3>1, <3>2 DEF Chain
  <2>4. Bounded(n, Q)
    <3> SUFFICES ASSUME NEW i \in 1..8, NEW f \in Q[i], f.kind = "RFU" PROVE f.body \in 1..n
      BY DEF Bounded
    <3>1. f \in P[Before2(i)] /\ Before2(i) \in 1..8
      BY <2>2
    <3> HIDE DEF Before2
    <3> QED
      BY <2>1, <3>1 DEF Bounded
  <2> QED
    BY <1>0, <1>2, <1>4, <2>3, <2>4 DEF ChainOf, Q, n, known
<1>6. QueuesOf(s)'
  <2>1. Follows(s)
    BY <1>1, <1>2, <1>3, <1>4, OrderedEmpty DEF Follows, QueuesOf
  <2> QED
    BY <1>1, <1>4, <2>1, QueuesStay
<1>7. EarlyOf(s)'
  <2>1. \A f \in Ahead(s)' : f \in Ahead(s)
    <3>1. /\ Elems(inbox[s])' = {} /\ Elems(down[s])' = Elems(down[s])
          /\ Elems(up[p])' = Elems(up[p]) /\ Elems(outbox[p])' = Elems(outbox[p])
          /\ pending'[p] = pending[p]
      BY <1>2, <1>3, ElemsOfEmpty DEF Elems
    <3> QED
      BY <1>0, <3>1 DEF Ahead
  <2>2. s = "B" => Knows(s)
    BY <1>1, <1>2 DEF EarlyOf
  <2>3. /\ Elems(retained[p])' = Elems(retained[p]) /\ Elems(inbox[s])' = {}
        /\ Early(p)' = Early(p)
    BY <1>2, <1>3, ElemsOfEmpty DEF Elems, Early
  <2> QED
    BY <1>0, <1>1, <1>4, <2>1, <2>2, <2>3, EarlyKeeps
<1>8. ChainOf(p)' /\ QueuesOf(p)' /\ EarlyOf(p)'
  BY <1>1, <1>2, <1>3, <1>4, SideStays DEF Early
<1> QED
  BY <1>0, <1>5, <1>6, <1>7, <1>8, OrderBothSides

LEMMA NumberedAppend ==
  ASSUME NEW S, NEW q \in Seq(S), NEW n \in S
  PROVE  Numbered(Append(q, n)) = Numbered(q) \cup {Pending("RFU", n)}
BY ElemsOfAppend DEF Numbered

LEMMA NumberedTail ==
  ASSUME NEW S, NEW q \in Seq(S), q # <<>>
  PROVE  Pending("RFU", Head(q)) \in Numbered(q) /\ Numbered(Tail(q)) \subseteq Numbered(q)
BY ElemsOfTail DEF Numbered

\* A frame of the batch is handled: an RFU frame is handed to the Switch.
LEMMA DrainOrder ==
  ASSUME TypeInv, TypeInv', OrderInv, NEW s \in Seats, Drain(s)
  PROVE  OrderInv'
<1> DEFINE f == Head(batch[s]) x == Pending("RFU", f.body)
<1>0. PICK p \in Seats : p = Peer(s)
  BY PeerIsOther
<1>1. /\ p # s /\ Peer(p) = s
      /\ ChainOf(s) /\ QueuesOf(s) /\ EarlyOf(s) /\ ChainOf(p) /\ QueuesOf(p) /\ EarlyOf(p)
  BY <1>0, BothSides
<1>2. /\ At(s, "drain") /\ batch[s] # <<>> /\ f \in Frames
      /\ batch' = [batch EXCEPT ![s] = Tail(batch[s])]
      /\ UNCHANGED <<relayVars, clientVars, unsent, offered>>
      /\ \/ (\E e \in BridgeErrors : Fail(s, e)) /\ UNCHANGED received
         \/ UNCHANGED stage /\ UNCHANGED received
         \/ /\ UNCHANGED stage /\ f.kind = "RFU"
            /\ received' = [received EXCEPT ![s] = Append(received[s], f.body)]
  BY DrainEffect
<1>3. /\ UNCHANGED <<up, down, pending, retained, client, outbox, inbox, unsent, offered>>
      /\ stage[s] = "bridge" /\ batch \in [Seats -> Seq(Frames)] /\ batch[s] \in Seq(Frames)
      /\ received \in [Seats -> Seq(Bodies)] /\ received[s] \in Seq(Bodies)
      /\ stage \in [Seats -> {"connecting", "advertisement", "bridge", "failed"}]
  BY <1>2 DEF relayVars, sessionVars, clientVars, At, TypeInv, BridgeShape
<1>4. /\ batch'[s] = Tail(batch[s]) /\ batch'[p] = batch[p] /\ received'[p] = received[p]
      /\ stage'[s] \in {stage[s], "failed"} /\ stage'[p] = stage[p]
  <2>1. batch'[s] = Tail(batch[s]) /\ batch'[p] = batch[p]
    BY <1>1, <1>2, <1>3
  <2>2. received'[p] = received[p]
    BY <1>1, <1>2, <1>3
  <2>3. stage' = stage \/ stage' = [stage EXCEPT ![s] = "failed"]
    BY <1>2 DEF Fail
  <2>4. stage'[s] \in {stage[s], "failed"} /\ stage'[p] = stage[p]
    BY <1>1, <1>3, <2>3
  <2> QED
    BY <2>1, <2>2, <2>4
<1>5. \A y \in Seats : Knows(y)' = Knows(y)
  BY <1>3 DEF Knows
<1>6. f \in Elems(batch[s]) /\ Elems(batch'[s]) \subseteq Elems(batch[s])
  BY <1>2, <1>3, <1>4, ElemsOfTail
<1>7. Ordered(Knows(s), batch'[s]) /\ \A g \in Elems(batch'[s]) : Before(Knows(s), f, g)
  BY <1>1, <1>2, <1>3, <1>4, OrderedTail DEF QueuesOf
<1>8. s = "B" => Knows(s)
  BY <1>1, <1>3 DEF EarlyOf
<1>9. EarlyStep(s)
  BY <1>0, <1>3, <1>4, <1>5, <1>8 DEF EarlyStep, Early
<1>10. offered' = offered /\ Knows(s)' = Knows(s)
  BY <1>3, <1>5
<1>11. ChainOf(s)' /\ QueuesOf(s)' /\ EarlyOf(s)'
  <2>1. CASE UNCHANGED received
    <3>1. Passes(s, 0, NoFrame)
      BY <1>0, <1>3, <1>6, <2>1 DEF Passes, Came
    <3>2. Follows(s)
      BY <1>0, <1>3, <1>5, <1>7, <2>1 DEF Follows
    <3> QED
      BY <1>1, <1>10, <1>9, <3>1, <3>2, SideMoves
  <2>2. CASE f.kind = "RFU" /\ received' = [received EXCEPT ![s] = Append(received[s], f.body)]
    <3> DEFINE q == received[s] b == f.body
    <3>1. q \in Seq(Bodies) /\ b \in Bodies /\ received'[s] = Append(q, b)
      BY <1>2, <1>3, <2>2, FrameFields
    <3>2. \A n \in Elems(q) : n < b
      <4> SUFFICES ASSUME NEW n \in Elems(q) PROVE n < b
        OBVIOUS
      <4>1. Pending("RFU", n) \in Path(s)[1] /\ f \in Path(s)[2]
        BY <1>6, PathOf DEF Numbered
      <4>2. Before(Knows(s), Pending("RFU", n), f)
        BY <1>1, <4>1 DEF ChainOf, Chain
      <4> QED
        BY <2>2, <4>2 DEF Before, Pending
    <3>3. Increasing(q)
      BY <1>1 DEF QueuesOf
    <3> HIDE DEF q, b
    <3>4. Increasing(received'[s]) /\ Numbered(received'[s]) = Numbered(q) \cup {Pending("RFU", b)}
      BY <3>1, <3>2, <3>3, IncreasingAppend, NumberedAppend
    <3>5. \A g \in Numbered(received'[s]) : Came(g, Numbered(received[s]), 1 = 1, x)
      BY <3>4 DEF Came, q, b
    <3>6. Passes(s, 1, x)
      BY <1>0, <1>3, <1>6, <3>5 DEF Passes, Came
    <3>7. Follows(s)
      BY <1>0, <1>3, <1>5, <1>7, <3>4 DEF Follows
    <3>8. f \in Path(s)[1 + 1] /\ Path(s)'[1 + 1] = Elems(batch'[s])
      BY <1>6, PathOf, PathAfter
    <3>9. x.kind = f.kind /\ x.body = f.body
      BY <2>2 DEF Pending
    <3> HIDE DEF f, x
    <3>10. Leads(s, Path(s)[1 + 1], Path(s)'[1 + 1], x)
      BY <1>7, <3>8, <3>9 DEF Leads
    <3> QED
      BY <1>1, <1>10, <1>9, <3>6, <3>7, <3>10, SideMoves
  <2> QED
    BY <1>2, <2>1, <2>2
<1>12. ChainOf(p)' /\ QueuesOf(p)' /\ EarlyOf(p)'
  <2>1. Early(s)' => Early(s)
    BY <1>3, <1>4 DEF Early
  <2> QED
    BY <1>1, <1>3, <1>4, <1>5, <2>1, SideStays
<1> QED
  BY <1>0, <1>11, <1>12, OrderBothSides

\* A local frame leaves the bridge's queue for the client's.
LEMMA FlushOrder ==
  ASSUME TypeInv, TypeInv', OrderInv, NEW s \in Seats, Flush(s)
  PROVE  OrderInv'
<1> DEFINE h == Head(unsent[s]) x == Pending("RFU", h)
<1>0. PICK p \in Seats : p = Peer(s)
  BY PeerIsOther
<1>1. /\ p # s /\ Peer(p) = s
      /\ ChainOf(s) /\ QueuesOf(s) /\ EarlyOf(s) /\ ChainOf(p) /\ QueuesOf(p) /\ EarlyOf(p)
  BY <1>0, BothSides
<1>2. /\ At(s, "poll") \/ At(s, "drain")
      /\ UNCHANGED <<relayVars, client, inbox, batch, offered, received>>
      /\ \/ /\ UNCHANGED stage /\ unsent[s] # <<>> /\ h \in Nat /\ x \in Notes
            /\ outbox' = [outbox EXCEPT ![s] = Append(outbox[s], x)]
            /\ unsent' = [unsent EXCEPT ![s] = Tail(unsent[s])]
         \/ UNCHANGED <<outbox, unsent>> /\ (stage' = stage \/ stage' = [stage EXCEPT ![s] = "failed"])
  BY FlushEffect
<1>3. /\ UNCHANGED <<up, down, pending, retained, client, inbox, batch, offered, received>>
      /\ stage[s] = "bridge" /\ outbox \in [Seats -> Seq(Notes)] /\ outbox[s] \in Seq(Notes)
      /\ unsent \in [Seats -> Seq(Nat)] /\ unsent[s] \in Seq(Nat)
  BY <1>2 DEF relayVars, sessionVars, At, TypeInv, ClientShape, BridgeShape
<1>4. \A y \in Seats : Knows(y)' = Knows(y)
  BY <1>3 DEF Knows
<1>5. offered' = offered /\ Knows(p)' = Knows(p)
  BY <1>3, <1>4
<1>6. CASE UNCHANGED <<outbox, unsent>> /\ (stage' = stage \/ stage' = [stage EXCEPT ![s] = "failed"])
  BY <1>3, <1>4, <1>6, QuietBridgeOrder
<1>7. CASE /\ UNCHANGED stage /\ unsent[s] # <<>> /\ h \in Nat /\ x \in Notes
           /\ outbox' = [outbox EXCEPT ![s] = Append(outbox[s], x)]
           /\ unsent' = [unsent EXCEPT ![s] = Tail(unsent[s])]
  <2>1. /\ outbox'[s] = Append(outbox[s], x) /\ outbox'[p] = outbox[p]
        /\ unsent'[s] = Tail(unsent[s]) /\ unsent'[p] = unsent[p]
    BY <1>1, <1>3, <1>7
  <2>2. Numbered(unsent'[s]) \subseteq Numbered(unsent[s]) /\ x \in Numbered(unsent[s])
    BY <1>3, <1>7, <2>1, NumberedTail
  <2>3. Increasing(unsent'[s]) /\ \A m \in Elems(unsent'[s]) : h < m
    BY <1>1, <1>3, <1>7, <2>1, IncreasingTail DEF QueuesOf
  <2>4. \A g \in Numbered(unsent'[s]) : Before(Knows(p), x, g)
    BY <2>3 DEF Numbered, Before, Pending
  <2>5. \A g \in Elems(outbox[s]) : Before(Knows(p), g, x)
    <3>1. Path(p)[7] = Elems(outbox[s]) /\ x \in Path(p)[8]
      BY <1>1, <2>2, PathOf
    <3> QED
      BY <1>1, <3>1 DEF ChainOf, Chain
  <2>6. x.kind = "RFU"
    BY DEF Pending
  <2> HIDE DEF x, h
  <2>7. Elems(outbox'[s]) = Elems(outbox[s]) \cup {x}
    BY <1>3, <1>7, <2>1, ElemsOfAppend
  <2>8. Ordered(Knows(p), outbox'[s])
    <3>1. Ordered(Knows(p), outbox[s])
      BY <1>1 DEF QueuesOf
    <3> QED
      BY <1>3, <1>7, <2>1, <2>5, <3>1, OrderedAppend
  <2>9. ChainOf(p)'
    <3>1. \A f \in Elems(outbox'[s]) : Came(f, Elems(outbox[s]), 7 = 7, x)
      BY <2>7 DEF Came
    <3>2. Passes(p, 7, x)
      BY <1>1, <1>3, <2>2, <3>1 DEF Passes, Came
    <3>3. x \in Path(p)[7 + 1] /\ Path(p)'[7 + 1] = Numbered(unsent'[s])
      BY <1>1, <2>2, PathOf, PathAfter
    <3>4. Leads(p, Path(p)[7 + 1], Path(p)'[7 + 1], x)
      BY <2>4, <3>3 DEF Leads
    <3> QED
      BY <1>1, <1>5, <3>2, <3>4, PathMoves
  <2>10. QueuesOf(p)'
    <3>1. Follows(p)
      BY <1>1, <1>3, <1>4, <2>3, <2>8 DEF Follows
    <3> QED
      BY <1>1, <1>4, <3>1, QueuesStay
  <2>11. EarlyOf(p)'
    <3>1. \A f \in Ahead(p)' : f \in Ahead(p) \/ f = x
      <4>1. /\ Elems(inbox[p])' = Elems(inbox[p]) /\ Elems(down[p])' = Elems(down[p])
            /\ Elems(up[s])' = Elems(up[s]) /\ Elems(outbox[s])' = Elems(outbox[s]) \cup {x}
            /\ pending'[s] = pending[s]
        BY <1>3, <2>7 DEF Elems
      <4> QED
        BY <1>1, <4>1 DEF Ahead
    <3>2. ~Early(s)'
      BY <1>3, <1>7 DEF Early
    <3>3. Elems(retained[s])' = Elems(retained[s]) /\ Elems(inbox[p])' = Elems(inbox[p])
      BY <1>3 DEF Elems
    <3> QED
      BY <1>1, <1>3, <1>4, <1>7, <2>6, <3>1, <3>2, <3>3 DEF EarlyOf
  <2>12. ChainOf(s)' /\ QueuesOf(s)' /\ EarlyOf(s)'
    BY <1>0, <1>1, <1>3, <1>4, <1>7, <2>1, SideStays DEF Early
  <2> QED
    BY <1>0, <2>9, <2>10, <2>11, <2>12, OrderBothSides
<1> QED
  BY <1>2, <1>6, <1>7

\* The local Switch produces the next frame.
LEMMA SendRfuOrder ==
  ASSUME TypeInv, TypeInv', OrderInv, NEW s \in Seats, SendRfu(s)
  PROVE  OrderInv'
<1> DEFINE n == offered[s] + 1
<1>0. PICK p \in Seats : p = Peer(s)
  BY PeerIsOther
<1>1. /\ p # s /\ Peer(p) = s
      /\ ChainOf(s) /\ QueuesOf(s) /\ EarlyOf(s) /\ ChainOf(p) /\ QueuesOf(p) /\ EarlyOf(p)
  BY <1>0, BothSides
<1>2. /\ UNCHANGED <<up, down, pending, retained, client, outbox, inbox, stage, batch, received>>
      /\ offered' = [offered EXCEPT ![s] = n] /\ unsent' = [unsent EXCEPT ![s] = Append(unsent[s], n)]
  BY DEF SendRfu, relayVars, sessionVars, clientVars, TypeInv, BridgeShape
<1>3. /\ offered \in [Seats -> Nat] /\ offered[s] \in Nat /\ n \in Nat
      /\ unsent \in [Seats -> Seq(Nat)] /\ unsent[s] \in Seq(Nat)
  <2>1. offered \in [Seats -> Nat] /\ unsent \in [Seats -> Seq(Nat)]
    BY DEF TypeInv, BridgeShape
  <2>2. offered[s] \in Nat /\ unsent[s] \in Seq(Nat)
    BY <2>1
  <2>3. n \in Nat
    BY ONLY <2>2
  <2> QED
    BY <2>1, <2>2, <2>3
<1>4. /\ offered'[s] = n /\ offered'[p] = offered[p]
      /\ unsent'[s] = Append(unsent[s], n) /\ unsent'[p] = unsent[p]
  BY <1>1, <1>2, <1>3
<1>5. Knows(s)' = Knows(s) /\ Knows(p)' = Knows(p)
  BY <1>2 DEF Knows
<1>6. /\ Numbered(unsent'[s]) = Numbered(unsent[s]) \cup {Pending("RFU", n)}
      /\ \A m \in Elems(unsent[s]) : m < n
  <2>1. \A m \in Elems(unsent[s]) : m \in 1..offered[s]
    <3> SUFFICES ASSUME NEW m \in Elems(unsent[s]) PROVE m \in 1..offered[s]
      OBVIOUS
    <3>1. Pending("RFU", m) \in Path(p)[8]
      BY <1>1, PathOf DEF Numbered
    <3>2. Bounded(offered[s], Path(p))
      BY <1>1 DEF ChainOf
    <3> QED
      BY <3>1, <3>2 DEF Bounded, Pending
  <2>2. \A m \in Elems(unsent[s]) : m < n
    BY <1>3, <2>1
  <2> DEFINE q == unsent[s]
  <2>4. q \in Seq(Nat) /\ n \in Nat
    BY <1>3
  <2> HIDE DEF n, q
  <2>5. Numbered(Append(q, n)) = Numbered(q) \cup {Pending("RFU", n)}
    BY ONLY <2>4, NumberedAppend
  <2>3. Numbered(Append(unsent[s], n)) = Numbered(unsent[s]) \cup {Pending("RFU", n)}
    BY <2>5 DEF q
  <2> QED
    BY <1>4, <2>2, <2>3
<1>7. ChainOf(p)'
  <2> DEFINE P == Path(p) Q == Path(p)' known == Knows(p) old == offered[s] x == Pending("RFU", n)
  <2>1. known \in BOOLEAN /\ Chain(known, P) /\ Bounded(old, P)
    BY <1>1, KnowsIsBoolean DEF TypeInv, BridgeShape, ChainOf
  <2>2. x.kind = "RFU" /\ x.body = n
    BY DEF Pending
  <2>3. \A i \in 1..8 : \A f \in Q[i] : f \in P[i] \/ (i = 8 /\ f = x)
    <3> SUFFICES ASSUME NEW i \in 1..8 PROVE \A f \in Q[i] : f \in P[i] \/ (i = 8 /\ f = x)
      OBVIOUS
    <3> HIDE DEF x
    <3>1. i = 1 \/ i = 2 \/ i = 3 \/ i = 4 \/ i = 5 \/ i = 6 \/ i = 7 \/ i = 8
      OBVIOUS
    <3>2. CASE i = 1 \/ i = 2 \/ i = 3 \/ i = 4
      BY <1>2, <3>2, PathOf, PathAfter
    <3>3. CASE i = 5
      <4>1. Q[5] = {pending'[s]} \ {NoFrame} /\ P[5] = {pending[s]} \ {NoFrame}
        BY <1>1, PathOf, PathAfter
      <4> QED
        BY <1>2, <3>3, <4>1
    <3>4. CASE i = 6 \/ i = 7
      BY <1>2, <3>4, PathOf, PathAfter
    <3>5. CASE i = 8
      <4>1. Q[8] = Numbered(unsent'[s]) /\ P[8] = Numbered(unsent[s])
        BY <1>1, PathOf, PathAfter
      <4> QED
        BY <1>6, <3>5, <4>1 DEF x
    <3> QED
      BY <3>1, <3>2, <3>3, <3>4, <3>5
  <2> HIDE DEF P, Q, known, x
  <2>4. Chain(known, Q)
    <3> SUFFICES ASSUME NEW i \in 1..8, NEW j \in 1..8, i < j, NEW f \in Q[i], NEW g \in Q[j]
                 PROVE  Before(known, f, g)
      BY DEF Chain
    <3>1. f \in P[i] /\ (g \in P[j] \/ g = x)
      BY <2>3
    <3>2. CASE g \in P[j]
      BY <2>1, <3>1, <3>2 DEF Chain
    <3>3. CASE g = x
      <4>1. f.kind = "RFU" => f.body \in 1..old
        BY <2>1, <3>1 DEF Bounded
      <4>2. f.kind = "RFU" => f.body < n
        BY <1>3, <4>1
      <4> QED
        BY <2>2, <3>3, <4>2 DEF Before
    <3> QED
      BY <3>1, <3>2, <3>3
  <2>5. Bounded(n, Q)
    <3> SUFFICES ASSUME NEW i \in 1..8, NEW f \in Q[i], f.kind = "RFU" PROVE f.body \in 1..n
      BY DEF Bounded
    <3>1. CASE f \in P[i]
      <4>1. f.body \in 1..old
        BY <2>1, <3>1 DEF Bounded
      <4> QED
        BY <1>3, <4>1
    <3>2. CASE f = x
      BY <1>3, <2>2, <3>2
    <3> QED
      BY <2>3, <3>1, <3>2
  <2> QED
    BY <1>1, <1>4, <1>5, <2>4, <2>5 DEF ChainOf, Q, known
<1>8. QueuesOf(p)'
  <2> HIDE DEF n
  <2>1. Increasing(unsent'[s])
    BY <1>1, <1>3, <1>4, <1>6, IncreasingAppend DEF QueuesOf
  <2>2. Follows(p)
    BY <1>1, <1>2, <2>1 DEF Follows
  <2> QED
    BY <1>1, <1>5, <2>2, QueuesStay
<1>9. EarlyOf(p)'
  <2>1. Ahead(p)' = Ahead(p)
    BY <1>2 DEF Ahead, Elems
  <2>2. Elems(retained[s])' = Elems(retained[s]) /\ Elems(inbox[p])' = Elems(inbox[p]) /\ Early(s)' = Early(s)
    BY <1>2 DEF Elems, Early
  <2> QED
    BY <1>1, <1>2, <1>5, <2>1, <2>2, EarlyKeeps
<1>10. ChainOf(s)' /\ QueuesOf(s)' /\ EarlyOf(s)'
  BY <1>0, <1>1, <1>2, <1>4, <1>5, SideStays DEF Early
<1> QED
  BY <1>0, <1>7, <1>8, <1>9, <1>10, OrderBothSides

\* Steps that move no frame.
LEMMA OtherOrder ==
  ASSUME TypeInv, OrderInv, NEW s \in Seats,
         Refused(s) \/ ConnectStage(s) \/ SyncProof(s) \/ ReplayLost(s) \/ Expires(s) \/ UNCHANGED tunnelVars
  PROVE  OrderInv'
<1>1. CASE Refused(s)
  <2>1. \A y \in Seats : Knows(y)' = Knows(y)
    BY <1>1 DEF Refused, Knows, TypeInv, ClientShape, Clients
  <2> QED
    BY <1>1, <2>1, QuietBridgeOrder DEF Refused, relayVars, sessionVars, bridgeVars
<1>2. CASE ConnectStage(s)
  <2>1. /\ UNCHANGED <<received, batch, inbox, down, pending, up, outbox, unsent, offered, retained>>
        /\ UNCHANGED client
    BY <1>2 DEF ConnectStage, relayVars, sessionVars, clientVars
  <2>2. \A y \in Seats : stage'[y] = stage[y] \/ (~Early(y)' /\ stage'[y] # "bridge") \/ (Early(y) /\ stage'[y] # "bridge")
    <3>1. stage \in [Seats -> {"connecting", "advertisement", "bridge", "failed"}]
      BY DEF TypeInv, BridgeShape
    <3>2. \/ stage' = [stage EXCEPT ![s] = "advertisement"] /\ stage[s] = "connecting"
          \/ stage' = [stage EXCEPT ![s] = "failed"]
      BY <1>2 DEF ConnectStage
    <3> QED
      BY <3>1, <3>2 DEF Early
  <2>3. \A y \in Seats : (stage'[y] = "bridge" => stage[y] = "bridge") /\ (Early(y)' => Early(y))
    BY <2>2 DEF Early
  <2> QED
    BY <2>1, <2>3, QuietOrder DEF Knows
<1>3. CASE SyncProof(s)
  BY <1>3, SyncEffect, QuietBridgeOrder DEF SyncProof, relayVars, sessionVars, clientVars, Knows
<1>4. CASE ReplayLost(s)
  BY <1>4, QuietBridgeOrder DEF ReplayLost, ReplayFails, clientVars, bridgeVars, Knows
<1>5. CASE Expires(s)
  <2>1. /\ UNCHANGED <<received, batch, inbox, down, pending, up, outbox, unsent, offered>>
        /\ UNCHANGED <<client, stage>> /\ retained' = Each(<<>>)
    BY <1>5 DEF Expires, ExpirePeer, clientVars, bridgeVars
  <2>2. \A y \in Seats : retained'[y] = <<>>
    BY <2>1 DEF Each
  <2> QED
    BY <2>1, <2>2, QuietOrder DEF Knows, Early
<1>6. CASE UNCHANGED tunnelVars
  BY <1>6, QuietBridgeOrder DEF tunnelVars, relayVars, sessionVars, clientVars, bridgeVars, Knows
<1> QED
  BY <1>1, <1>2, <1>3, <1>4, <1>5, <1>6

-----------------------------------------------------------------------------
(* The order holds, and with it the inbox is never overfull: when the       *)
(* advertisement arrives nothing of the bridge has.                         *)

LEMMA OrderStart == SessionInit => OrderInv
<1> SUFFICES ASSUME SessionInit, NEW s \in Seats PROVE ChainOf(s) /\ QueuesOf(s) /\ EarlyOf(s)
  BY DEF OrderInv
<1>1. Peer(s) \in Seats
  BY PeerIsOther
<1>2. /\ received[s] = <<>> /\ batch[s] = <<>> /\ inbox[s] = <<>> /\ down[s] = <<>>
      /\ pending[Peer(s)] = NoFrame /\ up[Peer(s)] = <<>> /\ outbox[Peer(s)] = <<>>
      /\ unsent[Peer(s)] = <<>> /\ retained[Peer(s)] = <<>> /\ stage[s] = "connecting"
  BY <1>1 DEF SessionInit, RelayInit, Each
<1>3. \A i \in 1..8 : Path(s)[i] = {}
  <2> SUFFICES ASSUME NEW i \in 1..8 PROVE Path(s)[i] = {}
    OBVIOUS
  <2>1. i = 1 \/ i = 2 \/ i = 3 \/ i = 4 \/ i = 5 \/ i = 6 \/ i = 7 \/ i = 8
    OBVIOUS
  <2>2. Numbered(<<>>) = {}
    BY ElemsOfEmpty DEF Numbered
  <2>3. CASE i = 5
    <3>1. Path(s)[5] = {pending[Peer(s)]} \ {NoFrame}
      BY PathOf
    <3> QED
      BY <1>2, <2>3, <3>1
  <2>4. CASE i = 1 \/ i = 2 \/ i = 3 \/ i = 4
    BY <1>2, <2>2, <2>4, PathOf, ElemsOfEmpty
  <2>5. CASE i = 6 \/ i = 7 \/ i = 8
    BY <1>2, <2>2, <2>5, PathOf, ElemsOfEmpty
  <2> QED
    BY <2>1, <2>3, <2>4, <2>5
<1>4. ChainOf(s)
  BY <1>3 DEF ChainOf, Chain, Bounded
<1>5. QueuesOf(s)
  <2>1. Increasing(<<>>)
    BY DEF Increasing
  <2> QED
    BY <1>2, <2>1, OrderedEmpty DEF QueuesOf
<1>6. EarlyOf(s)
  BY <1>2, ElemsOfEmpty DEF EarlyOf, Ahead
<1> QED
  BY <1>4, <1>5, <1>6

LEMMA ReceiveOrder ==
  ASSUME TypeInv, TypeInv', OrderInv, NEW s \in Seats, Receive(s) \/ ClientLost(s)
  PROVE  OrderInv'
<1>1. /\ UNCHANGED <<sessionVars, handlers, pending, outbox, bridgeVars>>
      /\ \/ Dropped(s)
         \/ ReadFrame(s) /\ down[s] # <<>> /\ Head(down[s]) \in Frames
  BY ReceiveCases, ClientLostIsDrop
<1>2. CASE Dropped(s)
  <2>1. Knows(s)' = Knows(s)
    BY <1>2, DroppedEffect DEF Knows
  <2> QED
    BY <1>1, <1>2, <2>1, DroppedOrder
<1>3. CASE ReadFrame(s) /\ down[s] # <<>> /\ Head(down[s]) \in Frames
  BY <1>1, <1>3, ReadFrameOrder
<1> QED
  BY <1>1, <1>2, <1>3

LEMMA OrderSteps == TypeInv /\ TypeInv' /\ OrderInv /\ [SessionNext]_tunnelVars => OrderInv'
<1> SUFFICES ASSUME TypeInv, TypeInv', OrderInv, [SessionNext]_tunnelVars PROVE OrderInv'
  OBVIOUS
<1>1. ASSUME NEW s \in Seats, TunnelThread(s) \/ ClientLost(s) PROVE OrderInv'
  BY <1>1, ConnectOrder, OtherOrder, SendPendingOrder, ReceiveOrder DEF TunnelThread
<1>2. ASSUME NEW s \in Seats, MainThread(s) PROVE OrderInv'
  BY <1>2, OtherOrder, AdvertisementOrder, SendSideReadyOrder, PollOrder, DrainOrder, FlushOrder
  DEF MainThread, Pump
<1>3. ASSUME NEW s \in Seats, SendRfu(s) PROVE OrderInv'
  BY <1>3, SendRfuOrder
<1>4. ASSUME NEW s \in Seats, RelayServes(s) \/ HandlerLost(s) PROVE OrderInv'
  <2>1. UNCHANGED <<clientVars, bridgeVars>>
    BY <1>4 DEF RelayServes, HandlerLost
  <2>2. Take(s) \/ Process(s) \/ Reject(s) \/ RevokedEnds(s) \/ Reset(s)
    BY <1>4 DEF RelayServes, RelayStep, HandlerLost
  <2> QED
    BY <2>1, <2>2, TakeOrder, ProcessOrder, HandlerEndsOrder
<1>5. ASSUME NEW s \in Seats, ReplayLost(s) \/ Expires(s) PROVE OrderInv'
  BY <1>5, OtherOrder
<1>6. CASE UNCHANGED tunnelVars
  <2>1. "A" \in Seats
    BY DEF Seats
  <2> QED
    BY <1>6, <2>1, OtherOrder
<1> QED
  BY <1>1, <1>2, <1>3, <1>4, <1>5, <1>6 DEF SessionNext

\* The client's inbox and what the local Switch has produced stay within their bounds.
Fits == \A s \in Seats : Len(inbox[s]) <= Capacity /\ offered[s] \in 0..MaxRfu(s)

LEMMA FitsStart == SessionInit => Fits
BY SessionAssumption DEF SessionInit, Fits, Each, MaxRfu

\* Nothing is in the inbox when the first advertisement is accepted.
LEMMA AdvertisementFindsRoom ==
  ASSUME TypeInv, OrderInv, NEW s \in Seats, down[s] # <<>>,
         Head(down[s]).kind = "ADVERTISEMENT", ~Knows(s)
  PROVE  inbox[s] = <<>>
<1> DEFINE f == Head(down[s])
<1>1. ChainOf(s) /\ EarlyOf(s) /\ inbox[s] \in Seq(Frames) /\ down[s] \in Seq(Frames)
  BY DEF OrderInv, TypeInv, ClientShape, RelayInv, RelayShape
<1>2. f \in Path(s)[4] /\ Path(s)[3] = Elems(inbox[s])
  BY <1>1, PathOf, ElemsOfTail
<1>3. \A g \in Elems(inbox[s]) : g.kind \in Handshake
  BY <1>1, <1>2 DEF ChainOf, Chain, Before
<1>4. \A g \in Elems(inbox[s]) : FALSE
  BY <1>1, <1>3 DEF EarlyOf, Handshake
<1>5. Len(inbox[s]) \in Nat /\ (Len(inbox[s]) # 0 => 1 \in 1..Len(inbox[s]))
  BY <1>1
<1>6. Len(inbox[s]) = 0
  BY <1>4, <1>5 DEF Elems
<1> QED
  BY <1>1, <1>6

LEMMA FitsSteps == TypeInv /\ OrderInv /\ Fits /\ [SessionNext]_tunnelVars => Fits'
<1> SUFFICES ASSUME TypeInv, OrderInv, Fits, [SessionNext]_tunnelVars PROVE Fits'
  OBVIOUS
<1>1. /\ inbox \in [Seats -> Seq(Frames)] /\ offered \in [Seats -> Nat]
      /\ \A s \in Seats : MaxRfu(s) \in Nat
  BY SessionAssumption DEF TypeInv, ClientShape, BridgeShape, MaxRfu
<1>2. ASSUME UNCHANGED <<inbox, offered>> PROVE Fits'
  BY <1>2 DEF Fits, MaxRfu
<1>3. ASSUME NEW s \in Seats, inbox' = [inbox EXCEPT ![s] = <<>>], UNCHANGED offered PROVE Fits'
  <2>1. \A y \in Seats : inbox'[y] = inbox[y] \/ inbox'[y] = <<>>
    BY <1>1, <1>3
  <2>2. Len(<<>>) <= Capacity
    BY SessionAssumption
  <2> QED
    BY <1>3, <2>1, <2>2 DEF Fits, MaxRfu
<1>4. ASSUME NEW s \in Seats, Receive(s) PROVE Fits'
  <2> DEFINE f == Head(down[s])
  <2>1. /\ UNCHANGED bridgeVars /\ down[s] # <<>> /\ f \in Frames
        /\ Dropped(s) \/ ReadFrame(s)
    BY <1>4, ReceiveCases
  <2>2. \/ inbox' = inbox
        \/ inbox' = [inbox EXCEPT ![s] = Append(inbox[s], f)] /\ Len(inbox[s]) < Capacity
    <3>1. \/ inbox' = inbox
          \/ /\ inbox' = [inbox EXCEPT ![s] = Append(inbox[s], f)]
             /\ \/ Len(inbox[s]) < Capacity
                \/ f.kind = "ADVERTISEMENT" /\ ~client[s].advertisement
      BY <2>1 DEF Dropped, ReadFrame, OnPeerReady, OnChallenge, OwnResponse, Delivered
    <3>2. f.kind = "ADVERTISEMENT" /\ ~client[s].advertisement => Len(inbox[s]) < Capacity
      <4> SUFFICES ASSUME f.kind = "ADVERTISEMENT" /\ ~client[s].advertisement
                   PROVE  Len(inbox[s]) < Capacity
        OBVIOUS
      <4>1. inbox[s] = <<>>
        BY <2>1, AdvertisementFindsRoom DEF Knows
      <4>2. Len(inbox[s]) = 0
        BY <4>1
      <4> QED
        BY <4>2, SessionAssumption
    <3> QED
      BY <3>1, <3>2
  <2>3. CASE inbox' = inbox
    BY <1>2, <2>1, <2>3 DEF bridgeVars
  <2>4. CASE inbox' = [inbox EXCEPT ![s] = Append(inbox[s], f)] /\ Len(inbox[s]) < Capacity
    <3>1. inbox[s] \in Seq(Frames) /\ Len(inbox[s]) \in Nat
      BY <1>1
    <3>2. \A y \in Seats : inbox'[y] = inbox[y] \/ (y = s /\ inbox'[y] = Append(inbox[s], f))
      BY <1>1, <2>4
    <3>3. Len(Append(inbox[s], f)) <= Capacity
      <4> DEFINE q == inbox[s]
      <4>1. q \in Seq(Frames) /\ Len(q) < Capacity
        BY <3>1, <2>4
      <4> HIDE DEF q, f
      <4>2. Len(Append(q, f)) = Len(q) + 1 /\ Len(q) \in Nat
        BY <4>1, <2>1
      <4> QED
        BY <4>1, <4>2, SessionAssumption DEF q
    <3> QED
      BY <2>1, <3>2, <3>3 DEF Fits, bridgeVars, MaxRfu
  <2> QED
    BY <2>2, <2>3, <2>4
<1>5. ASSUME NEW s \in Seats, SendRfu(s) PROVE Fits'
  <2>1. offered' = [offered EXCEPT ![s] = offered[s] + 1] /\ offered[s] < MaxRfu(s) /\ inbox' = inbox
    BY <1>5 DEF SendRfu, clientVars
  <2>2. \A y \in Seats : offered'[y] = offered[y] \/ (y = s /\ offered'[y] = offered[s] + 1)
    BY <1>1, <2>1
  <2> QED
    BY <1>1, <2>1, <2>2 DEF Fits, MaxRfu
<1>6. ASSUME NEW s \in Seats, Connect(s) \/ Poll(s) PROVE Fits'
  BY <1>3, <1>6 DEF Connect, Poll, bridgeVars
<1>7. CASE AwaitAdvertisement
  <2>1. "B" \in Seats
    BY DEF Seats
  <2> QED
    BY <1>2, <1>3, <1>7, <2>1 DEF AwaitAdvertisement
<1>8. ASSUME NEW s \in Seats,
             \/ Refused(s) \/ SendPending(s) \/ ConnectStage(s) \/ Publish \/ SyncProof(s)
             \/ SendSideReady(s) \/ Drain(s) \/ Flush(s) \/ RelayServes(s) \/ ReplayLost(s)
             \/ Expires(s) \/ ClientLost(s) \/ HandlerLost(s)
      PROVE  Fits'
  <2>1. UNCHANGED <<inbox, offered>>
    BY <1>8 DEF Refused, SendPending, ConnectStage, Publish, SyncProof, SendSideReady, Drain, Flush,
                RelayServes, ReplayLost, Expires, ClientLost, HandlerLost, clientVars, bridgeVars
  <2> QED
    BY <1>2, <2>1
<1>9. CASE UNCHANGED tunnelVars
  BY <1>2, <1>9 DEF tunnelVars, clientVars, bridgeVars
<1> QED
  BY <1>4, <1>5, <1>6, <1>7, <1>8, <1>9 DEF SessionNext, TunnelThread, MainThread, Pump

\* RFU reaches the other Switch in the order it was sent and never twice, across every loss,
\* reset, replay and restart of the proof (C2Bridge, TunnelClientV2, _process_v2_frame).
THEOREM RfuOrdered == SessionSpec => []RfuInOrder
<1> DEFINE IInv == TypeInv /\ OrderInv
<1>1. SessionInit => IInv
  BY TypesStart, OrderStart
<1>2. IInv /\ [SessionNext]_tunnelVars => IInv'
  BY TypeSteps, OrderSteps
<1>3. IInv => RfuInOrder
  BY DEF OrderInv, QueuesOf, Increasing, RfuInOrder
<1> QED
  BY <1>1, <1>2, <1>3, PTL DEF SessionSpec

-----------------------------------------------------------------------------
(* The proof of the data plane: what a client counts as the peer's answer   *)
(* was sent by the peer in the epoch the client has heard of last.          *)

\* A frame the client sent, c being its state: in an epoch it has had, and an answer in the
\* present epoch means that it has answered.
FromEpoch(c, f) ==
  /\ 1 <= f.epoch /\ f.epoch <= c.epoch
  /\ f.kind = "PROBE_RESPONSE" /\ f.epoch = c.epoch => c.answered

\* The frames of a seat on their way, or kept for a connection of the peer.
SentBy(p) ==
  Elems(up[p]) \cup ({pending[p]} \ {NoFrame}) \cup Elems(retained[p]) \cup Elems(down[Peer(p)])

\* What a client h knows of its peer c.
HeardFrom(c, h) ==
  /\ h.gate.epoch <= c.epoch
  /\ h.proven => h.returned
  /\ h.returned => h.gate.epoch # 0 /\ (c.epoch = h.gate.epoch => c.answered)

\* A proof for each epoch at most.
Counts(c) ==
  /\ c.up => c.epoch >= 1
  /\ c.proof <= c.epoch
  /\ c.up /\ ~c.proven => c.proof < c.epoch

AnswerOf(p) ==
  /\ Counts(client[p])
  /\ gates[p].epoch <= client[p].epoch
  /\ HeardFrom(client[p], client[Peer(p)])
  /\ \A f \in SentBy(p) : FromEpoch(client[p], f)
  /\ \A h \in Elems(outbox[p]) : h.kind \notin Protocol

AnswerInv == \A p \in Seats : AnswerOf(p)

\* A client goes on in its epoch, and has answered what it had, or starts a later one.
Speaks(c, n) ==
  /\ n.epoch > c.epoch \/ (n.epoch = c.epoch /\ (c.answered => n.answered))
  /\ Counts(n)

\* A client hears nothing new, starts afresh with one of the frames S or none, or gets an
\* answer that is one of S.
Hears(c, n, S) ==
  /\ n.proven => n.returned
  /\ \/ n.gate.epoch = c.gate.epoch /\ (n.returned => c.returned)
     \/ ~n.returned /\ n.gate.epoch = 0
     \/ ~n.returned /\ \E f \in S : f.epoch = n.gate.epoch
     \/ \E f \in S : f.kind = "PROBE_RESPONSE" /\ f.epoch = n.gate.epoch

LEMMA SpeakerKeeps ==
  ASSUME NEW c \in Clients, NEW n \in Clients, Speaks(c, n), NEW f, f.epoch \in Nat, FromEpoch(c, f)
  PROVE  FromEpoch(n, f)
<1>1. c.epoch \in Nat /\ n.epoch \in Nat
  BY DEF Clients
<1>2. f.epoch <= n.epoch /\ (f.epoch = n.epoch => n.epoch = c.epoch)
  BY <1>1 DEF Speaks, FromEpoch
<1>3. f.kind = "PROBE_RESPONSE" /\ f.epoch = n.epoch => n.answered
  <2> SUFFICES ASSUME f.kind = "PROBE_RESPONSE", f.epoch = n.epoch PROVE n.answered
    OBVIOUS
  <2>1. n.epoch = c.epoch
    BY <1>2
  <2>2. c.answered => n.answered
    BY <1>1, <2>1 DEF Speaks
  <2> QED
    BY <2>1, <2>2 DEF FromEpoch
<1> QED
  BY <1>2, <1>3 DEF FromEpoch

\* What one knows of the other stays true when the other goes on.
LEMMA SpeakerHeard ==
  ASSUME NEW c \in Clients, NEW n \in Clients, NEW h \in Clients, Speaks(c, n), HeardFrom(c, h)
  PROVE  HeardFrom(n, h)
<1>1. c.epoch \in Nat /\ n.epoch \in Nat /\ h.gate.epoch \in Nat
  BY DEF Clients, GateSet
<1>2. h.gate.epoch <= n.epoch /\ (n.epoch = h.gate.epoch => n.epoch = c.epoch)
  BY <1>1 DEF Speaks, HeardFrom
<1>3. n.epoch = c.epoch => (c.answered => n.answered)
  BY <1>1 DEF Speaks
<1> QED
  BY <1>2, <1>3 DEF HeardFrom

\* What it hears from frames the other has sent is true of the other.
LEMMA ListenerHeard ==
  ASSUME NEW c \in Clients, NEW h \in Clients, NEW n \in Clients, NEW S, HeardFrom(c, h),
         \A f \in S : FromEpoch(c, f), Hears(h, n, S)
  PROVE  HeardFrom(c, n)
<1>1. c.epoch \in Nat /\ n.gate.epoch \in Nat /\ n.proven \in BOOLEAN /\ n.returned \in BOOLEAN
  BY DEF Clients, GateSet
<1>2. n.proven => n.returned
  BY DEF Hears
<1>3. CASE n.gate.epoch = h.gate.epoch /\ (n.returned => h.returned)
  BY <1>2, <1>3 DEF HeardFrom
<1>4. CASE ~n.returned /\ n.gate.epoch = 0
  BY <1>1, <1>2, <1>4 DEF HeardFrom
<1>5. CASE ~n.returned /\ \E f \in S : f.epoch = n.gate.epoch
  BY <1>2, <1>5 DEF HeardFrom, FromEpoch
<1>6. CASE \E f \in S : f.kind = "PROBE_RESPONSE" /\ f.epoch = n.gate.epoch
  <2>1. PICK f \in S : f.kind = "PROBE_RESPONSE" /\ f.epoch = n.gate.epoch
    BY <1>6
  <2>2. 1 <= n.gate.epoch /\ n.gate.epoch <= c.epoch /\ (n.gate.epoch = c.epoch => c.answered)
    BY <2>1 DEF FromEpoch
  <2>3. n.gate.epoch # 0
    BY <1>1, <2>2
  <2> QED
    BY <1>2, <2>2, <2>3 DEF HeardFrom
<1> QED
  BY <1>3, <1>4, <1>5, <1>6 DEF Hears

LEMMA SentAreFrames ==
  ASSUME TypeInv, NEW p \in Seats
  PROVE  SentBy(p) \subseteq Frames
<1>1. /\ up[p] \in Seq(Frames) /\ pending[p] \in Frames /\ retained[p] \in Seq(Frames)
      /\ down[Peer(p)] \in Seq(Frames)
  BY PeerIsOther DEF TypeInv, RelayInv, RelayShape
<1> QED
  BY <1>1, ElemsAreElements DEF SentBy

\* The two sides of one direction after a step.
LEMMA AnswerMoves ==
  ASSUME TypeInv, TypeInv', NEW p \in Seats, AnswerOf(p),
         Speaks(client[p], client'[p]),
         Hears(client[Peer(p)], client'[Peer(p)], SentBy(p)),
         gates'[p].epoch = gates[p].epoch \/ \E f \in SentBy(p) : gates'[p].epoch = f.epoch,
         \A f \in SentBy(p)' : f \in SentBy(p) \/ FromEpoch(client'[p], f),
         \A h \in Elems(outbox'[p]) : h \in Elems(outbox[p]) \/ h.kind \notin Protocol
  PROVE  AnswerOf(p)'
<1>0. PICK s \in Seats : s = Peer(p)
  BY PeerIsOther
<1> DEFINE c == client[p] n == client'[p] h == client[s] k == client'[s] S == SentBy(p)
<1>1. c \in Clients /\ n \in Clients /\ h \in Clients /\ k \in Clients
  BY DEF TypeInv, ClientShape
<1>2. Speaks(c, n) /\ HeardFrom(c, h) /\ \A f \in S : FromEpoch(c, f)
  BY <1>0 DEF AnswerOf
<1>3. Hears(h, k, S)
  BY <1>0
<1>4. \A f \in S : f.epoch \in Nat
  BY SentAreFrames DEF Frames
<1>5. \A f \in S : FromEpoch(n, f)
  <2> HIDE DEF c, n, S
  <2> QED
    BY <1>1, <1>2, <1>4, SpeakerKeeps
<1>6. HeardFrom(c, k)
  <2> HIDE DEF c, h, k, S
  <2> QED
    BY <1>1, <1>2, <1>3, ListenerHeard
<1>7. HeardFrom(n, k)
  <2> HIDE DEF c, n, k
  <2> QED
    BY <1>1, <1>2, <1>6, SpeakerHeard
<1>8. gates'[p].epoch <= n.epoch
  <2>1. gates[p].epoch \in Nat /\ c.epoch \in Nat /\ n.epoch \in Nat /\ gates'[p].epoch \in Nat
    BY <1>1 DEF TypeInv, RelayInv, RelayShape, GateSet, Clients
  <2>2. gates[p].epoch <= c.epoch /\ c.epoch <= n.epoch
    BY <1>2, <2>1 DEF AnswerOf, Speaks
  <2>3. CASE gates'[p].epoch = gates[p].epoch
    BY <2>1, <2>2, <2>3
  <2>4. CASE \E f \in SentBy(p) : gates'[p].epoch = f.epoch
    BY <1>5, <2>4 DEF FromEpoch
  <2> QED
    BY <2>3, <2>4
<1>9. Counts(n)
  BY <1>2 DEF Speaks
<1>10. \A f \in SentBy(p)' : FromEpoch(n, f)
  BY <1>5
<1>11. \A x \in Elems(outbox'[p]) : x.kind \notin Protocol
  BY DEF AnswerOf
<1>12. client[Peer(p)]' = k
  BY <1>0
<1>13. Elems(outbox[p])' = Elems(outbox'[p])
  BY DEF Elems
<1>14. HeardFrom(client[p], client[Peer(p)])' <=> HeardFrom(n, k)
  BY <1>12 DEF HeardFrom
<1>15. Counts(client[p])' <=> Counts(n)
  BY DEF Counts
<1>16. \A f : FromEpoch(client[p], f)' <=> FromEpoch(n, f)
  BY DEF FromEpoch
<1> QED
  BY <1>7, <1>8, <1>9, <1>10, <1>11, <1>13, <1>14, <1>15, <1>16 DEF AnswerOf

\* A client that stays as it was.
LEMMA SilentClient ==
  ASSUME AnswerInv, NEW p \in Seats
  PROVE  /\ Speaks(client[p], client[p]) 
         /\ \A S : Hears(client[p], client[p], S)
<1>1. AnswerOf(p) /\ AnswerOf(Peer(p)) /\ Peer(Peer(p)) = p
  BY PeerIsOther DEF AnswerInv
<1>2. Counts(client[p]) /\ HeardFrom(client[Peer(p)], client[p])
  BY <1>1 DEF AnswerOf
<1> QED
  BY <1>2 DEF Speaks, Hears, HeardFrom

\* A client that is dropped, or only counts what it sends.
LEMMA WeakerClient ==
  ASSUME AnswerInv, NEW p \in Seats, NEW n, n.epoch = client[p].epoch, n.gate.epoch = client[p].gate.epoch,
         n.returned = client[p].returned, n.answered = client[p].answered, n.proof = client[p].proof,
         (~n.up /\ ~n.proven) \/ (n.up = client[p].up /\ n.proven = client[p].proven)
  PROVE  /\ Speaks(client[p], n) 
         /\ \A S : Hears(client[p], n, S)
<1>1. AnswerOf(p) /\ AnswerOf(Peer(p)) /\ Peer(Peer(p)) = p
  BY PeerIsOther DEF AnswerInv
<1>2. Counts(client[p]) /\ HeardFrom(client[Peer(p)], client[p])
  BY <1>1 DEF AnswerOf
<1>3. Counts(n)
  BY <1>2 DEF Counts
<1>4. n.proven => n.returned
  BY <1>2 DEF HeardFrom
<1> QED
  BY <1>3, <1>4 DEF Speaks, Hears

\* Two sides make the invariant.
LEMMA AnswerBothSides ==
  ASSUME NEW s \in Seats, AnswerOf(s)', AnswerOf(Peer(s))'
  PROVE  AnswerInv'
<1>1. \A x \in Seats : x = s \/ x = Peer(s)
  BY DEF Seats, Peer
<1> QED
  BY <1>1 DEF AnswerInv

\* Nothing of the proof changes in the clients.
Silent(c, n) ==
  /\ n.epoch = c.epoch /\ n.gate.epoch = c.gate.epoch /\ n.returned = c.returned
  /\ n.answered = c.answered /\ n.proof = c.proof /\ n.up = c.up /\ n.proven = c.proven

\* What a seat sends after a step: what it sent before, or a frame of its present epoch.
Carries(p) == \A f \in SentBy(p)' : f \in SentBy(p) \/ FromEpoch(client'[p], f)

Queues(p) == \A h \in Elems(outbox'[p]) : h \in Elems(outbox[p]) \/ h.kind \notin Protocol

GateMoves(p) == gates'[p].epoch = gates[p].epoch \/ \E f \in SentBy(p) : gates'[p].epoch = f.epoch

LEMMA QuietAnswer ==
  ASSUME TypeInv, TypeInv', AnswerInv, 
         \A y \in Seats : Silent(client[y], client'[y]) /\ Carries(y) /\ Queues(y) /\ GateMoves(y)
  PROVE  AnswerInv'
<1> SUFFICES ASSUME NEW p \in Seats PROVE AnswerOf(p)'
  BY DEF AnswerInv
<1>1. Peer(p) \in Seats /\ AnswerOf(p)
  BY PeerIsOther DEF AnswerInv
<1>2. Speaks(client[p], client'[p])
  BY WeakerClient DEF Silent
<1>3. Hears(client[Peer(p)], client'[Peer(p)], SentBy(p))
  BY <1>1, WeakerClient DEF Silent
<1> QED
  BY <1>1, <1>2, <1>3, AnswerMoves DEF Carries, Queues, GateMoves

LEMMA SilentBoth ==
  client' = client => \A y \in Seats : Silent(client[y], client'[y])
BY DEF Silent

\* The parts of SentBy after a step.
LEMMA CarriesParts ==
  ASSUME NEW p \in Seats,
         \A f \in Elems(up'[p]) : f \in SentBy(p) \/ FromEpoch(client'[p], f),
         pending'[p] \in SentBy(p) \cup {NoFrame, pending[p]},
         \A f \in Elems(retained'[p]) : f \in SentBy(p),
         \A f \in Elems(down'[Peer(p)]) : f \in SentBy(p) \/ FromEpoch(client'[p], f)
  PROVE  Carries(p)
<1>1. SentBy(p)' = Elems(up'[p]) \cup ({pending'[p]} \ {NoFrame}) \cup Elems(retained'[p])
                     \cup Elems(down'[Peer(p)])
  BY DEF SentBy, Elems
<1>2. pending'[p] \in SentBy(p) \cup {NoFrame}
  BY DEF SentBy
<1> QED
  BY <1>1, <1>2 DEF Carries

LEMMA PartsAreSent ==
  ASSUME NEW p \in Seats
  PROVE  /\ Elems(up[p]) \subseteq SentBy(p) /\ Elems(retained[p]) \subseteq SentBy(p)
         /\ Elems(down[Peer(p)]) \subseteq SentBy(p)
         /\ pending[p] # NoFrame => pending[p] \in SentBy(p)
BY DEF SentBy

\* A side of which nothing moves but, perhaps, out of a queue.
LEMMA CarriesLess ==
  ASSUME NEW p \in Seats,
         up'[p] \in {up[p], <<>>}, pending'[p] \in {pending[p], NoFrame},
         retained'[p] \in {retained[p], <<>>}, down'[Peer(p)] \in {down[Peer(p)], <<>>}
  PROVE  Carries(p)
<1>1. /\ \A f \in Elems(up'[p]) : f \in Elems(up[p])
      /\ \A f \in Elems(retained'[p]) : f \in Elems(retained[p])
      /\ \A f \in Elems(down'[Peer(p)]) : f \in Elems(down[Peer(p)])
  BY ElemsOfEmpty
<1> QED
  BY <1>1, PartsAreSent, CarriesParts

\* The relay takes, keeps and passes on what a client sent.
LEMMA TakeAnswer ==
  ASSUME TypeInv, TypeInv', AnswerInv, NEW s \in Seats, Take(s), UNCHANGED <<clientVars, bridgeVars>>
  PROVE  AnswerInv'
<1>1. /\ UNCHANGED <<client, outbox, gates, retained, down>> /\ up[s] # <<>>
      /\ pending' = [pending EXCEPT ![s] = Head(up[s])] /\ up' = [up EXCEPT ![s] = Tail(up[s])]
  BY DEF Take, sessionVars, clientVars
<1>2. /\ up \in [Seats -> Seq(Frames)] /\ up[s] \in Seq(Frames) /\ pending \in [Seats -> Frames]
  BY DEF TypeInv, RelayInv, RelayShape
<1>3. Head(up[s]) \in Elems(up[s]) /\ Elems(Tail(up[s])) \subseteq Elems(up[s])
  BY <1>1, <1>2, ElemsOfTail
<1>4. Carries(s)
  <2>1. pending'[s] = Head(up[s]) /\ up'[s] = Tail(up[s])
    BY <1>1, <1>2
  <2> QED
    BY <1>1, <1>3, <2>1, PartsAreSent, CarriesParts
<1>5. \A y \in Seats : Carries(y)
  <2> SUFFICES ASSUME NEW y \in Seats, y # s PROVE Carries(y)
    BY <1>4
  <2>1. pending'[y] = pending[y] /\ up'[y] = up[y]
    BY <1>1, <1>2
  <2> QED
    BY <1>1, <2>1, CarriesLess
<1> QED
  BY <1>1, <1>5, SilentBoth, QuietAnswer DEF Queues, GateMoves

LEMMA ProcessAnswer ==
  ASSUME TypeInv, TypeInv', AnswerInv, NEW s \in Seats, Process(s), UNCHANGED <<clientVars, bridgeVars>>
  PROVE  AnswerInv'
<1> DEFINE x == pending[s] kept == IF x.kind \in Retainable THEN <<x>> ELSE <<>>
           before == RetainedBefore(s, x)
<1>0. PICK p \in Seats : p = Peer(s) /\ p # s /\ Peer(p) = s
  BY PeerIsOther
<1>1. /\ UNCHANGED <<client, outbox, up>> /\ x # NoFrame
      /\ pending' = [pending EXCEPT ![s] = NoFrame]
      /\ gates' = [gates EXCEPT ![s] = Accepted(gates[s], x)]
      /\ retained' = [retained EXCEPT ![s] = before \o kept]
      /\ down' = down \/ down' = [down EXCEPT ![p] = Append(down[p], x)]
  BY <1>0 DEF Process, clientVars
<1>2. /\ down \in [Seats -> Seq(Frames)] /\ down[p] \in Seq(Frames) /\ x \in Frames
      /\ pending \in [Seats -> Frames] /\ retained \in [Seats -> Seq(Frames)]
      /\ gates \in [Seats -> GateSet] /\ retained[s] \in Seq(Frames)
  BY DEF TypeInv, RelayInv, RelayShape
<1>3. x \in SentBy(s)
  BY <1>1, PartsAreSent
<1>4. GateMoves(s)
  <2>1. Accepted(gates[s], x).epoch = x.epoch
    BY <1>2, AcceptedIsGate
  <2>2. gates'[s].epoch = x.epoch
    BY <1>1, <1>2, <2>1
  <2> QED
    BY <1>3, <2>2 DEF GateMoves
<1>5. \A f \in Elems(retained'[s]) : f \in SentBy(s)
  <2>1. before \in Seq(Frames) /\ Elems(before) \subseteq Elems(retained[s])
    BY <1>2, ElemsOfEmpty, EmptySeq DEF RetainedBefore
  <2>2. kept \in Seq(Frames) /\ Elems(kept) \subseteq {x}
    <3>1. CASE x.kind \in Retainable
      BY <1>2, <3>1, SingleSeq, ElemsOfOne
    <3>2. CASE x.kind \notin Retainable
      BY <3>2, EmptySeq, ElemsOfEmpty
    <3> QED
      BY <3>1, <3>2
  <2> HIDE DEF before, kept, x
  <2>3. Elems(before \o kept) = Elems(before) \cup Elems(kept)
    BY <2>1, <2>2, ElemsOfConcat
  <2>4. retained'[s] = before \o kept
    BY <1>1, <1>2
  <2> QED
    BY <1>3, <2>1, <2>2, <2>3, <2>4, PartsAreSent
<1>6. \A f \in Elems(down'[p]) : f \in SentBy(s)
  <2>1. CASE down' = down
    BY <1>0, <2>1, PartsAreSent
  <2>2. CASE down' = [down EXCEPT ![p] = Append(down[p], x)]
    <3>1. down'[p] = Append(down[p], x)
      BY <1>2, <2>2
    <3> HIDE DEF x
    <3>2. Elems(Append(down[p], x)) = Elems(down[p]) \cup {x}
      BY <1>2, ElemsOfAppend
    <3> QED
      BY <1>0, <1>3, <3>1, <3>2, PartsAreSent
  <2> QED
    BY <1>1, <2>1, <2>2
<1>7. Carries(s)
  <2>1. pending'[s] = NoFrame
    BY <1>1, <1>2
  <2> QED
    BY <1>0, <1>1, <1>5, <1>6, <2>1, PartsAreSent, CarriesParts
<1>8. \A y \in Seats : y = s \/ y = p
  BY <1>0 DEF Seats
<1>9. Carries(p) /\ GateMoves(p)
  <2>1. pending'[p] = pending[p] /\ retained'[p] = retained[p] /\ down'[s] = down[s] /\ gates'[p] = gates[p]
    BY <1>0, <1>1, <1>2
  <2> QED
    BY <1>0, <1>1, <2>1, CarriesLess DEF GateMoves
<1> QED
  BY <1>1, <1>4, <1>7, <1>8, <1>9, SilentBoth, QuietAnswer DEF Queues

LEMMA HandlerEndsAnswer ==
  ASSUME TypeInv, TypeInv', AnswerInv, NEW s \in Seats, UNCHANGED <<clientVars, bridgeVars>>,
         Reject(s) \/ RevokedEnds(s) \/ Reset(s)
  PROVE  AnswerInv'
<1> DEFINE close == Frame(gates[s].epoch, gates[s].next, "PEER_CLOSE", 0)
<1>0. PICK p \in Seats : p = Peer(s) /\ p # s /\ Peer(p) = s
  BY PeerIsOther
<1>1. /\ UNCHANGED <<client, outbox>>
      /\ up' = [up EXCEPT ![s] = <<>>]
      /\ pending' = pending \/ pending' = [pending EXCEPT ![s] = NoFrame]
      /\ retained' = retained \/ retained' = Each(<<>>)
      /\ \/ UNCHANGED <<gates, down>>
         \/ /\ gates[s].epoch # 0 /\ gates' = [gates EXCEPT ![s] = Accepted(gates[s], close)]
            /\ down' = [down EXCEPT ![p] = Append(down[p], close)]
  <2>1. UNCHANGED <<client, outbox>>
    BY DEF clientVars
  <2>2. CASE Reject(s)
    BY <2>1, <2>2 DEF Reject, EndSession
  <2>3. CASE RevokedEnds(s)
    BY <2>1, <2>3 DEF RevokedEnds, sessionVars
  <2>4. CASE Reset(s)
    <3>1. \/ UNCHANGED <<gates, down>>
          \/ /\ gates[s].epoch # 0 /\ gates' = [gates EXCEPT ![s] = Accepted(gates[s], close)]
             /\ down' = [down EXCEPT ![p] = Append(down[p], close)]
      BY <1>0, <2>4 DEF Reset
    <3> QED
      BY <2>1, <2>4, <3>1 DEF Reset
  <2> QED
    BY <2>2, <2>3, <2>4
<1>2. /\ down \in [Seats -> Seq(Frames)] /\ down[p] \in Seq(Frames) /\ gates[s] \in GateSet
      /\ pending \in [Seats -> Frames] /\ up \in [Seats -> Seq(Frames)] /\ gates \in [Seats -> GateSet]
  BY DEF TypeInv, RelayInv, RelayShape
<1>3. close \in Frames /\ close.kind = "PEER_CLOSE" /\ close.epoch = gates[s].epoch
  BY <1>2, FrameIn DEF GateSet, FrameKinds, Bodies, Frame
<1> HIDE DEF close
<1>4. GateMoves(s) /\ GateMoves(p)
  <2>1. Accepted(gates[s], close).epoch = gates[s].epoch
    BY <1>2, <1>3, AcceptedIsGate
  <2>2. gates'[s].epoch = gates[s].epoch /\ gates'[p] = gates[p]
    BY <1>0, <1>1, <1>2, <2>1
  <2> QED
    BY <2>2 DEF GateMoves
<1>5. /\ up'[s] = <<>> /\ up'[p] = up[p] /\ pending'[s] \in {NoFrame, pending[s]}
      /\ pending'[p] = pending[p] /\ down'[s] = down[s]
  <2>1. up'[s] = <<>> /\ up'[p] = up[p]
    BY <1>0, <1>1, <1>2
  <2>2. pending'[s] \in {NoFrame, pending[s]} /\ pending'[p] = pending[p]
    BY <1>0, <1>1, <1>2
  <2>3. down'[s] = down[s]
    BY <1>0, <1>1, <1>2
  <2> QED
    BY <2>1, <2>2, <2>3
<1>6. \A y \in Seats : retained'[y] \in {retained[y], <<>>}
  BY <1>1 DEF Each
<1>7. \A f \in Elems(down'[p]) : f \in SentBy(s) \/ FromEpoch(client'[s], f)
  <2>1. CASE UNCHANGED <<gates, down>>
    BY <1>0, <2>1, PartsAreSent
  <2>2. CASE gates[s].epoch # 0 /\ down' = [down EXCEPT ![p] = Append(down[p], close)]
    <3>1. Elems(down'[p]) = Elems(down[p]) \cup {close}
      <4>1. down'[p] = Append(down[p], close)
        BY <1>2, <2>2
      <4> QED
        BY <1>2, <1>3, <4>1, ElemsOfAppend
    <3>2. gates[s].epoch <= client[s].epoch /\ gates[s].epoch \in Nat /\ client' = client
      BY <1>1, <1>2 DEF AnswerInv, AnswerOf, GateSet
    <3>3. FromEpoch(client'[s], close)
      BY <1>3, <2>2, <3>2 DEF FromEpoch
    <3> QED
      BY <1>0, <3>1, <3>3, PartsAreSent
  <2> QED
    BY <1>1, <2>1, <2>2
<1>8. Carries(s)
  <2>1. \A f \in Elems(up'[s]) : f \in SentBy(s)
    BY <1>5, ElemsOfEmpty
  <2>2. \A f \in Elems(retained'[s]) : f \in SentBy(s)
    BY <1>6, ElemsOfEmpty, PartsAreSent
  <2> QED
    BY <1>0, <1>5, <1>7, <2>1, <2>2, CarriesParts
<1>9. Carries(p)
  BY <1>0, <1>5, <1>6, CarriesLess
<1>10. \A y \in Seats : y = s \/ y = p
  BY <1>0 DEF Seats
<1> QED
  BY <1>1, <1>4, <1>8, <1>9, <1>10, SilentBoth, QuietAnswer DEF Queues

\* What one client does: it may say something new and hear what the other has sent.
LEMMA ClientAnswer ==
  ASSUME TypeInv, TypeInv', AnswerInv, NEW s \in Seats, NEW p \in Seats, p = Peer(s),
         client'[p] = client[p], Speaks(client[s], client'[s]),
         Hears(client[s], client'[s], SentBy(p)), gates' = gates,
         Carries(s), Carries(p), Queues(s), outbox'[p] = outbox[p]
  PROVE  AnswerInv'
<1>1. p # s /\ Peer(p) = s /\ AnswerOf(s) /\ AnswerOf(p)
  BY PeerIsOther DEF AnswerInv
<1>2. AnswerOf(s)'
  <2>1. Hears(client[Peer(s)], client'[Peer(s)], SentBy(s))
    BY SilentClient
  <2> QED
    BY <1>1, <2>1, AnswerMoves DEF Carries, Queues
<1>3. AnswerOf(p)'
  <2>1. Speaks(client[p], client'[p])
    BY SilentClient
  <2> QED
    BY <1>1, <2>1, AnswerMoves DEF Carries
<1> QED
  BY <1>2, <1>3, AnswerBothSides

LEMMA ConnectAnswer ==
  ASSUME TypeInv, TypeInv', AnswerInv, NEW s \in Seats, Connect(s)
  PROVE  AnswerInv'
<1> DEFINE first == Frame(client'[s].epoch, 0, "PEER_READY", 0) c == client[s] n == client'[s]
<1>0. PICK p \in Seats : p = Peer(s) /\ p # s /\ Peer(p) = s
  BY PeerIsOther
<1>1. /\ client' = [client EXCEPT ![s] = n] /\ Accept(s, first) /\ n \in Clients /\ c \in Clients
      /\ n.epoch = c.epoch + 1 /\ n.gate = NewGate /\ ~n.returned /\ ~n.proven /\ n.proof = c.proof
  BY ConnectEffect DEF TypeInv, ClientShape
<1>2. outbox' = [outbox EXCEPT ![s] = <<>>]
  BY DEF Connect
<1>3. /\ down' = [down EXCEPT ![s] = retained[p]] /\ up' = [up EXCEPT ![s] = <<first>>]
      /\ UNCHANGED <<pending, retained, gates>>
  BY <1>0, <1>1 DEF Accept
<1>4. first.epoch = n.epoch /\ first.kind = "PEER_READY"
  BY DEF Frame
<1> HIDE DEF first
<1>5. /\ outbox'[s] = <<>> /\ outbox'[p] = outbox[p] /\ client'[p] = client[p]
      /\ down'[s] = retained[p] /\ down'[p] = down[p] /\ up'[s] = <<first>> /\ up'[p] = up[p]
  BY <1>0, <1>1, <1>2, <1>3 DEF TypeInv, ClientShape, RelayInv, RelayShape
<1>6. c.epoch \in Nat /\ n.epoch \in Nat /\ c.proof <= c.epoch /\ c.proof \in Nat
  BY <1>1 DEF Clients, AnswerInv, AnswerOf, Counts
<1>7. Speaks(c, n)
  <2>1. n.epoch > c.epoch /\ n.epoch >= 1 /\ n.proof <= n.epoch /\ n.proof < n.epoch
    BY ONLY <1>1, <1>6
  <2> QED
    BY <2>1 DEF Speaks, Counts
<1>8. Hears(c, n, SentBy(p))
  BY <1>1 DEF Hears, NewGate
<1>9. Carries(s)
  <2>1. FromEpoch(n, first)
    BY <1>4, <1>6, <1>1 DEF FromEpoch
  <2>2. \A f \in Elems(up'[s]) : FromEpoch(n, f)
    BY <1>5, <2>1, ElemsOfOne
  <2> QED
    BY <1>0, <1>3, <1>5, <2>2, PartsAreSent, CarriesParts
<1>10. Carries(p)
  BY <1>0, <1>3, <1>5, PartsAreSent, CarriesParts
<1>11. Queues(s)
  BY <1>5, ElemsOfEmpty DEF Queues
<1> QED
  BY <1>0, <1>3, <1>5, <1>7, <1>8, <1>9, <1>10, <1>11, ClientAnswer

LEMMA SendPendingAnswer ==
  ASSUME TypeInv, TypeInv', AnswerInv, NEW s \in Seats, SendPending(s)
  PROVE  AnswerInv'
<1> DEFINE c == client[s] n == client'[s] h == Head(outbox[s])
           x == Frame(client[s].epoch, client[s].seq, h.kind, h.body)
<1>0. PICK p \in Seats : p = Peer(s) /\ p # s /\ Peer(p) = s
  BY PeerIsOther
<1>1. /\ UNCHANGED <<pending, down, retained, gates>> /\ c.up
      /\ outbox[s] # <<>> /\ outbox' = [outbox EXCEPT ![s] = Tail(outbox[s])]
  BY DEF SendPending, sessionVars
<1>2. /\ client' = [client EXCEPT ![s] = n] /\ SameConnection(c, n) /\ SameProof(c, n)
      /\ x \in Frames /\ up' = Sent(s, <<x>>)
  BY SendPendingEffect
<1>3. x.kind = h.kind /\ x.epoch = c.epoch
  BY DEF Frame
<1> HIDE DEF x
<1>4. /\ outbox[s] \in Seq(Notes) /\ outbox \in [Seats -> Seq(Notes)] /\ client \in [Seats -> Clients]
      /\ up[s] \in Seq(Frames) /\ up \in [Seats -> Seq(Frames)]
  BY DEF TypeInv, ClientShape, RelayInv, RelayShape
<1>5. h \in Elems(outbox[s]) /\ Elems(Tail(outbox[s])) \subseteq Elems(outbox[s])
  BY <1>1, <1>4, ElemsOfTail
<1>6. /\ outbox'[s] = Tail(outbox[s]) /\ outbox'[p] = outbox[p] /\ client'[p] = client[p]
  BY <1>0, <1>1, <1>2, <1>4
<1>7. PICK r \in Seq(Frames) : up' = [up EXCEPT ![s] = up[s] \o r] /\ (r = <<x>> \/ r = <<>>)
  <2>1. <<x>> \in Seq(Frames)
    BY <1>2, SingleSeq
  <2> QED
    BY <1>2, <2>1, SentFrames
<1>8. /\ AnswerOf(s) /\ h.kind # "PROBE_RESPONSE" /\ c.epoch >= 1 /\ c.epoch \in Nat
  BY <1>1, <1>4, <1>5 DEF AnswerInv, AnswerOf, Protocol, Counts, Clients
<1>9. FromEpoch(n, x)
  BY <1>2, <1>3, <1>8 DEF FromEpoch, SameConnection
<1>10. Carries(s)
  <2>1. up'[s] = up[s] \o r
    BY <1>4, <1>7
  <2>2. Elems(up'[s]) = Elems(up[s]) \cup Elems(r)
    BY <1>4, <2>1, ElemsOfConcat
  <2>3. \A f \in Elems(r) : f = x
    BY <1>7, ElemsOfOne, ElemsOfEmpty
  <2>4. \A f \in Elems(up'[s]) : f \in SentBy(s) \/ FromEpoch(client'[s], f)
    BY <1>9, <2>2, <2>3, PartsAreSent
  <2> QED
    BY <1>0, <1>1, <2>4, PartsAreSent, CarriesParts
<1>11. Carries(p)
  <2>1. up'[p] = up[p]
    BY <1>0, <1>4, <1>7
  <2> QED
    BY <1>0, <1>1, <2>1, CarriesLess
<1>12. Speaks(c, n) /\ Hears(c, n, SentBy(p))
  BY <1>2, WeakerClient DEF SameConnection, SameProof
<1>13. Queues(s)
  BY <1>5, <1>6 DEF Queues
<1> QED
  BY <1>0, <1>1, <1>6, <1>10, <1>11, <1>12, <1>13, ClientAnswer

LEMMA DroppedAnswer ==
  ASSUME TypeInv, TypeInv', AnswerInv, NEW s \in Seats, Dropped(s),
         UNCHANGED <<sessionVars, handlers, pending, outbox, bridgeVars>>
  PROVE  AnswerInv'
<1>0. PICK p \in Seats : p = Peer(s) /\ p # s /\ Peer(p) = s
  BY PeerIsOther
<1>1. /\ UNCHANGED <<up, pending, outbox, retained, gates>> /\ down' = [down EXCEPT ![s] = <<>>]
  BY DEF Dropped, sessionVars
<1>2. /\ client' = [client EXCEPT ![s] = client'[s]]
      /\ Speaks(client[s], client'[s]) /\ Hears(client[s], client'[s], SentBy(p))
  BY DroppedEffect, WeakerClient
<1>3. client'[p] = client[p] /\ down'[s] = <<>> /\ down'[p] = down[p]
  BY <1>0, <1>1, <1>2 DEF TypeInv, ClientShape, RelayInv, RelayShape
<1>4. Carries(s) /\ Carries(p) /\ Queues(s)
  BY <1>0, <1>1, <1>3, CarriesLess DEF Queues
<1> QED
  BY <1>0, <1>1, <1>2, <1>3, <1>4, ClientAnswer

\* What an accepted frame does to the proof.
LEMMA ReadFrameProves ==
  ASSUME TypeInv, AnswerInv, NEW s \in Seats, client[s].up, Head(down[s]) \in Frames,
         Head(down[s]) \in SentBy(Peer(s)), ReadFrame(s)
  PROVE  Speaks(client[s], client'[s]) /\ Hears(client[s], client'[s], SentBy(Peer(s)))
<1> DEFINE f == Head(down[s]) c == client[s] n == client'[s] S == SentBy(Peer(s))
<1>1. AnswerOf(s) /\ AnswerOf(Peer(s)) /\ Peer(Peer(s)) = s
  BY PeerIsOther DEF AnswerInv
<1>2. /\ c \in Clients /\ c.epoch \in Nat /\ c.proof \in Nat /\ c.gate.epoch \in Nat
      /\ c.epoch >= 1 /\ c.proof <= c.epoch /\ (~c.proven => c.proof < c.epoch)
      /\ c.proven => c.returned
      /\ c.returned => c.gate.epoch # 0
  BY <1>1 DEF AnswerOf, Counts, HeardFrom, TypeInv, ClientShape, Clients, GateSet
<1>3. n.gate.epoch = f.epoch /\ n.up = c.up /\ f \in S
  BY ReadFrameEffect
<1>4. n \in Clients
  BY ReadFrameEffect
<1>5. ASSUME n.epoch = c.epoch, c.answered => n.answered, n.proven <=> c.proven \/ n.proven,
             n.proof = IF n.proven /\ ~c.proven THEN c.proof + 1 ELSE c.proof
      PROVE  Speaks(c, n)
  <2>1. n.proof <= n.epoch /\ (~n.proven => n.proof < n.epoch)
    BY <1>2, <1>5
  <2> QED
    BY <1>2, <1>3, <1>5, <2>1 DEF Speaks, Counts
<1>6. CASE f.kind = "PEER_READY" /\ OnPeerReady(s, f)
  <2>1. CASE Again(s, f)
    <3>1. /\ n.epoch = c.epoch + 1 /\ ~n.returned /\ ~n.answered /\ ~n.proven /\ n.proof = c.proof
      BY <1>6, <2>1, PeerReadyEffect
    <3>2. n.epoch > c.epoch /\ n.epoch >= 1 /\ n.proof <= n.epoch /\ n.proof < n.epoch
      BY ONLY <1>2, <3>1
    <3>3. Speaks(c, n)
      BY <3>2 DEF Speaks, Counts
    <3>4. Hears(c, n, S)
      BY <1>3, <3>1 DEF Hears
    <3> QED
      BY <3>3, <3>4
  <2>2. CASE ~Again(s, f)
    <3>1. /\ n.epoch = c.epoch /\ n.returned = c.returned /\ n.answered = c.answered
          /\ n.proven <=> c.proven \/ (c.returned /\ c.answered)
          /\ n.proof = IF n.proven /\ ~c.proven THEN c.proof + 1 ELSE c.proof
      BY <1>6, <2>2, PeerReadyEffect
    <3>2. Speaks(c, n)
      BY <1>5, <3>1
    <3>3. n.proven => n.returned
      BY <1>2, <3>1
    <3>4. c.gate.epoch = n.gate.epoch \/ ~n.returned
      BY <1>2, <1>3, <2>2, <3>1 DEF Again
    <3>5. Hears(c, n, S)
      BY <1>3, <3>1, <3>3, <3>4 DEF Hears
    <3> QED
      BY <3>2, <3>5
  <2> QED
    BY <2>1, <2>2
<1>7. CASE f.kind = "PROBE_CHALLENGE" /\ OnChallenge(s, f)
  <2>1. /\ SameConnection(c, n) /\ n.returned = c.returned /\ n.answered
        /\ n.proven <=> c.proven \/ c.returned
        /\ n.proof = IF n.proven /\ ~c.proven THEN c.proof + 1 ELSE c.proof
    BY <1>7, ChallengeEffect
  <2>2. Speaks(c, n)
    BY <1>5, <2>1 DEF SameConnection
  <2>3. (n.proven => n.returned) /\ n.gate.epoch = c.gate.epoch
    BY <1>2, <1>3, <1>7, <2>1 DEF ReadFrame
  <2> QED
    BY <2>1, <2>2, <2>3 DEF Hears
<1>8. CASE f.kind = "PROBE_RESPONSE" /\ OwnResponse(s, f)
  <2>1. /\ SameConnection(c, n) /\ n.returned /\ n.answered = c.answered
        /\ n.proven <=> c.proven \/ c.answered
        /\ n.proof = IF n.proven /\ ~c.proven THEN c.proof + 1 ELSE c.proof
    BY <1>8, ResponseEffect
  <2>2. Speaks(c, n)
    BY <1>5, <2>1 DEF SameConnection
  <2> QED
    BY <1>3, <1>8, <2>1, <2>2 DEF Hears
<1>9. CASE Delivered(s, f)
  <2>1. /\ SameConnection(c, n) /\ n.returned = c.returned /\ n.answered = c.answered
        /\ n.proven = c.proven /\ n.proof = c.proof
    BY <1>9, DeliveredEffect
  <2>2. n.gate.epoch = c.gate.epoch
    BY <1>3, <1>9 DEF ReadFrame, Delivered
  <2> QED
    BY <1>3, <2>1, <2>2, WeakerClient DEF SameConnection
<1> QED
  BY <1>6, <1>7, <1>8, <1>9 DEF ReadFrame

LEMMA ReadFrameAnswer ==
  ASSUME TypeInv, TypeInv', AnswerInv, NEW s \in Seats, client[s].up, down[s] # <<>>, ReadFrame(s),
         Head(down[s]) \in Frames, UNCHANGED <<sessionVars, handlers, pending, outbox, bridgeVars>>
  PROVE  AnswerInv'
<1>0. PICK p \in Seats : p = Peer(s) /\ p # s /\ Peer(p) = s
  BY PeerIsOther
<1>1. UNCHANGED <<pending, outbox, retained, gates>> /\ down' = [down EXCEPT ![s] = Tail(down[s])]
  BY DEF ReadFrame, sessionVars
<1>2. /\ down[s] \in Seq(Frames) /\ down \in [Seats -> Seq(Frames)]
      /\ up[s] \in Seq(Frames) /\ up \in [Seats -> Seq(Frames)] /\ client \in [Seats -> Clients]
  BY DEF TypeInv, RelayInv, RelayShape, ClientShape
<1>3. Head(down[s]) \in Elems(down[s]) /\ Elems(Tail(down[s])) \subseteq Elems(down[s])
  BY <1>2, ElemsOfTail
<1>4. Head(down[s]) \in SentBy(Peer(s)) /\ \A f \in Elems(Tail(down[s])) : f \in SentBy(p)
  BY <1>0, <1>3, PartsAreSent
<1>5. Speaks(client[s], client'[s]) /\ Hears(client[s], client'[s], SentBy(p))
  BY <1>0, <1>4, ReadFrameProves
<1>6. client' = [client EXCEPT ![s] = client'[s]] /\ client'[s] \in Clients
  BY ReadFrameEffect
<1>7. PICK q \in Seq(Frames) : /\ up' = [up EXCEPT ![s] = up[s] \o q]
                               /\ \A g \in Elems(q) : Answers(client'[s], Head(down[s]), g)
  BY ReadFrameEffect
<1>8. client'[p] = client[p] /\ down'[s] = Tail(down[s]) /\ down'[p] = down[p]
      /\ up'[s] = up[s] \o q /\ up'[p] = up[p]
  <2>1. client'[p] = client[p]
    BY <1>0, <1>2, <1>6
  <2>2. down'[s] = Tail(down[s]) /\ down'[p] = down[p]
    BY <1>0, <1>1, <1>2
  <2>3. up'[s] = up[s] \o q /\ up'[p] = up[p]
    BY <1>0, <1>2, <1>7
  <2> QED
    BY <2>1, <2>2, <2>3
<1>9. \A g \in Elems(q) : FromEpoch(client'[s], g)
  <2>1. client[s].epoch >= 1 /\ client[s].epoch \in Nat /\ client'[s].epoch \in Nat
    BY <1>2, <1>6 DEF AnswerInv, AnswerOf, Counts, Clients
  <2>2. client'[s].epoch >= client[s].epoch
    BY <1>5, <2>1 DEF Speaks
  <2>3. 1 <= client'[s].epoch /\ client'[s].epoch <= client'[s].epoch
    BY ONLY <2>1, <2>2
  <2> QED
    BY <1>7, <2>3 DEF FromEpoch, Answers
<1>10. Carries(s)
  <2>1. Elems(up'[s]) = Elems(up[s]) \cup Elems(q)
    BY <1>2, <1>8, ElemsOfConcat
  <2>2. \A f \in Elems(up'[s]) : f \in SentBy(s) \/ FromEpoch(client'[s], f)
    BY <1>9, <2>1, PartsAreSent
  <2> QED
    BY <1>0, <1>1, <1>8, <2>2, PartsAreSent, CarriesParts
<1>11. Carries(p)
  BY <1>0, <1>1, <1>4, <1>8, PartsAreSent, CarriesParts
<1>12. Queues(s)
  BY <1>1 DEF Queues
<1> QED
  BY <1>0, <1>1, <1>5, <1>8, <1>10, <1>11, <1>12, ClientAnswer

\* The bridge only queues frames of its own.
LEMMA QuietWires ==
  ASSUME TypeInv, TypeInv', AnswerInv, UNCHANGED <<up, pending, down, gates>>,
         \A y \in Seats : /\ Silent(client[y], client'[y]) /\ Queues(y)
                          /\ retained'[y] \in {retained[y], <<>>}
  PROVE  AnswerInv'
<1>1. \A y \in Seats : Carries(y)
  BY CarriesLess
<1> QED
  BY <1>1, QuietAnswer DEF GateMoves

LEMMA PostedQueues ==
  ASSUME TypeInv, NEW s \in Seats, NEW x \in Notes, x.kind \notin Protocol,
         outbox' = [outbox EXCEPT ![s] = Append(outbox[s], x)]
  PROVE  \A y \in Seats : Queues(y)
<1>1. outbox \in [Seats -> Seq(Notes)] /\ outbox[s] \in Seq(Notes)
  BY DEF TypeInv, ClientShape
<1>2. outbox'[s] = Append(outbox[s], x) /\ \A y \in Seats : y # s => outbox'[y] = outbox[y]
  BY <1>1
<1>3. Elems(outbox'[s]) = Elems(outbox[s]) \cup {x}
  BY <1>1, <1>2, ElemsOfAppend
<1> QED
  BY <1>2, <1>3 DEF Queues

LEMMA SideReadyAnswer ==
  ASSUME TypeInv, TypeInv', AnswerInv, NEW s \in Seats, SendSideReady(s)
  PROVE  AnswerInv'
<1> DEFINE x == Pending("SIDE_READY", bridge[s].proof)
<1>1. UNCHANGED <<up, pending, down, gates, retained>>
  BY DEF SendSideReady, relayVars, sessionVars
<1>2. CASE UNCHANGED <<client, outbox>> /\ Fail(s, "C_SIDE_READY_SEND_FAILED")
  BY <1>1, <1>2, SilentBoth, QuietWires DEF Queues
<1>3. CASE /\ client' = [client EXCEPT ![s] = client'[s]] /\ x \in Notes
           /\ SameProof(client[s], client'[s])
           /\ client'[s].up = client[s].up /\ client'[s].epoch = client[s].epoch
           /\ outbox' = [outbox EXCEPT ![s] = Append(@, x)]
  <2>1. \A y \in Seats : Silent(client[y], client'[y])
    BY <1>3 DEF Silent, SameProof, TypeInv, ClientShape
  <2>2. x.kind = "SIDE_READY"
    BY DEF Pending
  <2> HIDE DEF x
  <2>3. \A y \in Seats : Queues(y)
    BY <1>3, <2>2, PostedQueues DEF Protocol
  <2> QED
    BY <1>1, <2>1, <2>3, QuietWires
<1> QED
  BY <1>2, <1>3, SendSideReadyEffect

LEMMA PublishAnswer ==
  ASSUME TypeInv, TypeInv', AnswerInv, Publish
  PROVE  AnswerInv'
<1> DEFINE x == Pending("ADVERTISEMENT", 1)
<1>1. UNCHANGED <<up, pending, down, gates, retained, client>> /\ "A" \in Seats
  BY DEF Publish, relayVars, sessionVars, Seats
<1>2. outbox' = outbox \/ outbox' = [outbox EXCEPT !["A"] = Append(outbox["A"], x)]
  BY DEF Publish
<1>3. x \in Notes /\ x.kind = "ADVERTISEMENT"
  BY DEF Pending, Notes, FrameKinds
<1> HIDE DEF x
<1>4. \A y \in Seats : Queues(y)
  BY <1>1, <1>2, <1>3, PostedQueues DEF Queues, Protocol
<1> QED
  BY <1>1, <1>4, SilentBoth, QuietWires

LEMMA FlushAnswer ==
  ASSUME TypeInv, TypeInv', AnswerInv, NEW s \in Seats, Flush(s)
  PROVE  AnswerInv'
<1> DEFINE x == Pending("RFU", Head(unsent[s]))
<1>1. UNCHANGED <<up, pending, down, gates, retained, client>>
  BY DEF Flush, relayVars, sessionVars
<1>2. outbox' = outbox \/ (unsent[s] # <<>> /\ outbox' = [outbox EXCEPT ![s] = Append(outbox[s], x)])
  BY DEF Flush
<1>3. unsent[s] # <<>> => x \in Notes
  <2>1. unsent[s] \in Seq(Nat)
    BY DEF TypeInv, BridgeShape
  <2>2. unsent[s] # <<>> => Head(unsent[s]) \in Nat
    BY <2>1
  <2> QED
    BY <2>2 DEF Pending, Notes, FrameKinds
<1>4. x.kind = "RFU"
  BY DEF Pending
<1> HIDE DEF x
<1>5. \A y \in Seats : Queues(y)
  BY <1>2, <1>3, <1>4, PostedQueues DEF Queues, Protocol
<1> QED
  BY <1>1, <1>5, SilentBoth, QuietWires

LEMMA OtherAnswer ==
  ASSUME TypeInv, TypeInv', AnswerInv, NEW s \in Seats,
         \/ Refused(s) \/ ConnectStage(s) \/ AwaitAdvertisement \/ SyncProof(s) \/ Poll(s) \/ Drain(s)
         \/ SendRfu(s) \/ ReplayLost(s) \/ Expires(s) \/ UNCHANGED tunnelVars
  PROVE  AnswerInv'
<1>1. CASE Refused(s)
  <2>1. \A y \in Seats : Silent(client[y], client'[y])
    <3> DEFINE n == [client[s] EXCEPT !.error = "C_AUTHENTICATION_FAILED"]
    <3>1. /\ client' = [client EXCEPT ![s] = n] /\ client \in [Seats -> Clients] /\ client[s] \in Clients
      BY <1>1 DEF Refused, TypeInv, ClientShape
    <3>2. Silent(client[s], n)
      BY <3>1 DEF Silent, Clients
    <3>3. \A y \in Seats : Silent(client[y], client[y])
      BY <3>1 DEF Silent
    <3> HIDE DEF n
    <3> QED
      BY <3>1, <3>2, <3>3
  <2> QED
    BY <1>1, <2>1, QuietWires DEF Refused, relayVars, sessionVars, Queues
<1>2. CASE ConnectStage(s)
  BY <1>2, SilentBoth, QuietWires DEF ConnectStage, relayVars, sessionVars, clientVars, Queues
<1>3. CASE AwaitAdvertisement
  BY <1>3, SilentBoth, QuietWires DEF AwaitAdvertisement, relayVars, sessionVars, Queues
<1>4. CASE SyncProof(s)
  BY <1>4, SilentBoth, QuietWires DEF SyncProof, relayVars, sessionVars, clientVars, Queues
<1>5. CASE Poll(s)
  BY <1>5, SilentBoth, QuietWires DEF Poll, relayVars, sessionVars, Queues
<1>6. CASE Drain(s)
  BY <1>6, SilentBoth, QuietWires DEF Drain, relayVars, sessionVars, clientVars, Queues
<1>7. CASE SendRfu(s)
  BY <1>7, SilentBoth, QuietWires DEF SendRfu, relayVars, sessionVars, clientVars, Queues
<1>8. CASE ReplayLost(s)
  BY <1>8, SilentBoth, QuietWires DEF ReplayLost, ReplayFails, clientVars, Queues
<1>9. CASE Expires(s)
  <2>1. /\ UNCHANGED <<client, outbox, up, pending, down, gates>> /\ retained' = Each(<<>>)
    BY <1>9 DEF Expires, ExpirePeer, clientVars
  <2>2. \A y \in Seats : retained'[y] = <<>>
    BY <2>1 DEF Each
  <2> QED
    BY <2>1, <2>2, SilentBoth, QuietWires DEF Queues
<1>10. CASE UNCHANGED tunnelVars
  BY <1>10, SilentBoth, QuietWires DEF tunnelVars, relayVars, sessionVars, clientVars, Queues
<1> QED
  BY <1>1, <1>2, <1>3, <1>4, <1>5, <1>6, <1>7, <1>8, <1>9, <1>10

LEMMA AnswerStart == SessionInit => AnswerInv
<1> SUFFICES ASSUME SessionInit, NEW p \in Seats PROVE AnswerOf(p)
  BY DEF AnswerInv
<1>1. Peer(p) \in Seats
  BY PeerIsOther
<1>2. /\ up[p] = <<>> /\ pending[p] = NoFrame /\ retained[p] = <<>> /\ down[Peer(p)] = <<>>
      /\ outbox[p] = <<>>
  BY <1>1 DEF SessionInit, RelayInit, Each
<1>3. gates[p] = NewGate /\ client[p] = NewClient /\ client[Peer(p)] = NewClient
  BY <1>1 DEF SessionInit, RelayInit, Each
<1>4. SentBy(p) = {}
  BY <1>2, ElemsOfEmpty DEF SentBy
<1>5. Counts(NewClient) /\ HeardFrom(NewClient, NewClient)
  BY DEF Counts, HeardFrom, NewClient, NewGate
<1>6. gates[p].epoch <= client[p].epoch
  <2>1. NewGate.epoch = 0
    BY DEF NewGate
  <2>2. NewClient.epoch = 0
    BY DEF NewClient
  <2> QED
    BY <1>3, <2>1, <2>2
<1>7. \A h \in Elems(outbox[p]) : FALSE
  BY <1>2, ElemsOfEmpty
<1> QED
  BY <1>3, <1>4, <1>5, <1>6, <1>7 DEF AnswerOf

LEMMA AnswerSteps == TypeInv /\ TypeInv' /\ AnswerInv /\ [SessionNext]_tunnelVars => AnswerInv'
<1> SUFFICES ASSUME TypeInv, TypeInv', AnswerInv, [SessionNext]_tunnelVars PROVE AnswerInv'
  OBVIOUS
<1>1. ASSUME NEW s \in Seats, Receive(s) \/ ClientLost(s) PROVE AnswerInv'
  <2>1. /\ UNCHANGED <<sessionVars, handlers, pending, outbox, bridgeVars>>
        /\ \/ Dropped(s)
           \/ ReadFrame(s) /\ client[s].up /\ down[s] # <<>> /\ Head(down[s]) \in Frames
    BY <1>1, ReceiveCases, ClientLostIsDrop
  <2> QED
    BY <2>1, DroppedAnswer, ReadFrameAnswer
<1>2. ASSUME NEW s \in Seats, TunnelThread(s) PROVE AnswerInv'
  BY <1>1, <1>2, ConnectAnswer, OtherAnswer, SendPendingAnswer DEF TunnelThread
<1>3. ASSUME NEW s \in Seats, MainThread(s) PROVE AnswerInv'
  BY <1>3, OtherAnswer, PublishAnswer, SideReadyAnswer, FlushAnswer DEF MainThread, Pump
<1>4. ASSUME NEW s \in Seats, RelayServes(s) \/ HandlerLost(s) PROVE AnswerInv'
  <2>1. UNCHANGED <<clientVars, bridgeVars>>
    BY <1>4 DEF RelayServes, HandlerLost
  <2>2. Take(s) \/ Process(s) \/ Reject(s) \/ RevokedEnds(s) \/ Reset(s)
    BY <1>4 DEF RelayServes, RelayStep, HandlerLost
  <2> QED
    BY <2>1, <2>2, TakeAnswer, ProcessAnswer, HandlerEndsAnswer
<1>5. ASSUME NEW s \in Seats, SendRfu(s) \/ ReplayLost(s) \/ Expires(s) PROVE AnswerInv'
  BY <1>5, OtherAnswer
<1>6. CASE UNCHANGED tunnelVars
  <2>1. "A" \in Seats
    BY DEF Seats
  <2> QED
    BY <1>6, <2>1, OtherAnswer
<1> QED
  BY <1>1, <1>2, <1>3, <1>4, <1>5, <1>6 DEF SessionNext

\* The data plane is proven in both directions: while a client counts it as proven, its peer
\* has answered it in the epoch the client knows, across every reset and restarted proof
\* (_session: returned and answered together make proven).
THEOREM ProofMutual == SessionSpec => []ProofIsMutual
<1> DEFINE IInv == TypeInv /\ AnswerInv
<1>1. SessionInit => IInv
  BY TypesStart, AnswerStart
<1>2. IInv /\ [SessionNext]_tunnelVars => IInv'
  BY TypeSteps, AnswerSteps
<1>3. IInv => ProofIsMutual
  <2> SUFFICES ASSUME AnswerInv, NEW s \in Seats, client[s].proven,
                      client[Peer(s)].epoch = client[s].gate.epoch
               PROVE  client[Peer(s)].answered
    BY DEF ProofIsMutual
  <2>1. AnswerOf(Peer(s)) /\ Peer(Peer(s)) = s
    BY PeerIsOther DEF AnswerInv
  <2> QED
    BY <2>1 DEF AnswerOf, HeardFrom
<1> QED
  BY <1>1, <1>2, <1>3, PTL DEF SessionSpec

-----------------------------------------------------------------------------
(***************************************************************************)
(* C_BRIDGE_READY is current, in the two bridges of an attempt.             *)
(*                                                                         *)
(* The argument has three parts.  RowInv: the frames on their way from p to *)
(* s are of ascending epochs, none behind what s has heard of.  TalkInv:    *)
(* while both clients are registered and one was answered in its present    *)
(* epoch, the two are in step, so readiness is only sent and read in the    *)
(* epochs of now.  BridgeInv: what a bridge holds of the peer is of the     *)
(* proof the bridge counts.                                                 *)
(***************************************************************************)
-----------------------------------------------------------------------------
(* Epochs on the way: a queue is sorted by them, and a frame is never of an *)
(* older epoch than those before it, up to the gates.                       *)
Ascending(q) == \A i, j \in 1..Len(q) : i < j => q[i].epoch <= q[j].epoch

LEMMA AscendingEmpty == Ascending(<<>>)
BY DEF Ascending

LEMMA AscendingSingle == \A x : Ascending(<<x>>)
<1> TAKE x
<1>1. \A i, j \in 1..Len(<<x>>) : ~(i < j)
  OBVIOUS
<1> QED
  BY <1>1 DEF Ascending

LEMMA AscendingAppend ==
  ASSUME NEW q \in Seq(Frames), NEW x \in Frames, Ascending(q), \A f \in Elems(q) : f.epoch <= x.epoch
  PROVE  Ascending(Append(q, x))
<1>1. Len(Append(q, x)) = Len(q) + 1 /\ Len(q) \in Nat
  OBVIOUS
<1>2. \A i \in 1..Len(q) : Append(q, x)[i] = q[i] /\ q[i] \in Elems(q)
  BY DEF Elems
<1>3. Append(q, x)[Len(q) + 1] = x
  OBVIOUS
<1> SUFFICES ASSUME NEW i \in 1..(Len(q) + 1), NEW j \in 1..(Len(q) + 1), i < j
             PROVE  Append(q, x)[i].epoch <= Append(q, x)[j].epoch
  BY <1>1 DEF Ascending
<1>4. i \in 1..Len(q)
  BY <1>1
<1>5. CASE j \in 1..Len(q)
  BY <1>2, <1>4, <1>5 DEF Ascending
<1>6. CASE j = Len(q) + 1
  BY <1>2, <1>3, <1>4, <1>6
<1> QED
  BY <1>1, <1>5, <1>6

LEMMA AscendingTail ==
  ASSUME NEW q \in Seq(Frames), q # <<>>, Ascending(q)
  PROVE  Ascending(Tail(q)) /\ \A f \in Elems(Tail(q)) : Head(q).epoch <= f.epoch
<1>1. Len(q) \in Nat /\ Len(q) >= 1 /\ Len(Tail(q)) = Len(q) - 1 /\ Head(q) = q[1]
  OBVIOUS
<1>2. \A i \in 1..Len(Tail(q)) : i + 1 \in 1..Len(q) /\ Tail(q)[i] = q[i + 1] /\ 1 < i + 1
  BY <1>1
<1>3. 1 \in 1..Len(q)
  BY <1>1
<1>4. \A f \in Elems(Tail(q)) : Head(q).epoch <= f.epoch
  BY <1>1, <1>2, <1>3 DEF Elems, Ascending
<1>5. Ascending(Tail(q))
  <2> SUFFICES ASSUME NEW i \in 1..Len(Tail(q)), NEW j \in 1..Len(Tail(q)), i < j
               PROVE  Tail(q)[i].epoch <= Tail(q)[j].epoch
    BY DEF Ascending
  <2>1. i + 1 < j + 1
    BY <1>1
  <2> QED
    BY <1>2, <2>1 DEF Ascending
<1> QED
  BY <1>4, <1>5

\* Frames of one epoch behind frames of no later one.
LEMMA AscendingConcat ==
  ASSUME NEW q \in Seq(Frames), NEW r \in Seq(Frames), NEW e \in Nat, Ascending(q),
         \A f \in Elems(q) : f.epoch <= e, \A f \in Elems(r) : f.epoch = e
  PROVE  Ascending(q \o r)
<1>1. Len(q \o r) = Len(q) + Len(r) /\ Len(q) \in Nat /\ Len(r) \in Nat
  OBVIOUS
<1>2. \A i \in 1..Len(q) : (q \o r)[i] = q[i] /\ q[i] \in Elems(q)
  BY <1>1 DEF Elems
<1>3. \A i \in 1..Len(q \o r) : i \notin 1..Len(q) => (q \o r)[i].epoch = e
  <2> SUFFICES ASSUME NEW i \in 1..Len(q \o r), i \notin 1..Len(q)
               PROVE  (q \o r)[i].epoch = e
    OBVIOUS
  <2>1. i - Len(q) \in 1..Len(r) /\ (q \o r)[i] = r[i - Len(q)]
    BY <1>1
  <2> QED
    BY <2>1 DEF Elems
<1> SUFFICES ASSUME NEW i \in 1..Len(q \o r), NEW j \in 1..Len(q \o r), i < j
             PROVE  (q \o r)[i].epoch <= (q \o r)[j].epoch
  BY DEF Ascending
<1>4. CASE i \in 1..Len(q) /\ j \in 1..Len(q)
  BY <1>2, <1>4 DEF Ascending
<1>5. CASE j \notin 1..Len(q)
  <2>1. (q \o r)[j].epoch = e
    BY <1>3, <1>5
  <2>2. (q \o r)[i].epoch <= e
    BY <1>2, <1>3
  <2> QED
    BY <2>1, <2>2
<1>6. CASE i \notin 1..Len(q) /\ j \in 1..Len(q)
  BY <1>1, <1>6
<1> QED
  BY <1>4, <1>5, <1>6

LEMMA AscendingSame ==
  ASSUME NEW q \in Seq(Frames), NEW e \in Nat, \A f \in Elems(q) : f.epoch = e
  PROVE  Ascending(q)
<1>1. \A i \in 1..Len(q) : q[i].epoch = e
  BY DEF Elems
<1> QED
  BY <1>1 DEF Ascending

\* One direction: the relay's gate is in epoch g, u, x and d are the sender's queue, the
\* frame its handler holds and the receiver's queue, k what is retained; the receiver's gate
\* is in epoch h, and it still reads if it is on.
Row(g, u, x, d, k, h, on) ==
  /\ Ascending(u) /\ Ascending(d)
  /\ \A f \in Elems(u) : g <= f.epoch /\ (x # NoFrame => x.epoch <= f.epoch)
  /\ x # NoFrame => g <= x.epoch
  /\ \A f \in Elems(d) : f.epoch <= g /\ (on => h <= f.epoch)
  /\ \A f \in Elems(k) : f.epoch = g /\ f.kind \in Retainable
  /\ h <= g

LEMMA RowShrinks ==
  ASSUME NEW g, NEW u, NEW x, NEW d, NEW k, NEW h, NEW on, Row(g, u, x, d, k, h, on),
         NEW v \in {u, <<>>}, NEW y \in {x, NoFrame}, NEW e \in {d, <<>>}, NEW l \in {k, <<>>},
         NEW off, off => on
  PROVE  Row(g, v, y, e, l, h, off)
BY AscendingEmpty, ElemsOfEmpty DEF Row

LEMMA RowSends ==
  ASSUME NEW g \in Nat, NEW u \in Seq(Frames), NEW x \in Frames, NEW d, NEW k, NEW h, NEW on,
         Row(g, u, x, d, k, h, on),
         NEW r \in Seq(Frames), NEW e \in Nat, \A f \in Elems(r) : f.epoch = e,
         \A f \in Elems(u) : f.epoch <= e, g <= e, x # NoFrame => x.epoch <= e
  PROVE  Row(g, u \o r, x, d, k, h, on)
<1>1. Ascending(u \o r)
  BY AscendingConcat DEF Row
<1>2. Elems(u \o r) = Elems(u) \cup Elems(r)
  BY ElemsOfConcat
<1> QED
  BY <1>1, <1>2 DEF Row

LEMMA RowTakes ==
  ASSUME NEW g \in Nat, NEW u \in Seq(Frames), NEW d, NEW k, NEW h, NEW on, u # <<>>,
         Row(g, u, NoFrame, d, k, h, on)
  PROVE  Row(g, Tail(u), Head(u), d, k, h, on)
<1>1. Ascending(Tail(u)) /\ \A f \in Elems(Tail(u)) : Head(u).epoch <= f.epoch
  BY AscendingTail DEF Row
<1>2. Head(u) \in Elems(u) /\ Elems(Tail(u)) \subseteq Elems(u)
  BY ElemsOfTail
<1> QED
  BY <1>1, <1>2 DEF Row

LEMMA RowPasses ==
  ASSUME NEW g \in Nat, NEW u \in Seq(Frames), NEW x \in Frames, NEW d \in Seq(Frames), NEW k,
         NEW h \in Nat, NEW on, x # NoFrame, Row(g, u, x, d, k, h, on),
         NEW e, e = d \/ e = Append(d, x), NEW l, \A f \in Elems(l) : f.epoch = x.epoch /\ f.kind \in Retainable
  PROVE  Row(x.epoch, u, NoFrame, e, l, h, on)
<1>1. g <= x.epoch /\ x.epoch \in Nat /\ h <= g /\ h <= x.epoch
  BY DEF Row, Frames
<1>2. \A f \in Elems(d) : f.epoch \in Nat /\ f.epoch <= g /\ f.epoch <= x.epoch /\ (on => h <= f.epoch)
  <2>1. \A f \in Elems(d) : f.epoch \in Nat
    BY ElemsAreElements DEF Frames
  <2>2. \A f \in Elems(d) : f.epoch <= g /\ (on => h <= f.epoch)
    BY DEF Row
  <2> QED
    BY <1>1, <2>1, <2>2
<1>3. Ascending(Append(d, x)) /\ Elems(Append(d, x)) = Elems(d) \cup {x}
  BY <1>2, AscendingAppend, ElemsOfAppend DEF Row
<1>4. Ascending(e) /\ \A f \in Elems(e) : f.epoch <= x.epoch /\ (on => h <= f.epoch)
  <2>1. CASE e = d
    BY <1>2, <2>1 DEF Row
  <2>2. CASE e = Append(d, x)
    BY <1>1, <1>2, <1>3, <2>2
  <2> QED
    BY <2>1, <2>2
<1> QED
  BY <1>1, <1>4 DEF Row

LEMMA RowCloses ==
  ASSUME NEW g \in Nat, NEW u, NEW x, NEW d \in Seq(Frames), NEW k, NEW h \in Nat, NEW on,
         Row(g, u, x, d, k, h, on), NEW y \in Frames, y.epoch = g
  PROVE  Row(g, u, x, Append(d, y), k, h, on)
<1>1. h <= y.epoch /\ y.epoch <= g /\ \A f \in Elems(d) : f.epoch <= y.epoch
  BY DEF Row
<1>2. Ascending(Append(d, y)) /\ Elems(Append(d, y)) = Elems(d) \cup {y}
  BY <1>1, AscendingAppend, ElemsOfAppend DEF Row
<1> QED
  BY <1>1, <1>2 DEF Row

LEMMA RowReads ==
  ASSUME NEW g \in Nat, NEW u, NEW x, NEW d \in Seq(Frames), NEW k, NEW h \in Nat, d # <<>>,
         NEW on, NEW off, Row(g, u, x, d, k, h, on)
  PROVE  Row(g, u, x, Tail(d), k, Head(d).epoch, off)
<1>1. Ascending(Tail(d)) /\ \A f \in Elems(Tail(d)) : Head(d).epoch <= f.epoch
  BY AscendingTail DEF Row
<1>2. Head(d) \in Elems(d) /\ Elems(Tail(d)) \subseteq Elems(d)
  BY ElemsOfTail
<1> QED
  BY <1>1, <1>2 DEF Row

LEMMA RowStarts ==
  ASSUME NEW g \in Nat, NEW u, NEW x, NEW d, NEW k, NEW h, NEW on, x = NoFrame,
         Row(g, u, x, d, k, h, on), NEW y \in Frames, g <= y.epoch
  PROVE  Row(g, <<y>>, x, d, k, h, on)
BY AscendingSingle, ElemsOfOne DEF Row

LEMMA RowReplays ==
  ASSUME NEW g \in Nat, NEW u, NEW x, NEW d, NEW k \in Seq(Frames), NEW h \in Nat, NEW on,
         Row(g, u, x, d, k, h, on)
  PROVE  Row(g, u, x, k, k, 0, TRUE)
<1>1. Ascending(k)
  BY AscendingSame DEF Row
<1>2. \A f \in Elems(k) : f.epoch = g /\ f.epoch <= g /\ 0 <= f.epoch
  BY DEF Row
<1> QED
  BY <1>1, <1>2 DEF Row

RowOf(p) ==
  Row(gates[p].epoch, up[p], pending[p], down[Peer(p)], retained[p],
      client[Peer(p)].gate.epoch, client[Peer(p)].up)

RowInv == \A p \in Seats : RowOf(p)

LEMMA RowAfter ==
  ASSUME NEW p \in Seats, NEW s, s = Peer(p),
         Row(gates'[p].epoch, up'[p], pending'[p], down'[s], retained'[p],
             client'[s].gate.epoch, client'[s].up)
  PROVE  RowOf(p)'
BY DEF RowOf

LEMMA RowTypes ==
  ASSUME TypeInv, NEW p \in Seats
  PROVE  /\ gates[p].epoch \in Nat /\ up[p] \in Seq(Frames) /\ pending[p] \in Frames
         /\ down[p] \in Seq(Frames) /\ retained[p] \in Seq(Frames)
         /\ client[p].gate.epoch \in Nat /\ client[p].epoch \in Nat
         /\ gates[p] \in GateSet /\ client[p] \in Clients
BY DEF TypeInv, RelayInv, RelayShape, ClientShape, Clients, GateSet

\* Nothing but what leaves a queue, or a receiver that stops.
LEMMA RowStays ==
  ASSUME RowInv, NEW p \in Seats, NEW s, s = Peer(p), gates'[p].epoch = gates[p].epoch,
         up'[p] \in {up[p], <<>>}, pending'[p] \in {pending[p], NoFrame},
         down'[s] \in {down[s], <<>>}, retained'[p] \in {retained[p], <<>>},
         client'[s].gate.epoch = client[s].gate.epoch, client'[s].up => client[s].up
  PROVE  RowOf(p)'
<1>1. Row(gates[p].epoch, up[p], pending[p], down[s], retained[p], client[s].gate.epoch, client[s].up)
  BY DEF RowInv, RowOf
<1>2. Row(gates[p].epoch, up'[p], pending'[p], down'[s], retained'[p], client[s].gate.epoch, client'[s].up)
  BY <1>1, RowShrinks
<1> QED
  BY <1>2, RowAfter

LEMMA QuietRow ==
  ASSUME RowInv, 
         \A y \in Seats :
           /\ gates'[y].epoch = gates[y].epoch /\ up'[y] \in {up[y], <<>>}
           /\ pending'[y] \in {pending[y], NoFrame} /\ down'[y] \in {down[y], <<>>}
           /\ retained'[y] \in {retained[y], <<>>} /\ client'[y].gate.epoch = client[y].gate.epoch
           /\ client'[y].up => client[y].up
  PROVE  RowInv'
<1> SUFFICES ASSUME NEW p \in Seats PROVE RowOf(p)'
  BY DEF RowInv
<1>1. PICK s \in Seats : s = Peer(p)
  BY PeerIsOther
<1> QED
  BY <1>1, RowStays

LEMMA RowBothSides ==
  ASSUME NEW s \in Seats, NEW p \in Seats, p = Peer(s), RowOf(s)', RowOf(p)'
  PROVE  RowInv'
<1>1. \A x \in Seats : x = s \/ x = p
  BY DEF Seats, Peer
<1> QED
  BY <1>1 DEF RowInv

LEMMA TakeRow ==
  ASSUME TypeInv, RowInv, NEW s \in Seats, Take(s), UNCHANGED clientVars
  PROVE  RowInv'
<1>0. PICK p \in Seats : p = Peer(s) /\ p # s /\ Peer(p) = s
  BY PeerIsOther
<1>1. /\ UNCHANGED <<client, gates, retained, down>> /\ up[s] # <<>> /\ pending[s] = NoFrame
      /\ pending' = [pending EXCEPT ![s] = Head(up[s])] /\ up' = [up EXCEPT ![s] = Tail(up[s])]
  BY DEF Take, sessionVars, clientVars
<1>2. /\ up'[s] = Tail(up[s]) /\ up'[p] = up[p] /\ pending'[s] = Head(up[s]) /\ pending'[p] = pending[p]
  BY <1>0, <1>1 DEF TypeInv, RelayInv, RelayShape
<1>3. RowOf(s)'
  <2>1. Row(gates[s].epoch, up[s], NoFrame, down[p], retained[s], client[p].gate.epoch, client[p].up)
    BY <1>0, <1>1 DEF RowInv, RowOf
  <2>2. Row(gates[s].epoch, Tail(up[s]), Head(up[s]), down[p], retained[s], client[p].gate.epoch, client[p].up)
    BY <1>1, <2>1, RowTypes, RowTakes
  <2> QED
    BY <1>0, <1>1, <1>2, <2>2, RowAfter
<1>4. RowOf(p)'
  BY <1>0, <1>1, <1>2, RowStays
<1> QED
  BY <1>0, <1>3, <1>4, RowBothSides

LEMMA ProcessRow ==
  ASSUME TypeInv, RowInv, NEW s \in Seats, Process(s), UNCHANGED clientVars
  PROVE  RowInv'
<1> DEFINE x == pending[s] kept == IF x.kind \in Retainable THEN <<x>> ELSE <<>>
           before == RetainedBefore(s, x)
<1>0. PICK p \in Seats : p = Peer(s) /\ p # s /\ Peer(p) = s
  BY PeerIsOther
<1>1. /\ UNCHANGED <<client, up>> /\ x # NoFrame
      /\ pending' = [pending EXCEPT ![s] = NoFrame]
      /\ gates' = [gates EXCEPT ![s] = Accepted(gates[s], x)]
      /\ retained' = [retained EXCEPT ![s] = before \o kept]
      /\ down' = down \/ down' = [down EXCEPT ![p] = Append(down[p], x)]
  BY <1>0 DEF Process, clientVars
<1>2. /\ down \in [Seats -> Seq(Frames)] /\ x \in Frames /\ pending \in [Seats -> Frames]
      /\ retained \in [Seats -> Seq(Frames)] /\ gates \in [Seats -> GateSet] /\ retained[s] \in Seq(Frames)
  BY DEF TypeInv, RelayInv, RelayShape
<1>3. Row(gates[s].epoch, up[s], x, down[p], retained[s], client[p].gate.epoch, client[p].up)
  BY <1>0 DEF RowInv, RowOf
<1>4. /\ gates'[s].epoch = x.epoch /\ gates'[p] = gates[p]
      /\ pending'[s] = NoFrame /\ pending'[p] = pending[p]
      /\ retained'[s] = before \o kept /\ retained'[p] = retained[p]
      /\ down'[p] \in {down[p], Append(down[p], x)} /\ down'[s] = down[s]
  <2>1. Accepted(gates[s], x).epoch = x.epoch
    BY <1>2, AcceptedIsGate
  <2>2. gates'[s].epoch = x.epoch /\ gates'[p] = gates[p]
    BY <1>0, <1>1, <1>2, <2>1
  <2>3. pending'[s] = NoFrame /\ pending'[p] = pending[p]
    BY <1>0, <1>1, <1>2
  <2>4. retained'[s] = before \o kept /\ retained'[p] = retained[p]
    BY <1>0, <1>1, <1>2
  <2>5. down'[p] \in {down[p], Append(down[p], x)} /\ down'[s] = down[s]
    BY <1>0, <1>1, <1>2
  <2> QED
    BY <2>2, <2>3, <2>4, <2>5
<1>5. \A f \in Elems(before \o kept) : f.epoch = x.epoch /\ f.kind \in Retainable
  <2>1. before \in Seq(Frames) /\ \A f \in Elems(before) : f.epoch = x.epoch /\ f.kind \in Retainable
    <3>1. CASE x.epoch = gates[s].epoch
      <4>1. before = retained[s]
        BY <3>1 DEF RetainedBefore
      <4>2. \A f \in Elems(retained[s]) : f.epoch = gates[s].epoch /\ f.kind \in Retainable
        BY <1>3 DEF Row
      <4> QED
        BY <1>2, <3>1, <4>1, <4>2
    <3>2. CASE x.epoch # gates[s].epoch
      <4>1. before = <<>>
        BY <3>2 DEF RetainedBefore
      <4> HIDE DEF before
      <4> QED
        BY <4>1, EmptySeq, ElemsOfEmpty
    <3> QED
      BY <3>1, <3>2
  <2>2. kept \in Seq(Frames) /\ \A f \in Elems(kept) : f.epoch = x.epoch /\ f.kind \in Retainable
    <3>1. CASE x.kind \in Retainable
      BY <1>2, <3>1, SingleSeq, ElemsOfOne
    <3>2. CASE x.kind \notin Retainable
      BY <3>2, EmptySeq, ElemsOfEmpty
    <3> QED
      BY <3>1, <3>2
  <2> HIDE DEF before, kept, x
  <2>3. Elems(before \o kept) = Elems(before) \cup Elems(kept)
    BY <2>1, <2>2, ElemsOfConcat
  <2> QED
    BY <2>1, <2>2, <2>3
<1> HIDE DEF before, kept, x
<1>6. RowOf(s)'
  <2>1. Row(x.epoch, up[s], NoFrame, down'[p], retained'[s], client[p].gate.epoch, client[p].up)
    <3> DEFINE g == gates[s].epoch h == client[p].gate.epoch on == client[p].up d == down[p] u == up[s]
    <3>1. /\ g \in Nat /\ u \in Seq(Frames) /\ x \in Frames /\ d \in Seq(Frames) /\ h \in Nat
          /\ x # NoFrame /\ Row(g, u, x, d, retained[s], h, on)
      BY <1>0, <1>1, <1>2, <1>3, RowTypes
    <3>2. (down'[p] = d \/ down'[p] = Append(d, x)) /\ \A f \in Elems(retained'[s]) : f.epoch = x.epoch /\ f.kind \in Retainable
      BY <1>4, <1>5
    <3> HIDE DEF g, h, on, d, u
    <3>3. Row(x.epoch, u, NoFrame, down'[p], retained'[s], h, on)
      BY ONLY <3>1, <3>2, RowPasses
    <3> QED
      BY <3>3 DEF g, h, on, d, u
  <2> QED
    BY <1>0, <1>1, <1>4, <2>1, RowAfter
<1>7. RowOf(p)'
  BY <1>0, <1>1, <1>4, RowStays
<1> QED
  BY <1>0, <1>6, <1>7, RowBothSides

\* How a handler ends: what it leaves, and what the peer is closed with.
Ends(s, p, close) ==
  /\ UNCHANGED <<client, outbox, inbox, stage, bridge, batch>>
  /\ up'[s] = <<>> /\ up'[p] = up[p]
  /\ pending'[s] \in {pending[s], NoFrame} /\ pending'[p] = pending[p] /\ down'[s] = down[s]
  /\ \A y \in Seats : gates'[y].epoch = gates[y].epoch
  /\ \A y \in Seats : retained'[y] \in {retained[y], <<>>}
  /\ down'[p] = down[p] \/ (peers[p] /\ peers' = Each(FALSE) /\ down'[p] = Append(down[p], close))
  /\ peers' = peers \/ peers' = Each(FALSE)
  /\ close \in Frames /\ close.kind = "PEER_CLOSE" /\ close.epoch = gates[s].epoch

LEMMA HandlerEnds ==
  ASSUME TypeInv, NEW s \in Seats, UNCHANGED <<clientVars, bridgeVars>>, NEW p \in Seats, p = Peer(s),
         Reject(s) \/ RevokedEnds(s) \/ Reset(s)
  PROVE  \E close : Ends(s, p, close)
<1> DEFINE close == Frame(gates[s].epoch, gates[s].next, "PEER_CLOSE", 0)
<1>0. p # s
  BY PeerIsOther
<1>1. /\ UNCHANGED <<client, outbox, inbox, stage, bridge, batch>>
      /\ up' = [up EXCEPT ![s] = <<>>]
      /\ pending' = pending \/ pending' = [pending EXCEPT ![s] = NoFrame]
      /\ retained' = retained \/ retained' = Each(<<>>)
      /\ peers' = peers \/ peers' = Each(FALSE)
      /\ \/ UNCHANGED <<gates, down>>
         \/ /\ peers[p] /\ peers' = Each(FALSE) /\ gates' = [gates EXCEPT ![s] = Accepted(gates[s], close)]
            /\ down' = [down EXCEPT ![p] = Append(down[p], close)]
  <2>1. UNCHANGED <<client, outbox, inbox, stage, bridge, batch>>
    BY DEF clientVars, bridgeVars
  <2>2. CASE Reject(s)
    BY <2>1, <2>2 DEF Reject, EndSession
  <2>3. CASE RevokedEnds(s)
    BY <2>1, <2>3 DEF RevokedEnds, sessionVars
  <2>4. CASE Reset(s)
    <3>1. \/ UNCHANGED <<gates, down>>
          \/ /\ peers[p] /\ peers' = Each(FALSE) /\ gates' = [gates EXCEPT ![s] = Accepted(gates[s], close)]
             /\ down' = [down EXCEPT ![p] = Append(down[p], close)]
      BY <2>4 DEF Reset
    <3> QED
      BY <2>1, <2>4, <3>1 DEF Reset
  <2> QED
    BY <2>2, <2>3, <2>4
<1>2. /\ down \in [Seats -> Seq(Frames)] /\ gates[s] \in GateSet
      /\ pending \in [Seats -> Frames] /\ up \in [Seats -> Seq(Frames)] /\ gates \in [Seats -> GateSet]
  BY DEF TypeInv, RelayInv, RelayShape
<1>3. close \in Frames /\ close.kind = "PEER_CLOSE" /\ close.epoch = gates[s].epoch
  BY <1>2, FrameIn DEF GateSet, FrameKinds, Bodies, Frame
<1> HIDE DEF close
<1>4. \A y \in Seats : gates'[y].epoch = gates[y].epoch
  <2>1. Accepted(gates[s], close).epoch = gates[s].epoch
    BY <1>2, <1>3, AcceptedIsGate
  <2> QED
    BY <1>1, <1>2, <2>1
<1>5. up'[s] = <<>> /\ up'[p] = up[p]
  BY <1>0, <1>1, <1>2
<1>6. pending'[s] \in {pending[s], NoFrame} /\ pending'[p] = pending[p]
  BY <1>0, <1>1, <1>2
<1>7. /\ down'[s] = down[s]
      /\ down'[p] = down[p] \/ (peers[p] /\ peers' = Each(FALSE) /\ down'[p] = Append(down[p], close))
  BY <1>0, <1>1, <1>2
<1>8. \A y \in Seats : retained'[y] \in {retained[y], <<>>}
  BY <1>1 DEF Each
<1>9. Ends(s, p, close)
  BY <1>1, <1>3, <1>4, <1>5, <1>6, <1>7, <1>8 DEF Ends
<1> QED
  BY <1>9

LEMMA EndsRow ==
  ASSUME TypeInv, RowInv, NEW s \in Seats, NEW p \in Seats, p = Peer(s), NEW close, Ends(s, p, close)
  PROVE  RowInv'
<1>1. Peer(p) = s /\ p # s
  BY PeerIsOther
<1>2. RowOf(p)'
  BY <1>1, RowStays DEF Ends
<1>3. CASE down'[p] = down[p]
  <2>1. RowOf(s)'
    BY <1>1, <1>3, RowStays DEF Ends
  <2> QED
    BY <1>2, <2>1, RowBothSides
<1>4. CASE down'[p] = Append(down[p], close)
  <2> DEFINE g == gates[s].epoch h == client[p].gate.epoch on == client[p].up d == down[p]
  <2>1. /\ g \in Nat /\ d \in Seq(Frames) /\ h \in Nat /\ close \in Frames /\ close.epoch = g
        /\ Row(g, up[s], pending[s], d, retained[s], h, on)
    BY RowTypes DEF RowInv, RowOf, Ends
  <2>2. /\ up'[s] \in {up[s], <<>>} /\ pending'[s] \in {pending[s], NoFrame}
        /\ retained'[s] \in {retained[s], <<>>} /\ gates'[s].epoch = g /\ down'[p] = Append(d, close)
        /\ client'[p].gate.epoch = h /\ client'[p].up = on
    BY <1>4 DEF Ends
  <2> HIDE DEF g, h, on, d
  <2>3. Row(g, up[s], pending[s], Append(d, close), retained[s], h, on)
    BY <2>1, RowCloses
  <2>4. Row(g, up'[s], pending'[s], Append(d, close), retained'[s], h, on)
    BY <2>2, <2>3, RowShrinks
  <2>5. RowOf(s)'
    BY <2>2, <2>4, RowAfter
  <2> QED
    BY <1>2, <2>5, RowBothSides
<1> QED
  BY <1>3, <1>4 DEF Ends

\* A client's new connection.
Connects(s, p, first) ==
  /\ ~client[s].up /\ ~peers[s] /\ pending[s] = NoFrame /\ (~peers[p] => pending[p] = NoFrame)
  /\ peers' = [peers EXCEPT ![s] = TRUE]
  /\ client'[p] = client[p] /\ outbox'[p] = outbox[p] /\ inbox'[p] = inbox[p]
  /\ outbox'[s] = <<>> /\ inbox'[s] = <<>>
  /\ LET c == client[s] n == client'[s] IN
     /\ n.up /\ n.epoch = c.epoch + 1 /\ n.gate.epoch = 0 /\ n.challenge = NoChallenge /\ ~n.returned
     /\ ~n.answered /\ ~n.proven /\ n.proof = c.proof /\ n.sideSent = c.sideSent
  /\ down'[s] = retained[p] /\ down'[p] = down[p] /\ up'[s] = <<first>> /\ up'[p] = up[p]
  /\ UNCHANGED <<pending, retained, gates, stage, bridge, batch>>
  /\ first \in Frames /\ first.kind = "PEER_READY" /\ first.epoch = client'[s].epoch

LEMMA ConnectIs ==
  ASSUME TypeInv, NEW s \in Seats, NEW p \in Seats, p = Peer(s), Connect(s)
  PROVE  \E first : Connects(s, p, first)
<1> DEFINE first == Frame(client'[s].epoch, 0, "PEER_READY", 0) c == client[s] n == client'[s]
<1>0. p # s
  BY PeerIsOther
<1>1. /\ client' = [client EXCEPT ![s] = n] /\ Accept(s, first) /\ n \in Clients /\ c \in Clients
      /\ first \in Frames
  BY ConnectEffect DEF TypeInv, ClientShape
<1>2. /\ ~c.up /\ n.up /\ n.epoch = c.epoch + 1 /\ n.gate = NewGate /\ n.challenge = NoChallenge /\ ~n.returned
      /\ ~n.answered /\ ~n.proven /\ n.proof = c.proof /\ n.sideSent = c.sideSent
  BY ConnectEffect
<1>3. n.gate.epoch = 0
  BY <1>2 DEF NewGate
<1>4. /\ outbox' = [outbox EXCEPT ![s] = <<>>] /\ inbox' = [inbox EXCEPT ![s] = <<>>]
      /\ UNCHANGED <<stage, bridge, batch>>
  BY DEF Connect, bridgeVars
<1>5. /\ down' = [down EXCEPT ![s] = retained[p]] /\ up' = [up EXCEPT ![s] = <<first>>]
      /\ UNCHANGED <<pending, retained, gates>> /\ peers' = [peers EXCEPT ![s] = TRUE]
      /\ ~peers[s] /\ \A y \in Seats : ~peers[y] => pending[y] = NoFrame
  BY <1>1 DEF Accept, SlotFree
<1>6. first.epoch = n.epoch /\ first.kind = "PEER_READY"
  BY DEF Frame
<1> HIDE DEF first
<1>7. /\ outbox'[s] = <<>> /\ outbox'[p] = outbox[p] /\ inbox'[s] = <<>> /\ inbox'[p] = inbox[p]
      /\ client'[p] = client[p]
  BY <1>0, <1>1, <1>4 DEF TypeInv, ClientShape
<1>8. down'[s] = retained[p] /\ down'[p] = down[p] /\ up'[s] = <<first>> /\ up'[p] = up[p]
  BY <1>0, <1>5 DEF TypeInv, RelayInv, RelayShape
<1>9. Connects(s, p, first)
  BY <1>1, <1>2, <1>3, <1>4, <1>5, <1>6, <1>7, <1>8 DEF Connects
<1> QED
  BY <1>9

LEMMA ConnectRow ==
  ASSUME TypeInv, TypeInv', RowInv, AnswerInv, NEW s \in Seats, NEW p \in Seats, p = Peer(s), NEW first,
         Connects(s, p, first)
  PROVE  RowInv'
<1>1. Peer(p) = s /\ p # s
  BY PeerIsOther
<1>2. RowOf(s)'
  <2> DEFINE g == gates[s].epoch h == client[p].gate.epoch on == client[p].up
  <2>1. /\ g \in Nat /\ first \in Frames /\ pending[s] = NoFrame
        /\ Row(g, up[s], pending[s], down[p], retained[s], h, on)
    BY RowTypes DEF RowInv, RowOf, Connects
  <2>2. g <= first.epoch
    <3>1. g <= client[s].epoch /\ client[s].epoch \in Nat /\ first.epoch = client[s].epoch + 1 /\ g \in Nat
      BY RowTypes DEF AnswerInv, AnswerOf, Connects
    <3> QED
      BY ONLY <3>1
  <2>3. /\ up'[s] = <<first>> /\ pending' = pending /\ gates' = gates
        /\ down'[p] = down[p] /\ retained' = retained /\ client'[p] = client[p]
    BY DEF Connects
  <2>4. Row(g, <<first>>, pending[s], down[p], retained[s], h, on)
    <3> HIDE DEF g, h, on
    <3> QED
      BY <2>1, <2>2, RowStarts
  <2> QED
    BY <2>3, <2>4, RowAfter
<1>3. RowOf(p)'
  <2> DEFINE g == gates[p].epoch h == client[s].gate.epoch on == client[s].up
  <2>1. /\ g \in Nat /\ h \in Nat /\ retained[p] \in Seq(Frames)
        /\ Row(g, up[p], pending[p], down[s], retained[p], h, on)
    BY <1>1, RowTypes DEF RowInv, RowOf
  <2>2. /\ up'[p] = up[p] /\ pending' = pending /\ gates' = gates
        /\ down'[s] = retained[p] /\ retained' = retained /\ client'[s].gate.epoch = 0 
        /\ client'[s].up
    BY DEF Connects
  <2>3. Row(g, up[p], pending[p], retained[p], retained[p], 0, TRUE)
    <3> HIDE DEF g, h, on
    <3> QED
      BY <2>1, RowReplays
  <2>4. client'[s].up = TRUE
    BY <2>2 DEF TypeInv, ClientShape, Clients
  <2> QED
    BY <1>1, <2>2, <2>3, <2>4, RowAfter
<1> QED
  BY <1>2, <1>3, RowBothSides

\* What a client sends goes behind what it sent before.
LEMMA SendsRow ==
  ASSUME TypeInv, RowInv, AnswerInv, NEW s \in Seats, NEW p \in Seats, p = Peer(s), NEW q \in Seq(Frames),
         NEW e \in Nat, client[s].epoch <= e, \A f \in Elems(q) : f.epoch = e
  PROVE  Row(gates[s].epoch, up[s] \o q, pending[s], down[p], retained[s],
             client[p].gate.epoch, client[p].up)
<1> DEFINE g == gates[s].epoch h == client[p].gate.epoch on == client[p].up u == up[s] x == pending[s]
<1>1. /\ g \in Nat /\ u \in Seq(Frames) /\ x \in Frames /\ client[s].epoch \in Nat
      /\ Row(g, u, x, down[p], retained[s], h, on)
  BY RowTypes DEF RowInv, RowOf
<1>2. g <= client[s].epoch /\ \A f \in SentBy(s) : f.epoch <= client[s].epoch
  BY DEF AnswerInv, AnswerOf, FromEpoch
<1>3. \A f \in Elems(u) : f.epoch \in Nat
  BY <1>1, ElemsAreElements DEF Frames
<1>4. \A f \in Elems(u) : f.epoch <= e
  BY <1>1, <1>2, <1>3, PartsAreSent
<1>5. x # NoFrame => x.epoch <= e
  BY <1>1, <1>2, PartsAreSent DEF Frames
<1>6. g <= e
  BY <1>1, <1>2
<1> HIDE DEF g, h, on, u, x
<1>7. Row(g, u \o q, x, down[p], retained[s], h, on)
  BY <1>1, <1>4, <1>5, <1>6, RowSends
<1> QED
  BY <1>7 DEF g, h, on, u, x

\* A client sends its oldest queued note h as the frames q, one or none.
Sends(s, p, h, q) ==
  /\ client[s].up /\ h \in Elems(outbox[s]) /\ outbox[s] # <<>>
  /\ client'[p] = client[p] /\ SameConnection(client[s], client'[s]) /\ SameProof(client[s], client'[s])
  /\ UNCHANGED <<pending, down, retained, gates, peers, inbox, stage, bridge, batch>>
  /\ up'[p] = up[p] /\ q \in Seq(Frames) /\ up'[s] = up[s] \o q
  /\ \A f \in Elems(q) : f.epoch = client[s].epoch /\ f.kind = h.kind
  /\ outbox'[p] = outbox[p]

LEMMA SendPendingIs ==
  ASSUME TypeInv, NEW s \in Seats, NEW p \in Seats, p = Peer(s), SendPending(s)
  PROVE  \E h, q : Sends(s, p, h, q)
<1> DEFINE c == client[s] n == client'[s] h == Head(outbox[s])
           x == Frame(client[s].epoch, client[s].seq, h.kind, h.body)
<1>0. p # s
  BY PeerIsOther
<1>1. /\ UNCHANGED <<pending, down, retained, gates, peers, inbox, stage, bridge, batch>> /\ c.up
      /\ outbox[s] # <<>> /\ outbox' = [outbox EXCEPT ![s] = Tail(outbox[s])]
  BY DEF SendPending, sessionVars, bridgeVars
<1>2. /\ client' = [client EXCEPT ![s] = n] /\ SameConnection(c, n) /\ SameProof(c, n)
      /\ x \in Frames /\ up' = Sent(s, <<x>>)
  BY SendPendingEffect
<1>3. x.kind = h.kind /\ x.epoch = c.epoch
  BY DEF Frame
<1> HIDE DEF x
<1>4. /\ outbox[s] \in Seq(Notes) /\ outbox \in [Seats -> Seq(Notes)] /\ client \in [Seats -> Clients]
      /\ up[s] \in Seq(Frames) /\ up \in [Seats -> Seq(Frames)]
  BY DEF TypeInv, ClientShape, RelayInv, RelayShape
<1>5. h \in Elems(outbox[s])
  BY <1>1, <1>4, ElemsOfTail
<1>6. outbox'[p] = outbox[p] /\ client'[p] = client[p]
  BY <1>0, <1>1, <1>2, <1>4
<1>7. PICK q \in Seq(Frames) : up' = [up EXCEPT ![s] = up[s] \o q] /\ (q = <<x>> \/ q = <<>>)
  <2>1. <<x>> \in Seq(Frames)
    BY <1>2, SingleSeq
  <2> QED
    BY <1>2, <2>1, SentFrames
<1>8. up'[p] = up[p] /\ up'[s] = up[s] \o q
  BY <1>0, <1>4, <1>7
<1>9. \A f \in Elems(q) : f.epoch = c.epoch /\ f.kind = h.kind
  BY <1>3, <1>7, ElemsOfOne, ElemsOfEmpty
<1> HIDE DEF h
<1>10. Sends(s, p, h, q)
  BY <1>1, <1>2, <1>5, <1>6, <1>8, <1>9 DEF Sends
<1> QED
  BY <1>10

\* A client gives its socket up.
Drops(s, p) ==
  /\ UNCHANGED <<up, pending, retained, gates, peers, outbox, inbox, stage, bridge, batch>>
  /\ down'[s] = <<>> /\ down'[p] = down[p] /\ client'[p] = client[p]
  /\ LET c == client[s] n == client'[s] IN
     /\ ~n.up /\ ~n.proven /\ n.epoch = c.epoch /\ n.gate = c.gate /\ n.challenge = c.challenge
     /\ n.returned = c.returned /\ n.answered = c.answered /\ n.proof = c.proof /\ n.sideSent = c.sideSent

LEMMA DroppedIs ==
  ASSUME TypeInv, NEW s \in Seats, NEW p \in Seats, p = Peer(s), Dropped(s),
         UNCHANGED <<sessionVars, handlers, pending, outbox, bridgeVars>>
  PROVE  Drops(s, p)
<1>0. p # s
  BY PeerIsOther
<1>1. /\ UNCHANGED <<up, pending, retained, gates, peers, outbox, inbox, stage, bridge, batch>>
      /\ down' = [down EXCEPT ![s] = <<>>]
  BY DEF Dropped, sessionVars, bridgeVars
<1>2. client' = [client EXCEPT ![s] = client'[s]]
  BY DroppedEffect
<1>3. client'[p] = client[p] /\ down'[s] = <<>> /\ down'[p] = down[p]
  BY <1>0, <1>1, <1>2 DEF TypeInv, ClientShape, RelayInv, RelayShape
<1>4. LET c == client[s] n == client'[s] IN
     /\ ~n.up /\ ~n.proven /\ n.epoch = c.epoch /\ n.gate = c.gate /\ n.challenge = c.challenge
     /\ n.returned = c.returned /\ n.answered = c.answered /\ n.proof = c.proof /\ n.sideSent = c.sideSent
  BY DroppedEffect
<1> QED
  BY <1>1, <1>3, <1>4 DEF Drops

\* What an accepted frame f makes of a client c: a new epoch of the peer may restart its
\* proof, an answer to its challenge returns it.
Reacts(c, n, f) ==
  /\ n.up = c.up /\ n.sideSent = c.sideSent /\ n.gate.epoch = f.epoch
  /\ f.epoch # c.gate.epoch => f.kind = "PEER_READY"
  /\ n.proof = IF n.proven /\ ~c.proven THEN c.proof + 1 ELSE c.proof
  /\ \/ /\ f.kind = "PEER_READY" /\ c.gate.epoch \notin {0, f.epoch}
        /\ n.epoch = c.epoch + 1 /\ n.challenge = <<n.epoch, f.epoch>> /\ ~n.returned /\ ~n.proven
     \/ /\ f.kind = "PEER_READY" /\ c.gate.epoch \in {0, f.epoch}
        /\ n.epoch = c.epoch /\ n.challenge = <<n.epoch, f.epoch>>
        /\ n.returned = c.returned /\ (c.proven => n.proven)
     \/ /\ f.kind # "PEER_READY" /\ n.epoch = c.epoch /\ n.challenge = c.challenge
        /\ (c.proven => n.proven) /\ (c.returned => n.returned)
        /\ n.returned => c.returned \/ (f.kind = "PROBE_RESPONSE" /\ f.body = c.challenge /\ f.body # NoChallenge)

LEMMA ReadFrameReacts ==
  ASSUME TypeInv, NEW s \in Seats, Head(down[s]) \in Frames, ReadFrame(s)
  PROVE  Reacts(client[s], client'[s], Head(down[s]))
<1> DEFINE f == Head(down[s]) c == client[s] n == client'[s]
<1>1. /\ n.up = c.up /\ n.sideSent = c.sideSent /\ n.gate.epoch = f.epoch
  BY ReadFrameEffect
<1>2. f.epoch # c.gate.epoch => f.kind = "PEER_READY"
  BY DEF ReadFrame
<1>3. CASE f.kind = "PEER_READY" /\ OnPeerReady(s, f)
  <2>1. n.challenge = <<n.epoch, f.epoch>>
    BY <1>3, PeerReadyEffect
  <2>2. CASE Again(s, f)
    <3>1. n.epoch = c.epoch + 1 /\ ~n.returned /\ ~n.proven /\ n.proof = c.proof
      BY <1>3, <2>2, PeerReadyEffect
    <3> QED
      BY <1>1, <1>2, <1>3, <2>1, <2>2, <3>1 DEF Reacts, Again
  <2>3. CASE ~Again(s, f)
    <3>1. /\ n.epoch = c.epoch /\ n.returned = c.returned
          /\ n.proven <=> c.proven \/ (c.returned /\ c.answered)
          /\ n.proof = IF n.proven /\ ~c.proven THEN c.proof + 1 ELSE c.proof
      BY <1>3, <2>3, PeerReadyEffect
    <3> QED
      BY <1>1, <1>2, <1>3, <2>1, <2>3, <3>1 DEF Reacts, Again
  <2> QED
    BY <2>2, <2>3
<1>4. CASE f.kind = "PROBE_CHALLENGE" /\ OnChallenge(s, f)
  <2>1. /\ n.epoch = c.epoch /\ n.challenge = c.challenge /\ n.returned = c.returned
        /\ n.proven <=> c.proven \/ c.returned
        /\ n.proof = IF n.proven /\ ~c.proven THEN c.proof + 1 ELSE c.proof
    BY <1>4, ChallengeEffect DEF SameConnection
  <2> QED
    BY <1>1, <1>2, <1>4, <2>1 DEF Reacts
<1>5. CASE f.kind = "PROBE_RESPONSE" /\ OwnResponse(s, f)
  <2>1. /\ n.epoch = c.epoch /\ n.challenge = c.challenge /\ n.returned
        /\ n.proven <=> c.proven \/ c.answered
        /\ n.proof = IF n.proven /\ ~c.proven THEN c.proof + 1 ELSE c.proof
    BY <1>5, ResponseEffect DEF SameConnection
  <2>2. f.body = c.challenge /\ f.body # NoChallenge
    BY <1>5 DEF OwnResponse
  <2> QED
    BY <1>1, <1>2, <1>5, <2>1, <2>2 DEF Reacts
<1>6. CASE Delivered(s, f)
  <2>1. /\ n.epoch = c.epoch /\ n.challenge = c.challenge /\ n.returned = c.returned
        /\ n.proven = c.proven /\ n.proof = c.proof
    BY <1>6, DeliveredEffect DEF SameConnection
  <2>2. f.kind # "PEER_READY"
    BY <1>6 DEF Delivered
  <2> QED
    BY <1>1, <1>2, <2>1, <2>2 DEF Reacts
<1> QED
  BY <1>3, <1>4, <1>5, <1>6 DEF ReadFrame

\* A client reads the first frame and sends the frames q in answer.
Reads(s, p, q) ==
  LET f == Head(down[s]) IN
  /\ client[s].up /\ down[s] # <<>> /\ f \in Frames /\ Reacts(client[s], client'[s], f)
  /\ UNCHANGED <<pending, outbox, retained, gates, peers, stage, bridge, batch>>
  /\ client'[p] = client[p] /\ down'[s] = Tail(down[s]) /\ down'[p] = down[p]
  /\ q \in Seq(Frames) /\ up'[s] = up[s] \o q /\ up'[p] = up[p]
  /\ \A g \in Elems(q) : Answers(client'[s], f, g)
  /\ inbox'[p] = inbox[p]
  /\ inbox'[s] = inbox[s] \/ (f.kind \notin Protocol /\ inbox'[s] = Append(inbox[s], f))

LEMMA ReadFrameIs ==
  ASSUME TypeInv, NEW s \in Seats, NEW p \in Seats, p = Peer(s), client[s].up, down[s] # <<>>, ReadFrame(s),
         Head(down[s]) \in Frames, UNCHANGED <<sessionVars, handlers, pending, outbox, bridgeVars>>
  PROVE  \E q : Reads(s, p, q)
<1> DEFINE f == Head(down[s]) n == client'[s]
<1>0. p # s
  BY PeerIsOther
<1>1. /\ UNCHANGED <<pending, outbox, retained, gates, peers, stage, bridge, batch>>
      /\ down' = [down EXCEPT ![s] = Tail(down[s])]
  BY DEF ReadFrame, sessionVars, bridgeVars
<1>2. /\ down \in [Seats -> Seq(Frames)] /\ up \in [Seats -> Seq(Frames)] /\ client \in [Seats -> Clients]
      /\ inbox \in [Seats -> Seq(Frames)]
  BY DEF TypeInv, RelayInv, RelayShape, ClientShape
<1>3. Reacts(client[s], n, f)
  BY ReadFrameReacts
<1>4. PICK q \in Seq(Frames) : up' = [up EXCEPT ![s] = up[s] \o q] /\ \A g \in Elems(q) : Answers(n, f, g)
  BY ReadFrameEffect
<1>5. /\ client' = [client EXCEPT ![s] = n]
      /\ inbox' = inbox \/ (inbox' = [inbox EXCEPT ![s] = Append(inbox[s], f)] /\ f.kind \notin Protocol)
  BY ReadFrameEffect
<1>6. client'[p] = client[p]
  BY <1>0, <1>2, <1>5
<1>7. down'[s] = Tail(down[s]) /\ down'[p] = down[p]
  BY <1>0, <1>1, <1>2
<1>8. up'[s] = up[s] \o q /\ up'[p] = up[p]
  BY <1>0, <1>2, <1>4
<1>9. inbox'[p] = inbox[p] /\ (inbox'[s] = inbox[s] \/ (f.kind \notin Protocol /\ inbox'[s] = Append(inbox[s], f)))
  BY <1>0, <1>2, <1>5
<1> HIDE DEF n
<1>10. Reads(s, p, q)
  BY <1>1, <1>3, <1>4, <1>6, <1>7, <1>8, <1>9 DEF Reads, n
<1> QED
  BY <1>10

LEMMA ReadsRow ==
  ASSUME TypeInv, TypeInv', RowInv, AnswerInv, NEW s \in Seats, NEW p \in Seats, p = Peer(s), NEW q, Reads(s, p, q)
  PROVE  RowInv'
<1>0. Peer(p) = s /\ p # s
  BY PeerIsOther
<1>1. client'[s].epoch \in Nat /\ client[s].epoch <= client'[s].epoch /\ client'[s].up = client[s].up
  <2>1. client[s].epoch \in Nat /\ client'[s].epoch \in Nat
    BY DEF TypeInv, ClientShape, Clients
  <2>2. client'[s].epoch = client[s].epoch + 1 \/ client'[s].epoch = client[s].epoch
    BY DEF Reads, Reacts
  <2> QED
    BY <2>1, <2>2 DEF Reads, Reacts
<1>2. q \in Seq(Frames) /\ \A g \in Elems(q) : g.epoch = client'[s].epoch
  BY DEF Reads, Answers
<1>3. RowOf(s)'
  <2>1. Row(gates[s].epoch, up[s] \o q, pending[s], down[p], retained[s],
            client[p].gate.epoch, client[p].up)
    BY <1>1, <1>2, SendsRow
  <2>2. /\ gates' = gates /\ up'[s] = up[s] \o q /\ pending' = pending /\ down'[p] = down[p]
        /\ retained' = retained /\ client'[p] = client[p]
    BY DEF Reads
  <2> QED
    BY <1>0, <2>1, <2>2, RowAfter
<1>4. RowOf(p)'
  <2>1. /\ gates[p].epoch \in Nat /\ down[s] \in Seq(Frames) /\ client[s].gate.epoch \in Nat
    BY RowTypes
  <2>2. Row(gates[p].epoch, up[p], pending[p], down[s], retained[p], client[s].gate.epoch, client[s].up)
    BY <1>0 DEF RowInv, RowOf
  <2>3. /\ gates' = gates /\ up'[p] = up[p] /\ pending' = pending /\ down'[s] = Tail(down[s]) /\ down[s] # <<>>
        /\ retained' = retained /\ client'[s].gate.epoch = Head(down[s]).epoch
    <3>1. Reacts(client[s], client'[s], Head(down[s]))
      BY DEF Reads
    <3>2. client'[s].gate.epoch = Head(down[s]).epoch
      BY <3>1 DEF Reacts
    <3> QED
      BY <3>2 DEF Reads
  <2> DEFINE g == gates[p].epoch u == up[p] x == pending[p] d == down[s] k == retained[p]
             h == client[s].gate.epoch on == client[s].up off == client'[s].up
  <2>5. g \in Nat /\ d \in Seq(Frames) /\ h \in Nat /\ d # <<>> /\ Row(g, u, x, d, k, h, on)
    BY <2>1, <2>2, <2>3
  <2> HIDE DEF g, u, x, d, k, h, on, off
  <2>6. Row(g, u, x, Tail(d), k, Head(d).epoch, off)
    BY ONLY <2>5, RowReads
  <2>4. Row(gates[p].epoch, up[p], pending[p], Tail(down[s]), retained[p], Head(down[s]).epoch, client'[s].up)
    BY <2>6 DEF g, u, x, d, k, off
  <2> QED
    BY <1>0, <2>3, <2>4, RowAfter
<1> QED
  BY <1>0, <1>3, <1>4, RowBothSides

LEMMA SendsKeepRow ==
  ASSUME TypeInv, RowInv, AnswerInv, NEW s \in Seats, NEW p \in Seats, p = Peer(s), NEW h, NEW q, Sends(s, p, h, q)
  PROVE  RowInv'
<1>0. Peer(p) = s /\ p # s
  BY PeerIsOther
<1>1. client[s].epoch \in Nat /\ client[s].epoch <= client[s].epoch
  BY RowTypes
<1>2. q \in Seq(Frames) /\ \A g \in Elems(q) : g.epoch = client[s].epoch
  BY DEF Sends
<1>3. /\ gates' = gates /\ up'[s] = up[s] \o q /\ pending' = pending /\ down' = down /\ up'[p] = up[p]
      /\ retained' = retained /\ client'[p] = client[p] /\ client'[s].gate = client[s].gate
      /\ client'[s].up = client[s].up
  BY DEF Sends, SameConnection, SameProof
<1>4. RowOf(s)'
  <2>1. Row(gates[s].epoch, up[s] \o q, pending[s], down[p], retained[s],
            client[p].gate.epoch, client[p].up)
    BY <1>1, <1>2, SendsRow
  <2> QED
    BY <1>0, <2>1, <1>3, RowAfter
<1>5. RowOf(p)'
  BY <1>0, <1>3, RowStays
<1> QED
  BY <1>0, <1>4, <1>5, RowBothSides

LEMMA DropsRow ==
  ASSUME RowInv, NEW s \in Seats, NEW p \in Seats, p = Peer(s), Drops(s, p)
  PROVE  RowInv'
<1>0. Peer(p) = s /\ p # s
  BY PeerIsOther
<1>1. RowOf(s)'
  BY <1>0, RowStays DEF Drops
<1>2. RowOf(p)'
  BY <1>0, RowStays DEF Drops
<1> QED
  BY <1>0, <1>1, <1>2, RowBothSides

\* Neither frames on their way nor the proofs change; a client may give a note to send to its
\* thread while it is proven, and take what is in its inbox.
Works(s, p) ==
  /\ UNCHANGED <<up, pending, down, gates>>
  /\ retained' = retained \/ retained' = Each(<<>>)
  /\ peers' = peers \/ peers' = Each(FALSE)
  /\ client'[p] = client[p] /\ client'[s].up = client[s].up /\ client'[s].epoch = client[s].epoch
  /\ SameProof(client[s], client'[s])
  /\ outbox'[p] = outbox[p] /\ (outbox'[s] = outbox[s] \/ client[s].proven)
  /\ inbox'[p] = inbox[p] /\ (inbox'[s] = inbox[s] \/ inbox'[s] = <<>>)

LEMMA WorksRow ==
  ASSUME RowInv, NEW s \in Seats, NEW p \in Seats, p = Peer(s), Works(s, p)
  PROVE  RowInv'
<1>0. \A x \in Seats : x = s \/ x = p
  BY DEF Seats, Peer
<1>1. \A y \in Seats : /\ client'[y].gate.epoch = client[y].gate.epoch
                       /\ client'[y].up => client[y].up
  BY <1>0 DEF Works, SameProof
<1>2. \A y \in Seats : retained'[y] \in {retained[y], <<>>}
  BY DEF Works, Each
<1> QED
  BY <1>1, <1>2, QuietRow DEF Works

LEMMA PumpWorks ==
  ASSUME TypeInv, NEW s \in Seats, NEW p \in Seats, p = Peer(s), SendSideReady(s) \/ Flush(s) \/ Poll(s)
  PROVE  Works(s, p)
<1>0. p # s
  BY PeerIsOther
<1>1. /\ client \in [Seats -> Clients] /\ outbox \in [Seats -> Seq(Notes)] /\ inbox \in [Seats -> Seq(Frames)]
  BY DEF TypeInv, ClientShape
<1>2. CASE Poll(s)
  <2>1. /\ UNCHANGED <<up, pending, down, gates, retained, peers, client, outbox>>
        /\ inbox' = [inbox EXCEPT ![s] = <<>>]
    BY <1>2 DEF Poll, relayVars, sessionVars
  <2>2. inbox'[p] = inbox[p] /\ inbox'[s] = <<>>
    BY <1>0, <1>1, <2>1
  <2> QED
    BY <2>1, <2>2 DEF Works, SameProof
<1>3. CASE Flush(s)
  <2>1. /\ UNCHANGED <<up, pending, down, gates, retained, peers, client, inbox>>
    BY <1>3 DEF Flush, relayVars, sessionVars
  <2>2. \/ outbox' = outbox
        \/ client[s].proven /\ \E x : outbox' = [outbox EXCEPT ![s] = x]
    BY <1>3, FlushEffect
  <2>3. outbox'[p] = outbox[p] /\ (outbox'[s] = outbox[s] \/ client[s].proven)
    BY <1>0, <1>1, <2>2
  <2> QED
    BY <2>1, <2>3 DEF Works, SameProof
<1>4. CASE SendSideReady(s)
  <2>1. /\ UNCHANGED <<up, pending, down, gates, retained, peers, inbox>>
    BY <1>4 DEF SendSideReady, relayVars, sessionVars
  <2>2. \/ outbox' = outbox /\ client' = client
        \/ /\ client[s].proven /\ \E x : outbox' = [outbox EXCEPT ![s] = x]
           /\ client' = [client EXCEPT ![s] = client'[s]] /\ SameProof(client[s], client'[s])
           /\ client'[s].up = client[s].up /\ client'[s].epoch = client[s].epoch
    BY <1>4, SendSideReadyEffect
  <2>3. outbox'[p] = outbox[p] /\ (outbox'[s] = outbox[s] \/ client[s].proven)
    BY <1>0, <1>1, <2>2
  <2>4. /\ client'[p] = client[p] /\ client'[s].up = client[s].up /\ client'[s].epoch = client[s].epoch
        /\ SameProof(client[s], client'[s])
    BY <1>0, <1>1, <2>2 DEF SameProof
  <2> QED
    BY <2>1, <2>3, <2>4 DEF Works
<1> QED
  BY <1>2, <1>3, <1>4

LEMMA OtherWorks ==
  ASSUME TypeInv, NEW s \in Seats, NEW p \in Seats, p = Peer(s),
         \/ Refused(s) \/ ConnectStage(s) \/ SyncProof(s) \/ Drain(s) \/ SendRfu(s) \/ ReplayLost(s)
         \/ Expires(s) \/ (s = "A" /\ Publish) \/ (s = "B" /\ AwaitAdvertisement) \/ UNCHANGED tunnelVars
  PROVE  Works(s, p)
<1>0. p # s
  BY PeerIsOther
<1>1. /\ client \in [Seats -> Clients] /\ outbox \in [Seats -> Seq(Notes)] /\ inbox \in [Seats -> Seq(Frames)]
  BY DEF TypeInv, ClientShape
<1>2. CASE UNCHANGED <<up, pending, down, gates, retained, peers, client, outbox, inbox>>
  BY <1>2 DEF Works, SameProof
<1>3. CASE Refused(s)
  <2>1. UNCHANGED <<up, pending, down, gates, retained, peers, outbox, inbox>>
    BY <1>3 DEF Refused, relayVars, sessionVars
  <2>2. client' = [client EXCEPT ![s] = [client[s] EXCEPT !.error = "C_AUTHENTICATION_FAILED"]]
    BY <1>3 DEF Refused
  <2>3. client'[p] = client[p]
    BY <1>0, <1>1, <2>2
  <2>4. /\ client'[s].up = client[s].up /\ client'[s].epoch = client[s].epoch
        /\ SameProof(client[s], client'[s])
    BY <1>1, <2>2 DEF Clients, SameProof
  <2> QED
    BY <2>1, <2>3, <2>4 DEF Works
<1>4. CASE ConnectStage(s) \/ SyncProof(s) \/ Drain(s) \/ SendRfu(s) \/ UNCHANGED tunnelVars
  <2>1. UNCHANGED <<relayVars, clientVars>>
    BY <1>4 DEF ConnectStage, SyncProof, Drain, SendRfu, tunnelVars
  <2> QED
    BY <1>2, <2>1 DEF relayVars, sessionVars, clientVars
<1>5. CASE ReplayLost(s)
  BY <1>2, <1>5 DEF ReplayLost, ReplayFails, clientVars
<1>6. CASE Expires(s)
  <2>1. /\ UNCHANGED <<client, outbox, inbox, up, pending, down, gates>> /\ retained' = Each(<<>>)
        /\ peers' = Each(FALSE)
    BY <1>6 DEF Expires, ExpirePeer, clientVars
  <2> QED
    BY <2>1 DEF Works, SameProof
<1>7. CASE s = "A" /\ Publish
  <2>1. UNCHANGED <<up, pending, down, gates, retained, peers, client, inbox>>
    BY <1>7 DEF Publish, relayVars, sessionVars
  <2>2. outbox' = outbox \/ (client[s].proven /\ \E x : outbox' = [outbox EXCEPT ![s] = x])
    BY <1>7 DEF Publish
  <2>3. outbox'[p] = outbox[p] /\ (outbox'[s] = outbox[s] \/ client[s].proven)
    BY <1>0, <1>1, <2>2
  <2> QED
    BY <2>1, <2>3 DEF Works, SameProof
<1>8. CASE s = "B" /\ AwaitAdvertisement
  <2>1. UNCHANGED <<up, pending, down, gates, retained, peers, client, outbox>>
    BY <1>8 DEF AwaitAdvertisement, relayVars, sessionVars
  <2>2. inbox' = inbox \/ inbox' = [inbox EXCEPT ![s] = <<>>]
    BY <1>8 DEF AwaitAdvertisement
  <2>3. inbox'[p] = inbox[p] /\ (inbox'[s] = inbox[s] \/ inbox'[s] = <<>>)
    BY <1>0, <1>1, <2>2
  <2> QED
    BY <2>1, <2>3 DEF Works, SameProof
<1> QED
  BY <1>3, <1>4, <1>5, <1>6, <1>7, <1>8

\* The relay's handler takes a frame, and passes it on to a peer that is registered.
Takes(s, p) ==
  /\ peers[s] /\ pending[s] = NoFrame /\ up[s] # <<>>
  /\ pending'[s] = Head(up[s]) /\ up'[s] = Tail(up[s]) /\ pending'[p] = pending[p] /\ up'[p] = up[p]
  /\ UNCHANGED <<down, gates, peers, retained, client, outbox, inbox, stage, bridge, batch>>

Forwards(s, p) ==
  /\ pending[s] # NoFrame /\ pending'[s] = NoFrame /\ pending'[p] = pending[p] /\ down'[s] = down[s]
  /\ down'[p] = IF peers[p] THEN Append(down[p], pending[s]) ELSE down[p]
  /\ UNCHANGED <<up, peers, client, outbox, inbox, stage, bridge, batch>>

LEMMA RelayServesIs ==
  ASSUME TypeInv, NEW s \in Seats, NEW p \in Seats, p = Peer(s), UNCHANGED <<clientVars, bridgeVars>>
  PROVE  /\ Take(s) => Takes(s, p)
         /\ Process(s) => Forwards(s, p)
<1>0. p # s
  BY PeerIsOther
<1>1. /\ up \in [Seats -> Seq(Frames)] /\ down \in [Seats -> Seq(Frames)] /\ pending \in [Seats -> Frames]
  BY DEF TypeInv, RelayInv, RelayShape
<1>2. UNCHANGED <<client, outbox, inbox, stage, bridge, batch>>
  BY DEF clientVars, bridgeVars
<1>3. ASSUME Take(s) PROVE Takes(s, p)
  <2>1. /\ peers[s] /\ pending[s] = NoFrame /\ up[s] # <<>>
        /\ pending' = [pending EXCEPT ![s] = Head(up[s])] /\ up' = [up EXCEPT ![s] = Tail(up[s])]
        /\ UNCHANGED <<down, gates, peers, retained>>
    BY <1>3 DEF Take, sessionVars
  <2>2. pending'[s] = Head(up[s]) /\ up'[s] = Tail(up[s]) /\ pending'[p] = pending[p] /\ up'[p] = up[p]
    BY <1>0, <1>1, <2>1
  <2> QED
    BY <1>2, <2>1, <2>2 DEF Takes
<1>4. ASSUME Process(s) PROVE Forwards(s, p)
  <2>1. /\ pending[s] # NoFrame /\ pending' = [pending EXCEPT ![s] = NoFrame]
        /\ down' = IF peers[p] THEN [down EXCEPT ![p] = Append(down[p], pending[s])] ELSE down
        /\ UNCHANGED <<up, peers>>
    BY <1>4 DEF Process
  <2>2. pending'[s] = NoFrame /\ pending'[p] = pending[p]
    BY <1>0, <1>1, <2>1
  <2>3. /\ down'[s] = down[s]
        /\ down'[p] = IF peers[p] THEN Append(down[p], pending[s]) ELSE down[p]
    BY <1>0, <1>1, <2>1
  <2> QED
    BY <1>2, <2>1, <2>2, <2>3 DEF Forwards
<1> QED
  BY <1>3, <1>4

\* Every step seen from the seat s it is of, and its peer p.
Moves(s, p) ==
  \/ \E first : Connects(s, p, first)
  \/ \E h, q : Sends(s, p, h, q)
  \/ \E q : Reads(s, p, q)
  \/ Drops(s, p)
  \/ Takes(s, p)
  \/ Forwards(s, p)
  \/ \E close : Ends(s, p, close)
  \/ Works(s, p)

LEMMA StepMoves ==
  ASSUME TypeInv, TypeInv', RowInv, AnswerInv, [SessionNext]_tunnelVars
  PROVE  \E s \in Seats : \E p \in Seats : p = Peer(s) /\ Moves(s, p) /\ RowInv'
<1>1. ASSUME NEW s \in Seats, NEW p \in Seats, p = Peer(s), Receive(s) \/ ClientLost(s)
      PROVE  Moves(s, p) /\ RowInv'
  <2>1. /\ UNCHANGED <<sessionVars, handlers, pending, outbox, bridgeVars>>
        /\ \/ Dropped(s)
           \/ ReadFrame(s) /\ client[s].up /\ down[s] # <<>> /\ Head(down[s]) \in Frames
    BY <1>1, ReceiveCases, ClientLostIsDrop
  <2>2. CASE Dropped(s)
    BY <1>1, <2>1, <2>2, DroppedIs, DropsRow DEF Moves
  <2>3. CASE ReadFrame(s) /\ client[s].up /\ down[s] # <<>> /\ Head(down[s]) \in Frames
    <3>1. PICK q : Reads(s, p, q)
      BY <1>1, <2>1, <2>3, ReadFrameIs
    <3> QED
      BY <1>1, <3>1, ReadsRow DEF Moves
  <2> QED
    BY <2>1, <2>2, <2>3
<1>2. ASSUME NEW s \in Seats, NEW p \in Seats, p = Peer(s), Works(s, p)
      PROVE  Moves(s, p) /\ RowInv'
  BY <1>2, WorksRow DEF Moves
<1>3. ASSUME NEW s \in Seats, NEW p \in Seats, p = Peer(s), TunnelThread(s)
      PROVE  Moves(s, p) /\ RowInv'
  <2>1. CASE Connect(s)
    <3>1. PICK first : Connects(s, p, first)
      BY <1>3, <2>1, ConnectIs
    <3> QED
      BY <1>3, <3>1, ConnectRow DEF Moves
  <2>2. CASE SendPending(s)
    <3>1. PICK h, q : Sends(s, p, h, q)
      BY <1>3, <2>2, SendPendingIs
    <3> QED
      BY <1>3, <3>1, SendsKeepRow DEF Moves
  <2>3. CASE Refused(s)
    BY <1>2, <1>3, <2>3, OtherWorks
  <2> QED
    BY <1>1, <1>3, <2>1, <2>2, <2>3 DEF TunnelThread
<1>4. ASSUME NEW s \in Seats, NEW p \in Seats, p = Peer(s), MainThread(s)
      PROVE  Moves(s, p) /\ RowInv'
  <2>1. Works(s, p)
    BY <1>4, PumpWorks, OtherWorks DEF MainThread, Pump
  <2> QED
    BY <1>2, <1>4, <2>1
<1>5. ASSUME NEW s \in Seats, NEW p \in Seats, p = Peer(s), RelayServes(s) \/ HandlerLost(s)
      PROVE  Moves(s, p) /\ RowInv'
  <2>1. UNCHANGED <<clientVars, bridgeVars>>
    BY <1>5 DEF RelayServes, HandlerLost
  <2>2. Take(s) \/ Process(s) \/ Reject(s) \/ RevokedEnds(s) \/ Reset(s)
    BY <1>5 DEF RelayServes, RelayStep, HandlerLost
  <2>3. CASE Take(s)
    <3>1. UNCHANGED clientVars
      BY <2>1
    <3> QED
      BY <1>5, <2>1, <2>3, <3>1, TakeRow, RelayServesIs DEF Moves
  <2>4. CASE Process(s)
    <3>1. UNCHANGED clientVars
      BY <2>1
    <3> QED
      BY <1>5, <2>1, <2>4, <3>1, ProcessRow, RelayServesIs DEF Moves
  <2>5. CASE Reject(s) \/ RevokedEnds(s) \/ Reset(s)
    <3>1. PICK close : Ends(s, p, close)
      BY <1>5, <2>1, <2>5, HandlerEnds
    <3> QED
      BY <1>5, <3>1, EndsRow DEF Moves
  <2> QED
    BY <2>2, <2>3, <2>4, <2>5
<1>6. ASSUME NEW s \in Seats, NEW p \in Seats, p = Peer(s),
             SendRfu(s) \/ ReplayLost(s) \/ Expires(s) \/ UNCHANGED tunnelVars
      PROVE  Moves(s, p) /\ RowInv'
  BY <1>2, <1>6, OtherWorks
<1>7. "A" \in Seats /\ \A s \in Seats : Peer(s) \in Seats
  BY PeerIsOther DEF Seats
<1>8. CASE UNCHANGED tunnelVars
  BY <1>6, <1>7, <1>8
<1>9. CASE \E s \in Seats : TunnelThread(s) \/ MainThread(s) \/ SendRfu(s) \/ RelayServes(s)
                            \/ ReplayLost(s) \/ Expires(s) \/ ClientLost(s) \/ HandlerLost(s)
  <2>1. PICK s \in Seats : TunnelThread(s) \/ MainThread(s) \/ SendRfu(s) \/ RelayServes(s)
                            \/ ReplayLost(s) \/ Expires(s) \/ ClientLost(s) \/ HandlerLost(s)
    BY <1>9
  <2>2. PICK p \in Seats : p = Peer(s)
    BY <1>7
  <2> QED
    BY <1>1, <1>3, <1>4, <1>5, <1>6, <2>1, <2>2
<1> QED
  BY <1>8, <1>9 DEF SessionNext

LEMMA RowStart == SessionInit => RowInv
<1> SUFFICES ASSUME SessionInit, NEW p \in Seats PROVE RowOf(p)
  BY DEF RowInv
<1>1. Peer(p) \in Seats
  BY PeerIsOther
<1>2. /\ up[p] = <<>> /\ pending[p] = NoFrame /\ retained[p] = <<>> /\ down[Peer(p)] = <<>>
  BY <1>1 DEF SessionInit, RelayInit, Each
<1>3. gates[p] = NewGate /\ client[Peer(p)] = NewClient
  BY <1>1 DEF SessionInit, RelayInit, Each
<1>4. NewGate.epoch = 0
  BY DEF NewGate
<1>5. NewClient.gate.epoch = 0
  BY <1>4 DEF NewClient
<1>6. gates[p].epoch = 0 /\ client[Peer(p)].gate.epoch = 0
  BY <1>3, <1>4, <1>5
<1> QED
  BY <1>2, <1>6, AscendingEmpty, ElemsOfEmpty DEF RowOf, Row

-----------------------------------------------------------------------------
(* What two clients make of each other's epochs.  While both are registered  *)
(* and each has heard of the other's epoch they stay in step: every frame    *)
(* on its way to a client is then of the epoch it has heard of.               *)

Out(p) == Elems(up[p]) \cup ({pending[p]} \ {NoFrame})
In(s) == Elems(down[s])
Box(s) == Elems(inbox[s])

IsReady(f) == f.kind = "SIDE_READY"

\* A challenge of epoch e, and the answer to it.
Asks(f, e) == \E m \in Nat : f.body = <<e, m>>

Reply(s, f) == f.kind = "PROBE_RESPONSE" /\ Asks(f, client[s].epoch)

\* A challenge is of its sender's epochs, an answer of the receiver's.
ProbeOf(s, p) ==
  /\ \/ client[s].challenge = NoChallenge
     \/ client[s].challenge = <<client[s].epoch, client[s].gate.epoch>>
  /\ \A f \in Out(p) \cup In(s) :
       /\ f.kind = "PROBE_CHALLENGE" => \E e \in Nat : Asks(f, e) /\ e <= f.epoch
       /\ f.kind = "PROBE_RESPONSE" => \E e \in Nat : Asks(f, e) /\ e <= client[s].epoch

Paired(s, p) ==
  /\ peers[s] /\ peers[p]
  /\ client[s].gate.epoch = client[p].epoch /\ client[p].gate.epoch = client[s].epoch

\* Registered alone: nothing of the peer but what was retained.
SoloOf(s, p) ==
  peers[s] /\ ~peers[p] =>
    /\ pending[p] = NoFrame /\ ~client[s].returned
    /\ \A f \in In(s) : f.kind \in Retainable
    /\ \A f \in In(p) : f.epoch < client[s].epoch
    /\ client[p].gate.epoch < client[s].epoch

ReplyOf(s, p) ==
  peers[s] => \A f \in Out(p) \cup In(s) :
    Reply(s, f) => /\ peers[p] /\ client[p].epoch = f.epoch
                   /\ client[p].gate.epoch = client[s].epoch

\* Who was answered, or sends or receives readiness, is in step with its peer.
ReadyOf(s, p) ==
  /\ peers[s] /\ client[s].returned => Paired(s, p)
  /\ peers[s] => \A f \in Out(s) \cup In(s) \cup Box(s) : IsReady(f) => Paired(s, p)

\* The same of a client the relay has reset already: what it has still to read.
LeftIn(s) ==
  client[s].up =>
    /\ client[s].returned => \A f \in In(s) : f.epoch = client[s].gate.epoch
    /\ \A g \in In(s) \cup Box(s) : IsReady(g) => \A f \in In(s) : f.epoch = client[s].gate.epoch
    /\ \A f \in In(s) : Reply(s, f) => \A g \in In(s) : g.epoch <= f.epoch

LeftBox(s) ==
  client[s].up =>
    /\ outbox[s] # <<>> => client[s].proven
    /\ \A f \in Box(s) : IsReady(f) => f.epoch = client[s].gate.epoch

TalkOf(s, p) == ProbeOf(s, p) /\ SoloOf(s, p) /\ ReplyOf(s, p) /\ ReadyOf(s, p) /\ LeftIn(s) /\ LeftBox(s)

TalkInv == \A s \in Seats : TalkOf(s, Peer(s))

LEMMA Between ==
  ASSUME TypeInv, RowInv, AnswerInv, NEW s \in Seats, NEW p \in Seats, p = Peer(s), NEW f \in In(s)
  PROVE  /\ f \in Frames /\ f.epoch \in Nat /\ f.epoch <= client[p].epoch
         /\ client[s].up => client[s].gate.epoch <= f.epoch
<1>0. Peer(p) = s
  BY PeerIsOther
<1>1. f \in Frames /\ f.epoch \in Nat
  BY RowTypes, ElemsAreElements DEF In, Frames
<1>2. f \in SentBy(p)
  BY <1>0, PartsAreSent DEF In
<1>3. f.epoch <= client[p].epoch
  BY <1>2 DEF AnswerInv, AnswerOf, FromEpoch
<1>4. client[s].up => client[s].gate.epoch <= f.epoch
  BY <1>0 DEF RowInv, RowOf, Row, In
<1> QED
  BY <1>1, <1>3, <1>4

LEMMA BetweenNext ==
  ASSUME TypeInv', RowInv', AnswerInv', NEW s \in Seats, NEW p \in Seats, p = Peer(s), NEW f \in In(s)'
  PROVE  /\ f \in Frames /\ f.epoch \in Nat /\ f.epoch <= client'[p].epoch
         /\ client'[s].up => client'[s].gate.epoch <= f.epoch
<1>0. Peer(p) = s
  BY PeerIsOther
<1>1. down'[s] \in Seq(Frames)
  BY DEF TypeInv, RelayInv, RelayShape
<1>2. In(s)' = Elems(down'[s])
  BY DEF In, Elems
<1>3. f \in Frames
  BY <1>1, <1>2, ElemsAreElements
<1>7. f.epoch \in Nat
  BY <1>3, FrameFields
<1>4. f \in SentBy(p)'
  BY <1>0, <1>2 DEF SentBy, Elems
<1>5. f.epoch <= client'[p].epoch
  BY <1>4 DEF AnswerInv, AnswerOf, FromEpoch
<1>6. client'[s].up => client'[s].gate.epoch <= f.epoch
  BY <1>0, <1>2 DEF RowInv, RowOf, Row, Elems
<1> QED
  BY <1>3, <1>7, <1>5, <1>6

LEMMA ProbeStays ==
  ASSUME NEW s \in Seats, NEW p \in Seats, ProbeOf(s, p),
         client'[s].epoch = client[s].epoch, client'[s].gate.epoch = client[s].gate.epoch,
         client'[s].challenge = client[s].challenge,
         \A f \in Out(p)' \cup In(s)' : \/ f \in Out(p) \cup In(s)
                                        \/ f.kind \notin {"PROBE_CHALLENGE", "PROBE_RESPONSE"}
  PROVE  ProbeOf(s, p)'
BY DEF ProbeOf, Asks

LEMMA SoloStays ==
  ASSUME TypeInv, TypeInv', NEW s \in Seats, NEW p \in Seats, SoloOf(s, p),
         peers'[s] /\ ~peers'[p] =>
           /\ peers[s] /\ ~peers[p] /\ (pending'[p] = pending[p] \/ pending'[p] = NoFrame)
           /\ client'[s].returned => client[s].returned \/ \E f \in In(s) : f.kind \notin Retainable
           /\ In(s)' \subseteq In(s) /\ In(p)' \subseteq In(p)
           /\ client[s].epoch <= client'[s].epoch
           /\ \/ client'[p].gate.epoch = client[p].gate.epoch
              \/ \E f \in In(p) : client'[p].gate.epoch = f.epoch
  PROVE  SoloOf(s, p)'
<1> SUFFICES ASSUME peers'[s], ~peers'[p]
             PROVE  /\ pending'[p] = NoFrame /\ ~client'[s].returned
                    /\ \A f \in In(s)' : f.kind \in Retainable
                    /\ \A f \in In(p)' : f.epoch < client'[s].epoch
                    /\ client'[p].gate.epoch < client'[s].epoch
  BY DEF SoloOf
<1>1. /\ pending[p] = NoFrame /\ ~client[s].returned
      /\ \A f \in In(s) : f.kind \in Retainable
      /\ \A f \in In(p) : f.epoch < client[s].epoch
      /\ client[p].gate.epoch < client[s].epoch
  BY DEF SoloOf
<1>2. /\ client[s].epoch \in Nat /\ client'[s].epoch \in Nat /\ client[p].gate.epoch \in Nat
      /\ \A f \in In(p) : f.epoch \in Nat
  <2>1. client[s].epoch \in Nat /\ client[p].gate.epoch \in Nat /\ client'[s].epoch \in Nat
    BY RowTypes DEF TypeInv, ClientShape, Clients
  <2>2. \A f \in In(p) : f \in Frames
    BY RowTypes, ElemsAreElements DEF In
  <2> QED
    BY <2>1, <2>2, FrameFields
<1>3. \A f \in In(p) : f.epoch < client'[s].epoch
  BY <1>1, <1>2
<1>4. client'[p].gate.epoch < client'[s].epoch
  BY <1>1, <1>2, <1>3
<1> QED
  BY <1>1, <1>3, <1>4

LEMMA ReplyStays ==
  ASSUME TypeInv, TypeInv', NEW s \in Seats, NEW p \in Seats, ProbeOf(s, p), ReplyOf(s, p),
         peers'[s] =>
           /\ \A f \in Out(p)' \cup In(s)' :
                \/ f \in Out(p) \cup In(s)
                \/ f.kind # "PROBE_RESPONSE"
                \/ Reply(s, f)' => /\ peers'[p] /\ client'[p].epoch = f.epoch
                                   /\ client'[p].gate.epoch = client'[s].epoch
           /\ \/ client[s].epoch < client'[s].epoch
              \/ /\ peers[s] /\ client'[s].epoch = client[s].epoch
                 /\ peers[p] /\ client[p].gate.epoch = client[s].epoch =>
                      /\ peers'[p] /\ client'[p].epoch = client[p].epoch
                      /\ client'[p].gate.epoch = client[p].gate.epoch
  PROVE  ReplyOf(s, p)'
<1> SUFFICES ASSUME peers'[s], NEW f \in Out(p)' \cup In(s)', Reply(s, f)'
             PROVE  /\ peers'[p] /\ client'[p].epoch = f.epoch
                    /\ client'[p].gate.epoch = client'[s].epoch
  BY DEF ReplyOf
<1>1. f.kind = "PROBE_RESPONSE" /\ Asks(f, client'[s].epoch)
  BY DEF Reply, Asks
<1>2. client[s].epoch \in Nat /\ client'[s].epoch \in Nat
  BY DEF TypeInv, ClientShape, Clients
<1>3. CASE f \in Out(p) \cup In(s)
  <2>1. PICK e \in Nat : Asks(f, e) /\ e <= client[s].epoch
    BY <1>1, <1>3 DEF ProbeOf
  <2>2. e = client'[s].epoch
    BY <1>1, <2>1 DEF Asks
  <2>3. ~(client[s].epoch < client'[s].epoch)
    BY <1>2, <2>1, <2>2
  <2>4. peers[s] /\ client'[s].epoch = client[s].epoch
    BY <2>3
  <2>5. Reply(s, f)
    BY <1>1, <2>4 DEF Reply
  <2> QED
    BY <1>3, <2>3, <2>4, <2>5 DEF ReplyOf
<1> QED
  BY <1>1, <1>3

LEMMA ReadyStays ==
  ASSUME NEW s \in Seats, NEW p \in Seats, ReadyOf(s, p),
         peers'[s] /\ Paired(s, p) => Paired(s, p)',
         peers'[s] /\ client'[s].returned => (peers[s] /\ client[s].returned) \/ Paired(s, p)',
         peers'[s] => \A f \in Out(s)' \cup In(s)' \cup Box(s)' :
           IsReady(f) => (peers[s] /\ f \in Out(s) \cup In(s) \cup Box(s)) \/ Paired(s, p)'
  PROVE  ReadyOf(s, p)'
BY DEF ReadyOf, IsReady

\* All a client can read while it is registered and in step is of one epoch.
LEMMA SeatedIn ==
  ASSUME TypeInv', RowInv', AnswerInv', NEW s \in Seats, NEW p \in Seats, p = Peer(s),
         peers'[s], ReplyOf(s, p)', ReadyOf(s, p)'
  PROVE  LeftIn(s)'
<1> SUFFICES ASSUME client'[s].up PROVE LeftIn(s)'
  BY DEF LeftIn
<1>1. ASSUME Paired(s, p)', NEW f \in In(s)' PROVE f.epoch = client'[s].gate.epoch
  <2>1. client'[s].gate.epoch \in Nat /\ client'[s].gate.epoch = client'[p].epoch
    BY <1>1 DEF Paired, TypeInv, ClientShape, Clients, GateSet
  <2>2. f.epoch \in Nat /\ f.epoch <= client'[p].epoch /\ client'[s].gate.epoch <= f.epoch
    BY <1>1, BetweenNext
  <2> QED
    BY <2>1, <2>2
<1>2. client'[s].returned => Paired(s, p)'
  BY DEF ReadyOf
<1>3. \A g \in In(s)' \cup Box(s)' : IsReady(g) => Paired(s, p)'
  BY DEF ReadyOf, IsReady
<1>4. \A f \in In(s)' : Reply(s, f)' => \A g \in In(s)' : g.epoch <= f.epoch
  <2> TAKE f \in In(s)'
  <2> HAVE Reply(s, f)'
  <2>1. client'[p].epoch = f.epoch
    BY DEF ReplyOf
  <2> QED
    BY <2>1, BetweenNext
<1> QED
  BY <1>1, <1>2, <1>3, <1>4 DEF LeftIn, IsReady, Reply, Asks

LEMMA LeftStays ==
  ASSUME TypeInv, TypeInv', RowInv', AnswerInv', NEW s \in Seats, NEW p \in Seats, p = Peer(s),
         LeftIn(s), ReplyOf(s, p), ReadyOf(s, p),
         client'[s].up => client[s].up, client'[p].epoch = client[p].epoch,
         client'[s].epoch = client[s].epoch, client'[s].gate.epoch = client[s].gate.epoch,
         client'[s].returned = client[s].returned, Box(s)' \subseteq Box(s),
         \A f \in In(s)' : f \in In(s) \/ (f.kind = "PEER_CLOSE" /\ peers[s])
  PROVE  LeftIn(s)'
<1> SUFFICES ASSUME client'[s].up PROVE LeftIn(s)'
  BY DEF LeftIn
<1>0. client[s].up
  OBVIOUS
<1>1. CASE peers[s]
  <2>1. ASSUME Paired(s, p), NEW f \in In(s)' PROVE f.epoch = client'[s].gate.epoch
    <3>1. client'[s].gate.epoch \in Nat /\ client'[s].gate.epoch = client'[p].epoch
      BY <2>1 DEF Paired, TypeInv, ClientShape, Clients, GateSet
    <3>2. f.epoch \in Nat /\ f.epoch <= client'[p].epoch /\ client'[s].gate.epoch <= f.epoch
      BY <2>1, BetweenNext
    <3> QED
      BY <3>1, <3>2
  <2>2. client'[s].returned => Paired(s, p)
    BY <1>1 DEF ReadyOf
  <2>3. \A g \in In(s)' \cup Box(s)' : IsReady(g) => Paired(s, p)
    BY <1>1 DEF ReadyOf, IsReady
  <2>4. \A f \in In(s)' : Reply(s, f)' => \A g \in In(s)' : g.epoch <= f.epoch
    <3> TAKE f \in In(s)'
    <3> HAVE Reply(s, f)'
    <3>1. Reply(s, f)
      BY DEF Reply, Asks
    <3>2. f \in In(s)
      BY <3>1 DEF Reply
    <3>3. client[p].epoch = f.epoch
      BY <1>1, <3>1, <3>2 DEF ReplyOf
    <3> QED
      BY <3>3, BetweenNext
  <2> QED
    BY <2>1, <2>2, <2>3, <2>4 DEF LeftIn, IsReady, Reply, Asks
<1>2. CASE ~peers[s]
  <2>1. In(s)' \subseteq In(s)
    BY <1>2
  <2> QED
    BY <1>0, <2>1 DEF LeftIn, IsReady, Reply, Asks
<1> QED
  BY <1>1, <1>2

LEMMA BoxStays ==
  ASSUME NEW s \in Seats, LeftBox(s),
         client'[s].up => /\ client[s].up /\ client'[s].proven = client[s].proven
                          /\ client'[s].gate.epoch = client[s].gate.epoch,
         outbox'[s] = outbox[s] \/ client[s].proven \/ outbox[s] # <<>>, Box(s)' \subseteq Box(s)
  PROVE  LeftBox(s)'
BY DEF LeftBox, IsReady

\* A step that leaves both clients' epochs alone.
Calm(s, p) ==
  /\ peers' = peers \/ peers' = Each(FALSE)
  /\ \A y \in {s, p} :
       LET c == client[y] n == client'[y] IN
       /\ n.epoch = c.epoch /\ n.gate.epoch = c.gate.epoch /\ n.returned = c.returned
       /\ n.challenge = c.challenge /\ (n.up => c.up /\ n.proven = c.proven)

LEMMA CalmPair ==
  ASSUME NEW s \in Seats, NEW p \in Seats, Calm(s, p)
  PROVE  /\ \A y \in Seats : peers'[y] => peers' = peers
         /\ peers'[s] /\ Paired(s, p) => Paired(s, p)'
<1>1. \A y \in Seats : peers'[y] => peers' = peers
  BY DEF Calm, Each
<1> QED
  BY <1>1 DEF Calm, Paired

LEMMA CalmTalk ==
  ASSUME TypeInv, TypeInv', RowInv', AnswerInv', NEW s \in Seats, NEW p \in Seats, p = Peer(s), TalkOf(s, p),
         Calm(s, p), pending'[p] = pending[p] \/ pending'[p] = NoFrame \/ peers[p],
         \A f \in Out(p)' \cup In(s)' : \/ f \in Out(p) \cup In(s)
                                        \/ f.kind \notin {"PROBE_CHALLENGE", "PROBE_RESPONSE"},
         peers'[s] /\ ~peers[p] => In(s)' \subseteq In(s) /\ In(p)' \subseteq In(p),
         peers'[s] => \A f \in Out(s)' \cup In(s)' :
           IsReady(f) => f \in Out(s) \cup In(s) \cup Box(s) \/ Paired(s, p),
         Box(s)' \subseteq Box(s), outbox'[s] = outbox[s] \/ client[s].proven \/ outbox[s] # <<>>,
         ~peers'[s] => \A f \in In(s)' : f \in In(s) \/ (f.kind = "PEER_CLOSE" /\ peers[s])
  PROVE  TalkOf(s, p)'
<1>1. /\ peers'[s] \/ peers'[p] => peers' = peers
      /\ peers'[s] /\ Paired(s, p) => Paired(s, p)'
  BY CalmPair
<1>2. /\ client'[s].epoch = client[s].epoch /\ client'[s].gate.epoch = client[s].gate.epoch
      /\ client'[s].returned = client[s].returned /\ client'[s].challenge = client[s].challenge
      /\ client'[s].up => client[s].up /\ client'[s].proven = client[s].proven
      /\ client'[p].epoch = client[p].epoch /\ client'[p].gate.epoch = client[p].gate.epoch
  BY DEF Calm
<1>3. ProbeOf(s, p) /\ SoloOf(s, p) /\ ReplyOf(s, p) /\ ReadyOf(s, p) /\ LeftIn(s) /\ LeftBox(s)
  BY DEF TalkOf
<1>4. ProbeOf(s, p)'
  BY <1>2, <1>3, ProbeStays
<1>5. SoloOf(s, p)'
  <2>1. client[s].epoch <= client'[s].epoch
    BY <1>2, RowTypes
  <2> QED
    BY <1>1, <1>2, <1>3, <2>1, SoloStays
<1>6. ReplyOf(s, p)'
  BY <1>1, <1>2, <1>3, ReplyStays
<1>7. ReadyOf(s, p)'
  <2>1. peers'[s] => \A f \in Out(s)' \cup In(s)' \cup Box(s)' :
           IsReady(f) => (peers[s] /\ f \in Out(s) \cup In(s) \cup Box(s)) \/ Paired(s, p)'
    BY <1>1
  <2>2. peers'[s] /\ client'[s].returned => peers[s] /\ client[s].returned
    BY <1>1, <1>2
  <2> QED
    BY <1>1, <1>3, <2>1, <2>2, ReadyStays
<1>8. LeftIn(s)'
  <2>1. CASE peers'[s]
    BY <1>6, <1>7, <2>1, SeatedIn
  <2>2. CASE ~peers'[s]
    BY <1>2, <1>3, <2>2, LeftStays
  <2> QED
    BY <2>1, <2>2
<1>9. LeftBox(s)'
  BY <1>2, <1>3, BoxStays
<1> QED
  BY <1>4, <1>5, <1>6, <1>7, <1>8, <1>9 DEF TalkOf

\* The sets after a step.
LEMMA SetsNext ==
  \A y \in Seats : /\ Out(y)' = Elems(up'[y]) \cup ({pending'[y]} \ {NoFrame})
                   /\ In(y)' = Elems(down'[y]) /\ Box(y)' = Elems(inbox'[y])
BY DEF Out, In, Box, Elems

\* Nothing new but frames the relay's handler closes the peer with.
LEMMA FadingTalk ==
  ASSUME TypeInv, TypeInv', RowInv', AnswerInv', NEW s \in Seats, NEW p \in Seats, p = Peer(s), TalkOf(s, p),
         Calm(s, p), pending'[p] = pending[p] \/ pending'[p] = NoFrame \/ peers[p],
         Out(s)' \subseteq Out(s), Out(p)' \subseteq Out(p), Box(s)' \subseteq Box(s),
         outbox'[s] = outbox[s] \/ client[s].proven \/ outbox[s] # <<>>,
         In(s)' \subseteq In(s) \/
           (peers' = Each(FALSE) /\ \A f \in In(s)' : f \in In(s) \/ (f.kind = "PEER_CLOSE" /\ peers[s])),
         In(p)' \subseteq In(p) \/ peers' = Each(FALSE)
  PROVE  TalkOf(s, p)'
<1>1. peers' = Each(FALSE) => ~peers'[s]
  BY DEF Each
<1>2. \A f \in Out(p)' \cup In(s)' : \/ f \in Out(p) \cup In(s)
                                     \/ f.kind \notin {"PROBE_CHALLENGE", "PROBE_RESPONSE"}
  OBVIOUS
<1>3. peers'[s] => In(s)' \subseteq In(s) /\ In(p)' \subseteq In(p)
  BY <1>1
<1>4. ~peers'[s] => \A f \in In(s)' : f \in In(s) \/ (f.kind = "PEER_CLOSE" /\ peers[s])
  OBVIOUS
<1>5. peers'[s] => \A f \in Out(s)' \cup In(s)' : f \in Out(s) \cup In(s) \cup Box(s)
  BY <1>3
<1> QED
  BY <1>2, <1>3, <1>4, <1>5, CalmTalk

LEMMA DropsTalk ==
  ASSUME TypeInv, TypeInv', RowInv', AnswerInv', NEW s \in Seats, NEW p \in Seats, p = Peer(s),
         TalkOf(s, p), TalkOf(p, s), Drops(s, p)
  PROVE  TalkOf(s, p)' /\ TalkOf(p, s)'
<1>0. Peer(p) = s
  BY PeerIsOther
<1>1. Calm(s, p) /\ Calm(p, s)
  BY DEF Calm, Drops
<1>2. /\ Out(s)' = Out(s) /\ Out(p)' = Out(p) /\ Box(s)' = Box(s) /\ Box(p)' = Box(p)
      /\ In(s)' = {} /\ In(p)' = In(p)
  BY SetsNext, ElemsOfEmpty DEF Drops, Out, In, Box
<1>3. pending' = pending /\ outbox' = outbox
  BY DEF Drops
<1> QED
  BY <1>0, <1>1, <1>2, <1>3, FadingTalk

LEMMA WorksTalk ==
  ASSUME TypeInv, TypeInv', RowInv', AnswerInv', NEW s \in Seats, NEW p \in Seats, p = Peer(s),
         TalkOf(s, p), TalkOf(p, s), Works(s, p)
  PROVE  TalkOf(s, p)' /\ TalkOf(p, s)'
<1>0. Peer(p) = s
  BY PeerIsOther
<1>1. Calm(s, p) /\ Calm(p, s)
  BY DEF Calm, Works, SameProof
<1>2. /\ Out(s)' = Out(s) /\ Out(p)' = Out(p) /\ Box(s)' \subseteq Box(s) /\ Box(p)' = Box(p)
      /\ In(s)' = In(s) /\ In(p)' = In(p)
  BY SetsNext, ElemsOfEmpty DEF Works, Out, In, Box
<1>3. pending' = pending /\ outbox'[p] = outbox[p] /\ (outbox'[s] = outbox[s] \/ client[s].proven)
  BY DEF Works
<1> QED
  BY <1>0, <1>1, <1>2, <1>3, FadingTalk

LEMMA TakesTalk ==
  ASSUME TypeInv, TypeInv', RowInv', AnswerInv', NEW s \in Seats, NEW p \in Seats, p = Peer(s),
         TalkOf(s, p), TalkOf(p, s), Takes(s, p)
  PROVE  TalkOf(s, p)' /\ TalkOf(p, s)'
<1>0. Peer(p) = s
  BY PeerIsOther
<1>1. Calm(s, p) /\ Calm(p, s)
  BY DEF Calm, Takes
<1>2. Head(up[s]) \in Elems(up[s]) /\ Elems(Tail(up[s])) \subseteq Elems(up[s])
  BY RowTypes, ElemsOfTail DEF Takes
<1>3. /\ Out(s)' \subseteq Out(s) /\ Out(p)' = Out(p) /\ Box(s)' = Box(s) /\ Box(p)' = Box(p)
      /\ In(s)' = In(s) /\ In(p)' = In(p)
  BY <1>2, SetsNext DEF Takes, Out, In, Box
<1>4. peers[s] /\ pending'[p] = pending[p] /\ outbox' = outbox
  BY DEF Takes
<1> QED
  BY <1>0, <1>1, <1>3, <1>4, FadingTalk

LEMMA EndsTalk ==
  ASSUME TypeInv, TypeInv', RowInv', AnswerInv', NEW s \in Seats, NEW p \in Seats, p = Peer(s),
         TalkOf(s, p), TalkOf(p, s), NEW close, Ends(s, p, close)
  PROVE  TalkOf(s, p)' /\ TalkOf(p, s)'
<1>0. Peer(p) = s
  BY PeerIsOther
<1>1. Calm(s, p) /\ Calm(p, s)
  BY DEF Calm, Ends
<1>2. /\ Out(s)' \subseteq Out(s) /\ Out(p)' = Out(p) /\ Box(s)' = Box(s) /\ Box(p)' = Box(p)
      /\ In(s)' = In(s)
  BY SetsNext, ElemsOfEmpty DEF Ends, Out, In, Box
<1>3. /\ pending'[p] = pending[p] /\ (pending'[s] = pending[s] \/ pending'[s] = NoFrame) /\ outbox' = outbox
  BY DEF Ends
<1>4. In(p)' \subseteq In(p) \/
        (peers' = Each(FALSE) /\ \A f \in In(p)' : f \in In(p) \/ (f.kind = "PEER_CLOSE" /\ peers[p]))
  <2>1. CASE down'[p] = down[p]
    BY <2>1, SetsNext DEF In
  <2>2. CASE down'[p] # down[p]
    <3>1. /\ peers[p] /\ peers' = Each(FALSE) /\ down'[p] = Append(down[p], close)
          /\ close \in Frames /\ close.kind = "PEER_CLOSE"
      BY <2>2 DEF Ends
    <3>2. In(p)' = In(p) \cup {close}
      BY <3>1, RowTypes, ElemsOfAppend, SetsNext DEF In
    <3> QED
      BY <3>1, <3>2
  <2> QED
    BY <2>1, <2>2
<1>5. In(p)' \subseteq In(p) \/ peers' = Each(FALSE)
  BY <1>4
<1>6. TalkOf(s, p)'
  BY <1>1, <1>2, <1>3, <1>5, FadingTalk
<1>7. TalkOf(p, s)'
  BY <1>0, <1>1, <1>2, <1>3, <1>4, FadingTalk
<1> QED
  BY <1>6, <1>7

\* A proven client was answered.
LEMMA ProvenReturned ==
  ASSUME AnswerInv, NEW s \in Seats, client[s].proven
  PROVE  client[s].returned
<1>1. PICK p \in Seats : Peer(p) = s
  BY PeerIsOther
<1> QED
  BY <1>1 DEF AnswerInv, AnswerOf, HeardFrom

LEMMA PairedSides ==
  ASSUME NEW s \in Seats, NEW p \in Seats
  PROVE  Paired(s, p) <=> Paired(p, s)
BY DEF Paired

LEMMA SendsTalk ==
  ASSUME TypeInv, TypeInv', RowInv', AnswerInv, AnswerInv', NEW s \in Seats, NEW p \in Seats, p = Peer(s),
         TalkOf(s, p), TalkOf(p, s), NEW h, NEW q, Sends(s, p, h, q)
  PROVE  TalkOf(s, p)' /\ TalkOf(p, s)'
<1>0. Peer(p) = s
  BY PeerIsOther
<1>1. Calm(s, p) /\ Calm(p, s)
  BY DEF Calm, Sends, SameConnection, SameProof
<1>2. up[s] \in Seq(Frames) /\ q \in Seq(Frames) /\ up'[s] = up[s] \o q /\ pending' = pending
  BY RowTypes DEF Sends
<1>3. Out(s)' = Out(s) \cup Elems(q)
  BY <1>2, ElemsOfConcat, SetsNext DEF Out
<1>4. /\ Out(p)' = Out(p) /\ Box(s)' = Box(s) /\ Box(p)' = Box(p)
      /\ In(s)' = In(s) /\ In(p)' = In(p)
  BY SetsNext DEF Sends, Out, In, Box
<1>5. \A f \in Elems(q) : f.kind \notin {"PROBE_CHALLENGE", "PROBE_RESPONSE"}
  <2>1. h.kind \notin Protocol
    BY DEF AnswerInv, AnswerOf, Sends
  <2> QED
    BY <2>1 DEF Sends, Protocol
<1>6. peers'[s] => Paired(s, p)
  <2>1. client[s].up /\ outbox[s] # <<>> /\ peers' = peers
    BY DEF Sends
  <2>2. client[s].proven
    BY <2>1 DEF TalkOf, LeftBox
  <2>3. client[s].returned
    BY <2>2, ProvenReturned
  <2> QED
    BY <2>1, <2>3 DEF TalkOf, ReadyOf
<1>7. outbox[s] # <<>> /\ outbox'[p] = outbox[p]
  BY DEF Sends
<1>8. TalkOf(s, p)'
  BY <1>1, <1>2, <1>3, <1>4, <1>6, <1>7, CalmTalk
<1>9. TalkOf(p, s)'
  <2>1. \A f \in Out(s)' \cup In(p)' : \/ f \in Out(s) \cup In(p)
                                       \/ f.kind \notin {"PROBE_CHALLENGE", "PROBE_RESPONSE"}
    BY <1>3, <1>4, <1>5
  <2> QED
    BY <1>0, <1>1, <1>2, <1>4, <1>7, <2>1, CalmTalk
<1> QED
  BY <1>8, <1>9

LEMMA ForwardsTalk ==
  ASSUME TypeInv, TypeInv', RowInv', AnswerInv', NEW s \in Seats, NEW p \in Seats, p = Peer(s),
         TalkOf(s, p), TalkOf(p, s), Forwards(s, p)
  PROVE  TalkOf(s, p)' /\ TalkOf(p, s)'
<1> DEFINE x == pending[s]
<1>0. Peer(p) = s
  BY PeerIsOther
<1>1. Calm(s, p) /\ Calm(p, s)
  BY DEF Calm, Forwards
<1>2. /\ x # NoFrame /\ pending'[s] = NoFrame /\ pending'[p] = pending[p] /\ outbox' = outbox /\ peers' = peers
      /\ down[p] \in Seq(Frames) /\ x \in Frames
      /\ down'[p] = IF peers[p] THEN Append(down[p], x) ELSE down[p]
  BY RowTypes DEF Forwards
<1>3. /\ Out(s)' \subseteq Out(s) /\ Out(p)' = Out(p) /\ Box(s)' = Box(s) /\ Box(p)' = Box(p)
      /\ In(s)' = In(s) /\ x \in Out(s)
  BY <1>2, SetsNext DEF Forwards, Out, In, Box
<1> HIDE DEF x
<1>4. In(p)' = IF peers[p] THEN In(p) \cup {x} ELSE In(p)
  <2>1. Elems(Append(down[p], x)) = Elems(down[p]) \cup {x}
    BY <1>2, ElemsOfAppend
  <2>2. In(p)' = Elems(down'[p])
    BY SetsNext
  <2> QED
    BY <1>2, <2>1, <2>2 DEF In
<1>5. TalkOf(s, p)'
  <2>1. \A f \in Out(p)' \cup In(s)' : f \in Out(p) \cup In(s)
    BY <1>3
  <2>2. peers'[s] /\ ~peers[p] => In(s)' \subseteq In(s) /\ In(p)' \subseteq In(p)
    BY <1>3, <1>4
  <2>3. \A f \in Out(s)' \cup In(s)' : f \in Out(s) \cup In(s) \cup Box(s)
    BY <1>3
  <2> QED
    BY <1>1, <1>2, <1>3, <2>1, <2>2, <2>3, CalmTalk
<1>6. peers[p] => peers[s]
  BY <1>2 DEF TalkOf, SoloOf, x
<1>7. TalkOf(p, s)'
  <2>1. \A f \in Out(s)' \cup In(p)' : f \in Out(s) \cup In(p)
    BY <1>3, <1>4
  <2>2. peers'[p] /\ ~peers[s] => In(p)' \subseteq In(p) /\ In(s)' \subseteq In(s)
    BY <1>2, <1>6
  <2>3. peers'[p] => \A f \in Out(p)' \cup In(p)' : IsReady(f) => f \in Out(p) \cup In(p) \cup Box(p) \/ Paired(p, s)
    <3>1. peers[p] /\ IsReady(x) => Paired(s, p)
      BY <1>3, <1>6 DEF TalkOf, ReadyOf
    <3> QED
      BY <1>2, <1>3, <1>4, <3>1, PairedSides
  <2>4. ~peers'[p] => \A f \in In(p)' : f \in In(p)
    BY <1>2, <1>4
  <2> QED
    BY <1>0, <1>1, <1>2, <1>3, <2>1, <2>2, <2>3, <2>4, CalmTalk
<1> QED
  BY <1>5, <1>7

\* A client whose own state does not change, nor what it receives.
LEMMA IdleLeft ==
  ASSUME NEW s \in Seats, LeftIn(s), LeftBox(s), client'[s] = client[s], outbox'[s] = outbox[s],
         In(s)' = In(s), Box(s)' = Box(s)
  PROVE  LeftIn(s)' /\ LeftBox(s)'
BY DEF LeftIn, LeftBox, IsReady, Reply, Asks

LEMMA ConnectsTalk ==
  ASSUME TypeInv, TypeInv', RowInv, RowInv', AnswerInv, AnswerInv', NEW s \in Seats, NEW p \in Seats,
         p = Peer(s), TalkOf(s, p), TalkOf(p, s), NEW first, Connects(s, p, first)
  PROVE  TalkOf(s, p)' /\ TalkOf(p, s)'
<1> DEFINE c == client[s] n == client'[s]
<1>0. Peer(p) = s /\ p # s
  BY PeerIsOther
<1>1. /\ ~peers[s] /\ peers'[s] /\ peers'[p] = peers[p] /\ pending[s] = NoFrame /\ pending' = pending
      /\ ~peers[p] => pending[p] = NoFrame
  BY <1>0 DEF Connects, TypeInv, RelayInv, RelayTypeOK
<1>2. /\ n.epoch = c.epoch + 1 /\ n.challenge = NoChallenge /\ ~n.returned /\ ~n.proven
      /\ client'[p] = client[p] /\ outbox'[p] = outbox[p] /\ outbox'[s] = <<>>
  BY DEF Connects
<1>3. c.epoch \in Nat /\ n.epoch \in Nat /\ c.epoch < n.epoch /\ client[p].gate.epoch <= c.epoch
      /\ client[p].gate.epoch \in Nat
  <2>1. client[p].gate.epoch <= c.epoch
    BY <1>0 DEF AnswerInv, AnswerOf, HeardFrom
  <2> QED
    BY <1>2, <2>1, RowTypes
<1>4. /\ Out(p)' = Out(p) /\ Out(s)' = {first} /\ In(p)' = In(p) /\ In(s)' = Elems(retained[p])
      /\ Box(s)' = {} /\ Box(p)' = Box(p)
  <2>1. /\ up'[p] = up[p] /\ up'[s] = <<first>> /\ down'[p] = down[p] /\ down'[s] = retained[p]
        /\ inbox'[s] = <<>> /\ inbox'[p] = inbox[p]
    BY DEF Connects
  <2> QED
    BY <1>1, <2>1, SetsNext, ElemsOfOne, ElemsOfEmpty DEF Out, In, Box
<1>5. \A f \in In(s)' : f.kind \in Retainable
  BY <1>4 DEF RowInv, RowOf, Row
<1>6. first.kind = "PEER_READY"
  BY DEF Connects
<1>7. ProbeOf(s, p) /\ SoloOf(s, p) /\ ReplyOf(s, p) /\ ReadyOf(s, p) /\ LeftIn(s) /\ LeftBox(s)
  BY DEF TalkOf
<1>8. ProbeOf(p, s) /\ SoloOf(p, s) /\ ReplyOf(p, s) /\ ReadyOf(p, s) /\ LeftIn(p) /\ LeftBox(p)
  BY DEF TalkOf
<1> HIDE DEF c, n
<1>9. ProbeOf(s, p)'
  <2>1. \A f \in Out(p) \cup In(s)' :
          /\ f.kind = "PROBE_CHALLENGE" => \E e \in Nat : Asks(f, e) /\ e <= f.epoch
          /\ f.kind = "PROBE_RESPONSE" => \E e \in Nat : Asks(f, e) /\ e <= c.epoch
    BY <1>5, <1>7 DEF ProbeOf, Retainable, c
  <2>2. \A f \in Out(p) \cup In(s)' :
          f.kind = "PROBE_RESPONSE" => \E e \in Nat : Asks(f, e) /\ e <= n.epoch
    <3> TAKE f \in Out(p) \cup In(s)'
    <3> HAVE f.kind = "PROBE_RESPONSE"
    <3>1. PICK e \in Nat : Asks(f, e) /\ e <= c.epoch
      BY <2>1
    <3>2. e <= n.epoch
      BY <1>3, <3>1
    <3> QED
      BY <3>1, <3>2
  <2> QED
    BY <1>2, <1>4, <2>1, <2>2 DEF ProbeOf, Asks, n
<1>10. SoloOf(s, p)'
  <2>1. \A f \in In(p) : f.epoch < n.epoch
    <3> TAKE f \in In(p)
    <3>1. f.epoch \in Nat /\ f.epoch <= c.epoch
      BY <1>0, Between DEF c
    <3> QED
      BY <1>3, <3>1
  <2>2. client[p].gate.epoch < n.epoch
    BY <1>3
  <2> QED
    BY <1>1, <1>2, <1>4, <1>5, <2>1, <2>2 DEF SoloOf, n
<1>11. ReplyOf(s, p)'
  <2>1. \A f \in Out(p)' \cup In(s)' : f \in Out(p) \cup In(s) \/ f.kind # "PROBE_RESPONSE"
    BY <1>4, <1>5 DEF Retainable
  <2> QED
    BY <1>3, <1>7, <2>1, ReplyStays DEF c, n
<1>12. ReadyOf(s, p)'
  <2>1. \A f \in Out(s)' \cup In(s)' \cup Box(s)' : ~IsReady(f)
    BY <1>4, <1>5, <1>6 DEF Retainable, IsReady
  <2> QED
    BY <1>2, <2>1 DEF ReadyOf, n, IsReady
<1>13. LeftIn(s)'
  BY <1>1, <1>11, <1>12, SeatedIn
<1>14. LeftBox(s)'
  BY <1>2, <1>4 DEF LeftBox
<1>15. ProbeOf(p, s)'
  <2>1. \A f \in Out(s)' \cup In(p)' : f \in In(p) \/ f.kind \notin {"PROBE_CHALLENGE", "PROBE_RESPONSE"}
    BY <1>4, <1>6
  <2> QED
    BY <1>2, <1>8, <2>1, ProbeStays
<1>16. SoloOf(p, s)'
  BY <1>1 DEF SoloOf
<1>17. ReplyOf(p, s)'
  <2>1. \A f \in Out(s)' \cup In(p)' : f \in Out(s) \cup In(p) \/ f.kind # "PROBE_RESPONSE"
    BY <1>4, <1>6
  <2> QED
    BY <1>1, <1>2, <1>8, <2>1, ReplyStays
<1>18. ReadyOf(p, s)'
  BY <1>1, <1>2, <1>4, <1>8, ReadyStays DEF Paired
<1>19. LeftIn(p)' /\ LeftBox(p)'
  BY <1>2, <1>4, <1>8, IdleLeft
<1> QED
  BY <1>9, <1>10, <1>11, <1>12, <1>13, <1>14, <1>15, <1>16, <1>17, <1>18, <1>19 DEF TalkOf

\* In step, a client reads a frame of the epoch it has heard of.
LEMMA ReadsInStep ==
  ASSUME TypeInv, RowInv, AnswerInv, NEW s \in Seats, NEW p \in Seats, p = Peer(s), NEW q, Reads(s, p, q)
  PROVE  LET c == client[s] n == client'[s] f == Head(down[s]) IN
         /\ f \in In(s) /\ In(s)' \subseteq In(s)
         /\ f.epoch \in Nat /\ c.gate.epoch <= f.epoch /\ f.epoch <= client[p].epoch
         /\ n.epoch = c.epoch \/ n.epoch = c.epoch + 1
         /\ f.epoch = c.gate.epoch => n.epoch = c.epoch /\ n.gate.epoch = c.gate.epoch /\ (c.proven => n.proven)
         /\ c.gate.epoch = client[p].epoch => f.epoch = c.gate.epoch
<1> DEFINE c == client[s] n == client'[s] f == Head(down[s])
<1>1. down[s] # <<>> /\ down'[s] = Tail(down[s]) /\ Reacts(c, n, f) /\ c.up
  BY DEF Reads
<1>2. f \in In(s) /\ In(s)' \subseteq In(s)
  BY <1>1, RowTypes, ElemsOfTail, SetsNext DEF In
<1>3. f.epoch \in Nat /\ f.epoch <= client[p].epoch /\ c.gate.epoch <= f.epoch
  BY <1>1, <1>2, Between
<1>4. /\ n.epoch = c.epoch \/ n.epoch = c.epoch + 1
      /\ f.epoch = c.gate.epoch => n.epoch = c.epoch /\ n.gate.epoch = c.gate.epoch /\ (c.proven => n.proven)
  BY <1>1 DEF Reacts
<1>5. c.gate.epoch \in Nat
  BY RowTypes
<1>6. c.gate.epoch = client[p].epoch => f.epoch = c.gate.epoch
  BY <1>3, <1>5
<1> QED
  BY <1>2, <1>3, <1>4, <1>6

\* The sets after a client has read f.
LEMMA ReadsSets ==
  ASSUME TypeInv, NEW s \in Seats, NEW p \in Seats, p # s, NEW q, Reads(s, p, q)
  PROVE  /\ Out(s)' = Out(s) \cup Elems(q) /\ Out(p)' = Out(p) /\ In(p)' = In(p) /\ Box(p)' = Box(p)
         /\ \A g \in Box(s)' : g \in Box(s) \/ g = Head(down[s])
<1>1. up[s] \in Seq(Frames) /\ q \in Seq(Frames) /\ up'[s] = up[s] \o q /\ pending' = pending
  BY RowTypes DEF Reads
<1>2. Out(s)' = Out(s) \cup Elems(q)
  BY <1>1, ElemsOfConcat, SetsNext DEF Out
<1>3. Out(p)' = Out(p) /\ In(p)' = In(p) /\ Box(p)' = Box(p)
  BY SetsNext DEF Reads, Out, In, Box
<1>4. \A g \in Box(s)' : g \in Box(s) \/ g = Head(down[s])
  <2> DEFINE f == Head(down[s])
  <2>1. /\ inbox[s] \in Seq(Frames) /\ f \in Frames
        /\ inbox'[s] = inbox[s] \/ inbox'[s] = Append(inbox[s], f)
    BY DEF Reads, TypeInv, ClientShape
  <2> HIDE DEF f
  <2>2. Elems(Append(inbox[s], f)) = Elems(inbox[s]) \cup {f}
    BY <2>1, ElemsOfAppend
  <2>3. Box(s)' = Elems(inbox'[s])
    BY SetsNext
  <2>4. \A g \in Box(s)' : g \in Box(s) \/ g = f
    BY <2>1, <2>2, <2>3 DEF Box
  <2> QED
    BY <2>4 DEF f
<1> QED
  BY <1>2, <1>3, <1>4

LEMMA ReadsProbe ==
  ASSUME TypeInv, TypeInv', RowInv, AnswerInv, NEW s \in Seats, NEW p \in Seats, p = Peer(s),
         ProbeOf(s, p), ProbeOf(p, s), NEW q, Reads(s, p, q)
  PROVE  ProbeOf(s, p)' /\ ProbeOf(p, s)'
<1> DEFINE c == client[s] n == client'[s] f == Head(down[s])
<1>0. Peer(p) = s /\ p # s
  BY PeerIsOther
<1>1. /\ Out(s)' = Out(s) \cup Elems(q) /\ Out(p)' = Out(p) /\ In(p)' = In(p)
      /\ In(s)' \subseteq In(s) /\ f \in In(s)
  BY <1>0, ReadsSets, ReadsInStep
<1>2. /\ c.epoch \in Nat /\ n.epoch \in Nat /\ f.epoch \in Nat /\ f.epoch <= client[p].epoch
      /\ c.epoch <= n.epoch /\ client[p].epoch \in Nat
  <2>1. c.epoch \in Nat /\ n.epoch \in Nat /\ client[p].epoch \in Nat
    BY RowTypes DEF TypeInv, ClientShape, Clients
  <2>2. f.epoch \in Nat /\ f.epoch <= client[p].epoch /\ (n.epoch = c.epoch \/ n.epoch = c.epoch + 1)
    BY ReadsInStep
  <2> QED
    BY <2>1, <2>2
<1>3. Reacts(c, n, f) /\ client'[p] = client[p] /\ \A g \in Elems(q) : Answers(n, f, g)
  BY DEF Reads
<1> HIDE DEF c, n, f
<1>4. n.challenge = NoChallenge \/ n.challenge = <<n.epoch, n.gate.epoch>>
  <2>1. c.challenge = NoChallenge \/ c.challenge = <<c.epoch, c.gate.epoch>>
    BY DEF ProbeOf, c
  <2>2. CASE f.kind = "PEER_READY"
    BY <1>3, <2>2 DEF Reacts
  <2>3. CASE f.kind # "PEER_READY"
    <3>1. n.challenge = c.challenge /\ n.epoch = c.epoch /\ n.gate.epoch = c.gate.epoch
      BY <1>3, <2>3 DEF Reacts
    <3> QED
      BY <2>1, <3>1
  <2> QED
    BY <2>2, <2>3
<1>5. ProbeOf(s, p)'
  <2>1. \A g \in Out(p)' \cup In(s)' :
          /\ g.kind = "PROBE_CHALLENGE" => \E e \in Nat : Asks(g, e) /\ e <= g.epoch
          /\ g.kind = "PROBE_RESPONSE" => \E e \in Nat : Asks(g, e) /\ e <= c.epoch
    BY <1>1 DEF ProbeOf, c
  <2>2. \A g \in Out(p)' \cup In(s)' :
          g.kind = "PROBE_RESPONSE" => \E e \in Nat : Asks(g, e) /\ e <= n.epoch
    <3> TAKE g \in Out(p)' \cup In(s)'
    <3> HAVE g.kind = "PROBE_RESPONSE"
    <3>1. PICK e \in Nat : Asks(g, e) /\ e <= c.epoch
      BY <2>1
    <3>2. e <= n.epoch
      BY <1>2, <3>1
    <3> QED
      BY <3>1, <3>2
  <2> QED
    BY <1>4, <2>1, <2>2 DEF ProbeOf, Asks, n
<1>6. ASSUME NEW g \in Elems(q)
      PROVE  /\ g.kind = "PROBE_CHALLENGE" => \E e \in Nat : Asks(g, e) /\ e <= g.epoch
             /\ g.kind = "PROBE_RESPONSE" => \E e \in Nat : Asks(g, e) /\ e <= client[p].epoch
  <2>1. Answers(n, f, g)
    BY <1>3, <1>6
  <2>2. ASSUME g.kind = "PROBE_CHALLENGE" PROVE \E e \in Nat : Asks(g, e) /\ e <= g.epoch
    <3>1. g.body = n.challenge /\ g.epoch = n.epoch
      BY <2>1, <2>2 DEF Answers
    <3>2. n.gate.epoch \in Nat
      BY DEF n, TypeInv, ClientShape, Clients, GateSet
    <3>3. CASE n.challenge = NoChallenge
      <4>1. Asks(g, 0) /\ 0 <= g.epoch
        BY <1>2, <3>1, <3>3 DEF Asks, NoChallenge
      <4> QED
        BY <4>1
    <3>4. CASE n.challenge = <<n.epoch, n.gate.epoch>>
      <4>1. Asks(g, n.epoch) /\ n.epoch <= g.epoch
        BY <1>2, <3>1, <3>2, <3>4 DEF Asks
      <4> QED
        BY <1>2, <4>1
    <3> QED
      BY <1>4, <3>3, <3>4
  <2>3. ASSUME g.kind = "PROBE_RESPONSE" PROVE \E e \in Nat : Asks(g, e) /\ e <= client[p].epoch
    <3>1. f.kind = "PROBE_CHALLENGE" /\ g.body = f.body
      BY <2>1, <2>3 DEF Answers
    <3>2. PICK e \in Nat : Asks(f, e) /\ e <= f.epoch
      BY <1>1, <3>1 DEF ProbeOf
    <3>3. Asks(g, e) /\ e <= client[p].epoch
      BY <1>2, <3>1, <3>2 DEF Asks
    <3> QED
      BY <3>3
  <2> QED
    BY <2>2, <2>3
<1>7. ProbeOf(p, s)'
  <2>1. \A g \in Out(s)' \cup In(p)' :
          /\ g.kind = "PROBE_CHALLENGE" => \E e \in Nat : Asks(g, e) /\ e <= g.epoch
          /\ g.kind = "PROBE_RESPONSE" => \E e \in Nat : Asks(g, e) /\ e <= client[p].epoch
    BY <1>1, <1>6 DEF ProbeOf
  <2> QED
    BY <1>3, <2>1 DEF ProbeOf, Asks
<1> QED
  BY <1>5, <1>7

\* Who is newly answered was so in the epochs of now.
LEMMA ReadsReturned ==
  ASSUME TypeInv, NEW s \in Seats, NEW p \in Seats, NEW q, Reads(s, p, q), ProbeOf(s, p)
  PROVE  LET c == client[s] n == client'[s] f == Head(down[s]) IN
         n.returned => /\ n.epoch = c.epoch
                       /\ c.returned \/ (Reply(s, f) /\ f.epoch = c.gate.epoch)
<1> DEFINE c == client[s] n == client'[s] f == Head(down[s])
<1>1. Reacts(c, n, f)
  BY DEF Reads
<1>2. c.challenge = NoChallenge \/ c.challenge = <<c.epoch, c.gate.epoch>>
  BY DEF ProbeOf
<1>3. c.gate.epoch \in Nat
  BY RowTypes
<1> SUFFICES ASSUME n.returned PROVE n.epoch = c.epoch /\ (c.returned \/ (Reply(s, f) /\ f.epoch = c.gate.epoch))
  OBVIOUS
<1>4. CASE c.returned
  BY <1>1, <1>4 DEF Reacts
<1>5. CASE ~c.returned
  <2>1. /\ n.epoch = c.epoch /\ f.kind = "PROBE_RESPONSE" /\ f.body = c.challenge /\ f.body # NoChallenge
        /\ f.epoch = c.gate.epoch
    BY <1>1, <1>5 DEF Reacts
  <2>2. Asks(f, c.epoch)
    BY <1>2, <1>3, <2>1 DEF Asks
  <2> QED
    BY <2>1, <2>2 DEF Reply
<1> QED
  BY <1>4, <1>5

\* What a client that was reset while it reads has still to read.
LEMMA ReadsLeft ==
  ASSUME TypeInv, TypeInv', RowInv, RowInv', AnswerInv, AnswerInv', NEW s \in Seats, NEW p \in Seats, p = Peer(s),
         ProbeOf(s, p), LeftIn(s), NEW q, Reads(s, p, q)
  PROVE  LeftIn(s)'
<1> DEFINE c == client[s] n == client'[s] f == Head(down[s])
<1>0. p # s
  BY PeerIsOther
<1>1. /\ f \in In(s) /\ In(s)' \subseteq In(s) /\ c.epoch \in Nat
      /\ n.epoch = c.epoch \/ n.epoch = c.epoch + 1
      /\ \A g \in Box(s)' : g \in Box(s) \/ g = f
  BY <1>0, ReadsInStep, ReadsSets, RowTypes
<1>2. c.up /\ n.gate.epoch = f.epoch /\ n.up = c.up
  BY DEF Reads, Reacts
<1>3. \A g \in In(s)' : g.epoch \in Nat /\ n.gate.epoch <= g.epoch
  BY <1>2, BetweenNext
<1>4. n.gate.epoch \in Nat
  BY DEF TypeInv, ClientShape, Clients, GateSet
<1> HIDE DEF f
<1>5. n.returned => \A g \in In(s)' : g.epoch = n.gate.epoch
  <2>1. CASE c.returned
    BY <1>1, <1>2, <2>1 DEF LeftIn
  <2>2. CASE ~c.returned
    <3>1. n.returned => Reply(s, f)
      BY <2>2, ReadsReturned DEF f
    <3>2. n.returned => \A g \in In(s)' : g.epoch <= n.gate.epoch
      BY <1>1, <1>2, <3>1 DEF LeftIn
    <3> QED
      BY <1>3, <1>4, <3>2
  <2> QED
    BY <2>1, <2>2
<1>6. \A g \in In(s)' \cup Box(s)' : IsReady(g) => \A h \in In(s)' : h.epoch = n.gate.epoch
  BY <1>1, <1>2 DEF LeftIn
<1>7. \A g \in In(s)' : Reply(s, g)' => \A h \in In(s)' : h.epoch <= g.epoch
  <2> TAKE g \in In(s)'
  <2> HAVE Reply(s, g)'
  <2>1. g.kind = "PROBE_RESPONSE" /\ Asks(g, n.epoch) /\ g \in In(s)
    BY <1>1 DEF Reply, Asks
  <2>2. PICK e \in Nat : Asks(g, e) /\ e <= c.epoch
    BY <2>1 DEF ProbeOf
  <2>3. e = n.epoch
    BY <2>1, <2>2 DEF Asks
  <2>4. n.epoch = c.epoch
    BY <1>1, <2>2, <2>3
  <2>5. Reply(s, g)
    BY <2>1, <2>4 DEF Reply
  <2> QED
    BY <1>1, <1>2, <2>1, <2>5 DEF LeftIn
<1> QED
  BY <1>5, <1>6, <1>7 DEF LeftIn, IsReady, Reply, Asks

LEMMA ReadsBox ==
  ASSUME TypeInv, RowInv, AnswerInv, NEW s \in Seats, NEW p \in Seats, p = Peer(s),
         LeftIn(s), LeftBox(s), NEW q, Reads(s, p, q)
  PROVE  /\ LeftBox(s)'
         /\ client[s].proven => /\ client'[s].proven /\ client'[s].gate.epoch = client[s].gate.epoch
                                /\ client'[s].epoch = client[s].epoch
<1> DEFINE c == client[s] n == client'[s] f == Head(down[s])
<1>0. p # s
  BY PeerIsOther
<1>1. /\ f \in In(s) /\ \A g \in Box(s)' : g \in Box(s) \/ g = f
      /\ f.epoch = c.gate.epoch => n.epoch = c.epoch /\ n.gate.epoch = c.gate.epoch /\ (c.proven => n.proven)
  BY <1>0, ReadsInStep, ReadsSets
<1>2. c.up /\ n.gate.epoch = f.epoch /\ n.up = c.up /\ outbox' = outbox
  BY DEF Reads, Reacts
<1>3. c.proven => f.epoch = c.gate.epoch
  BY <1>1, <1>2, ProvenReturned DEF LeftIn
<1>4. c.proven => n.proven /\ n.gate.epoch = c.gate.epoch /\ n.epoch = c.epoch
  BY <1>1, <1>3
<1>5. outbox'[s] # <<>> => n.proven
  BY <1>2, <1>4 DEF LeftBox
<1>6. \A g \in Box(s)' : IsReady(g) => g.epoch = n.gate.epoch
  <2> TAKE g \in Box(s)'
  <2> HAVE IsReady(g)
  <2>1. CASE g \in Box(s)
    <3>1. f.epoch = c.gate.epoch /\ g.epoch = c.gate.epoch
      BY <1>1, <1>2, <2>1 DEF LeftIn, LeftBox
    <3> QED
      BY <1>2, <3>1
  <2>2. CASE g = f
    BY <1>2, <2>2
  <2> QED
    BY <1>1, <2>1, <2>2
<1> QED
  BY <1>4, <1>5, <1>6 DEF LeftBox, IsReady

LEMMA ReadsMine ==
  ASSUME TypeInv, TypeInv', RowInv, AnswerInv, NEW s \in Seats, NEW p \in Seats, p = Peer(s),
         TalkOf(s, p), NEW q, Reads(s, p, q)
  PROVE  SoloOf(s, p)' /\ ReplyOf(s, p)' /\ ReadyOf(s, p)'
<1> DEFINE c == client[s] n == client'[s] f == Head(down[s])
<1>0. p # s
  BY PeerIsOther
<1>1. /\ Out(s)' = Out(s) \cup Elems(q) /\ Out(p)' = Out(p) /\ In(p)' = In(p)
      /\ f \in In(s) /\ In(s)' \subseteq In(s) /\ \A g \in Box(s)' : g \in Box(s) \/ g = f
  BY <1>0, ReadsInStep, ReadsSets
<1>2. /\ peers' = peers /\ pending' = pending /\ client'[p] = client[p] /\ n.gate.epoch = f.epoch
      /\ \A g \in Elems(q) : g.kind \in Protocol
  BY DEF Reads, Reacts, Answers
<1>3. /\ n.epoch = c.epoch \/ n.epoch = c.epoch + 1
      /\ c.gate.epoch = client[p].epoch => n.epoch = c.epoch /\ n.gate.epoch = c.gate.epoch
      /\ c.epoch \in Nat
  BY ReadsInStep, RowTypes
<1>4. ProbeOf(s, p) /\ SoloOf(s, p) /\ ReplyOf(s, p) /\ ReadyOf(s, p)
  BY DEF TalkOf
<1>5. n.returned => n.epoch = c.epoch /\ (c.returned \/ Reply(s, f))
  BY <1>4, ReadsReturned
<1>6. c.epoch <= n.epoch /\ (n.epoch # c.epoch => c.epoch < n.epoch)
  BY <1>3
<1> HIDE DEF c, n, f
<1>7. SoloOf(s, p)'
  <2>1. n.returned => c.returned \/ f.kind \notin Retainable
    BY <1>5 DEF Reply, Retainable
  <2> QED
    BY <1>1, <1>2, <1>4, <1>6, <2>1, SoloStays DEF c, n
<1>8. ReplyOf(s, p)'
  BY <1>1, <1>2, <1>4, <1>6, ReplyStays DEF c, n
<1>9. ReadyOf(s, p)'
  <2>1. Paired(s, p) => Paired(s, p)'
    BY <1>2, <1>3 DEF Paired, c, n
  <2>2. peers[s] /\ Reply(s, f) /\ n.epoch = c.epoch => Paired(s, p)'
    BY <1>1, <1>2, <1>4 DEF Paired, ReplyOf, c, n
  <2>3. \A g \in Elems(q) : ~IsReady(g)
    BY <1>2 DEF Protocol, IsReady
  <2>4. \A g \in Out(s)' \cup In(s)' \cup Box(s)' : IsReady(g) => g \in Out(s) \cup In(s) \cup Box(s)
    BY <1>1, <2>3
  <2>5. peers'[s] /\ n.returned => (peers[s] /\ c.returned) \/ Paired(s, p)'
    BY <1>2, <1>5, <2>2
  <2> QED
    BY <1>2, <1>4, <2>1, <2>4, <2>5, ReadyStays DEF c, n
<1> QED
  BY <1>7, <1>8, <1>9

LEMMA ReadsTheirs ==
  ASSUME TypeInv, TypeInv', RowInv, AnswerInv, NEW s \in Seats, NEW p \in Seats, p = Peer(s),
         TalkOf(s, p), TalkOf(p, s), NEW q, Reads(s, p, q)
  PROVE  SoloOf(p, s)' /\ ReplyOf(p, s)' /\ ReadyOf(p, s)' /\ LeftIn(p)' /\ LeftBox(p)'
<1> DEFINE c == client[s] n == client'[s] f == Head(down[s]) d == client[p]
<1>0. p # s /\ Peer(p) = s
  BY PeerIsOther
<1>1. /\ Out(s)' = Out(s) \cup Elems(q) /\ Out(p)' = Out(p) /\ In(p)' = In(p) /\ Box(p)' = Box(p)
      /\ f \in In(s) /\ In(s)' \subseteq In(s)
  BY <1>0, ReadsInStep, ReadsSets
<1>2. /\ peers' = peers /\ pending' = pending /\ client'[p] = d /\ n.gate.epoch = f.epoch
      /\ outbox' = outbox /\ \A g \in Elems(q) : Answers(n, f, g)
  BY DEF Reads, Reacts
<1>3. /\ c.gate.epoch = d.epoch => n.epoch = c.epoch /\ n.gate.epoch = c.gate.epoch
      /\ f.epoch \in Nat /\ f.epoch <= d.epoch /\ d.epoch \in Nat /\ d.epoch <= d.epoch
  BY ReadsInStep, RowTypes
<1>4. ProbeOf(s, p) /\ ProbeOf(p, s) /\ SoloOf(p, s) /\ ReplyOf(p, s) /\ ReadyOf(p, s) /\ LeftIn(p) /\ LeftBox(p)
  BY DEF TalkOf
<1> HIDE DEF c, n, f, d
<1>5. SoloOf(p, s)'
  BY <1>0, <1>1, <1>2, <1>3, <1>4, SoloStays DEF d, n
<1>6. ASSUME peers[p], NEW g \in Elems(q), g.kind = "PROBE_RESPONSE", Asks(g, d.epoch)
      PROVE  peers[s] /\ n.epoch = g.epoch /\ n.gate.epoch = d.epoch
  <2>1. f.kind = "PROBE_CHALLENGE" /\ g.body = f.body /\ g.epoch = n.epoch
    BY <1>2, <1>6 DEF Answers
  <2>2. PICK e \in Nat : Asks(f, e) /\ e <= f.epoch
    BY <1>1, <1>4, <2>1 DEF ProbeOf
  <2>3. e = d.epoch
    BY <1>6, <2>1, <2>2 DEF Asks
  <2>4. f.epoch = d.epoch
    BY <1>3, <2>2, <2>3
  <2>5. peers[s]
    <3>1. ~peers[s] => f.epoch < d.epoch
      BY <1>1, <1>4, <1>6 DEF SoloOf, d
    <3> QED
      BY <1>3, <2>4, <3>1
  <2> QED
    BY <1>2, <2>1, <2>4, <2>5
<1>7. ReplyOf(p, s)'
  <2>1. peers'[p] => \A g \in Out(s)' \cup In(p)' :
           \/ g \in Out(s) \cup In(p)
           \/ g.kind # "PROBE_RESPONSE"
           \/ Reply(p, g)' => peers'[s] /\ n.epoch = g.epoch /\ n.gate.epoch = client'[p].epoch
    <3> SUFFICES ASSUME peers'[p], NEW g \in Elems(q), g.kind = "PROBE_RESPONSE", Reply(p, g)'
                 PROVE  peers'[s] /\ n.epoch = g.epoch /\ n.gate.epoch = client'[p].epoch
      BY <1>1
    <3>1. Asks(g, d.epoch)
      BY <1>2 DEF Reply, Asks
    <3> QED
      BY <1>2, <1>6, <3>1
  <2>2. peers[s] /\ c.gate.epoch = d.epoch => n.epoch = c.epoch /\ n.gate.epoch = c.gate.epoch
    BY <1>3
  <2> QED
    BY <1>2, <1>4, <2>1, <2>2, ReplyStays DEF c, n, d
<1>8. ReadyOf(p, s)'
  <2>1. Paired(p, s) => Paired(p, s)'
    BY <1>2, <1>3 DEF Paired, c, n, d
  <2> QED
    BY <1>1, <1>2, <1>4, <2>1, ReadyStays DEF d
<1>9. LeftIn(p)' /\ LeftBox(p)'
  BY <1>1, <1>2, <1>4, IdleLeft DEF d
<1> QED
  BY <1>5, <1>7, <1>8, <1>9

LEMMA ReadsTalk ==
  ASSUME TypeInv, TypeInv', RowInv, RowInv', AnswerInv, AnswerInv', NEW s \in Seats, NEW p \in Seats, p = Peer(s),
         TalkOf(s, p), TalkOf(p, s), NEW q, Reads(s, p, q)
  PROVE  TalkOf(s, p)' /\ TalkOf(p, s)'
<1>1. ProbeOf(s, p) /\ ProbeOf(p, s) /\ LeftIn(s) /\ LeftBox(s)
  BY DEF TalkOf
<1>2. ProbeOf(s, p)' /\ ProbeOf(p, s)'
  BY <1>1, ReadsProbe
<1>3. SoloOf(s, p)' /\ ReplyOf(s, p)' /\ ReadyOf(s, p)'
  BY ReadsMine
<1>4. LeftIn(s)' /\ LeftBox(s)'
  BY <1>1, ReadsLeft, ReadsBox
<1>5. SoloOf(p, s)' /\ ReplyOf(p, s)' /\ ReadyOf(p, s)' /\ LeftIn(p)' /\ LeftBox(p)'
  BY ReadsTheirs
<1> QED
  BY <1>2, <1>3, <1>4, <1>5 DEF TalkOf

LEMMA TalkStart == SessionInit => TalkInv
<1> SUFFICES ASSUME SessionInit, NEW s \in Seats, NEW p \in Seats, p = Peer(s) PROVE TalkOf(s, p)
  BY PeerIsOther DEF TalkInv
<1>1. /\ up[s] = <<>> /\ up[p] = <<>> /\ pending[s] = NoFrame /\ pending[p] = NoFrame
      /\ down[s] = <<>> /\ inbox[s] = <<>> /\ outbox[s] = <<>> /\ ~peers[s] /\ client[s] = NewClient
  BY DEF SessionInit, RelayInit, Each
<1>2. Out(s) = {} /\ Out(p) = {} /\ In(s) = {} /\ Box(s) = {}
  BY <1>1, ElemsOfEmpty DEF Out, In, Box
<1>3. client[s].challenge = NoChallenge /\ ~client[s].up
  <2>1. NewClient.challenge = NoChallenge /\ ~NewClient.up
    BY DEF NewClient
  <2> QED
    BY <1>1, <2>1
<1> QED
  BY <1>1, <1>2, <1>3 DEF TalkOf, ProbeOf, SoloOf, ReplyOf, ReadyOf, LeftIn, LeftBox

LEMMA TalkSteps ==
  TypeInv /\ TypeInv' /\ RowInv /\ AnswerInv /\ AnswerInv' /\ TalkInv /\ [SessionNext]_tunnelVars
    => RowInv' /\ TalkInv'
<1> SUFFICES ASSUME TypeInv, TypeInv', RowInv, AnswerInv, AnswerInv', TalkInv, [SessionNext]_tunnelVars
             PROVE  RowInv' /\ TalkInv'
  OBVIOUS
<1>1. PICK s \in Seats : \E p \in Seats : p = Peer(s) /\ Moves(s, p) /\ RowInv'
  BY StepMoves
<1>2. PICK p \in Seats : p = Peer(s) /\ Moves(s, p) /\ RowInv'
  BY <1>1
<1>3. Peer(p) = s /\ \A x \in Seats : x = s \/ x = p
  BY <1>2 DEF Seats, Peer
<1>4. TalkOf(s, p) /\ TalkOf(p, s)
  BY <1>2, <1>3 DEF TalkInv
<1>5. TalkOf(s, p)' /\ TalkOf(p, s)'
  <2>1. CASE \E first : Connects(s, p, first)
    BY <1>2, <1>4, <2>1, ConnectsTalk
  <2>2. CASE \E h, q : Sends(s, p, h, q)
    BY <1>2, <1>4, <2>2, SendsTalk
  <2>3. CASE \E q : Reads(s, p, q)
    BY <1>2, <1>4, <2>3, ReadsTalk
  <2>4. CASE Drops(s, p)
    BY <1>2, <1>4, <2>4, DropsTalk
  <2>5. CASE Takes(s, p)
    BY <1>2, <1>4, <2>5, TakesTalk
  <2>6. CASE Forwards(s, p)
    BY <1>2, <1>4, <2>6, ForwardsTalk
  <2>7. CASE \E close : Ends(s, p, close)
    BY <1>2, <1>4, <2>7, EndsTalk
  <2>8. CASE Works(s, p)
    BY <1>2, <1>4, <2>8, WorksTalk
  <2> QED
    BY <1>2, <2>1, <2>2, <2>3, <2>4, <2>5, <2>6, <2>7, <2>8 DEF Moves
<1>6. ASSUME NEW x \in Seats PROVE TalkOf(x, Peer(x))'
  <2>1. CASE x = s
    <3>1. TalkOf(s, Peer(s))' <=> TalkOf(s, p)'
      BY <1>2
    <3> QED
      BY <1>5, <2>1, <3>1
  <2>2. CASE x = p
    <3>1. TalkOf(p, Peer(p))' <=> TalkOf(p, s)'
      BY <1>3
    <3> QED
      BY <1>5, <2>2, <3>1
  <2> QED
    BY <1>3, <2>1, <2>2
<1> QED
  BY <1>2, <1>6 DEF TalkInv

-----------------------------------------------------------------------------
(* What a bridge counts as current: the readiness of the peer it holds was  *)
(* read in the epoch of the client's proof.                                 *)

\* A bridge b over a client c, with the frames w of its last poll.
Held(c, b, w) ==
  /\ c.proven => c.up /\ c.proof >= 1
  /\ b.proof <= c.proof /\ c.sideSent <= c.proof /\ b.localSent <= c.sideSent
  /\ b.connected => b.localSent = b.proof
  /\ c.proven /\ b.proof = c.proof =>
       /\ b.pc = "drain" => \A f \in w : IsReady(f) => f.epoch = c.gate.epoch
       /\ b.peerKey # <<0, 0>> \/ b.connected => b.peerKey[1] = c.gate.epoch

BridgeInv == \A s \in Seats : Held(client[s], bridge[s], Elems(batch[s]))

\* A client that goes on under its proof, loses it or proves once more.
Goes(c, n) ==
  /\ n.sideSent = c.sideSent /\ (n.proof = c.proof \/ n.proof = c.proof + 1)
  /\ n.proven => /\ n.up
                 /\ \/ n.proof = c.proof + 1
                    \/ c.proven /\ n.proof = c.proof /\ n.gate.epoch = c.gate.epoch

LEMMA HeldGoes ==
  ASSUME NEW c \in Clients, NEW n \in Clients, NEW b \in Bridges, NEW w, Held(c, b, w), Goes(c, n)
  PROVE  Held(n, b, w)
<1>1. /\ c.proof \in Nat /\ n.proof \in Nat /\ b.proof \in Nat /\ b.localSent \in Nat
      /\ c.sideSent \in Nat
  BY DEF Clients, Bridges
<1>2. /\ b.proof <= n.proof /\ n.sideSent <= n.proof /\ b.localSent <= n.sideSent
      /\ b.connected => b.localSent = b.proof
  BY <1>1 DEF Held, Goes
<1>3. CASE ~n.proven
  BY <1>2, <1>3 DEF Held
<1>4. CASE n.proven /\ n.proof = c.proof + 1
  <2>1. n.up /\ n.proof >= 1 /\ b.proof # n.proof
    BY <1>1, <1>4 DEF Held, Goes
  <2> QED
    BY <1>2, <2>1 DEF Held
<1>5. CASE n.proven /\ c.proven /\ n.proof = c.proof /\ n.gate.epoch = c.gate.epoch
  BY <1>2, <1>5 DEF Held, Goes
<1> QED
  BY <1>3, <1>4, <1>5 DEF Goes

\* A step of the seat s that its bridge has no part in.
LEMMA BridgeRests ==
  ASSUME TypeInv, TypeInv', BridgeInv, bridge' = bridge, batch' = batch,
         \A s \in Seats : Goes(client[s], client'[s])
  PROVE  BridgeInv'
<1> SUFFICES ASSUME NEW s \in Seats PROVE Held(client'[s], bridge'[s], Elems(batch'[s]))
  BY DEF BridgeInv, Elems
<1>1. client[s] \in Clients /\ client'[s] \in Clients /\ bridge[s] \in Bridges
  BY DEF TypeInv, ClientShape, BridgeShape
<1>2. Held(client[s], bridge[s], Elems(batch[s]))
  BY DEF BridgeInv
<1>3. Held(client'[s], bridge[s], Elems(batch[s]))
  BY <1>1, <1>2, HeldGoes
<1> QED
  BY <1>3

LEMMA BridgeStart == SessionInit => BridgeInv
<1> SUFFICES ASSUME SessionInit, NEW s \in Seats PROVE Held(client[s], bridge[s], Elems(batch[s]))
  BY DEF BridgeInv
<1>1. client[s] = NewClient /\ bridge[s] = NewBridge
  BY DEF SessionInit, Each
<1>2. ~NewClient.proven /\ NewClient.proof = 0 /\ NewClient.sideSent = 0
  BY DEF NewClient
<1>3. NewBridge.proof = 0 /\ NewBridge.localSent = 0 /\ ~NewBridge.connected
  BY DEF NewBridge
<1> QED
  BY <1>1, <1>2, <1>3 DEF Held

\* Only the bridge of s changes, and that of a client that stays where it is.
LEMMA BridgeOne ==
  ASSUME TypeInv, BridgeInv, NEW s \in Seats, NEW n, bridge' = [bridge EXCEPT ![s] = n],
         \A y \in Seats \ {s} : batch'[y] = batch[y] /\ client'[y] = client[y],
         Held(client'[s], n, Elems(batch'[s]))
  PROVE  BridgeInv'
<1> SUFFICES ASSUME NEW y \in Seats PROVE Held(client'[y], bridge'[y], Elems(batch'[y]))
  BY DEF BridgeInv, Elems
<1>1. bridge \in [Seats -> Bridges]
  BY DEF TypeInv, BridgeShape
<1>2. CASE y = s
  BY <1>1, <1>2
<1>3. CASE y # s
  <2>1. bridge'[y] = bridge[y]
    BY <1>1, <1>3
  <2> QED
    BY <1>3, <2>1 DEF BridgeInv
<1> QED
  BY <1>2, <1>3

LEMMA HeldTypes ==
  ASSUME TypeInv, BridgeInv, NEW s \in Seats
  PROVE  LET c == client[s] b == bridge[s] IN
         /\ Held(c, b, Elems(batch[s])) /\ c \in Clients /\ b \in Bridges
         /\ c.proof \in Nat /\ b.proof \in Nat /\ b.localSent \in Nat /\ c.sideSent \in Nat
         /\ batch[s] \in Seq(Frames) /\ inbox[s] \in Seq(Frames)
         /\ b.pc = "drain" \/ b.pc = "sync" \/ b.pc = "ready" \/ b.pc = "poll"
<1>1. client[s] \in Clients /\ bridge[s] \in Bridges /\ batch[s] \in Seq(Frames) /\ inbox[s] \in Seq(Frames)
  BY DEF TypeInv, ClientShape, BridgeShape
<1> QED
  BY <1>1 DEF BridgeInv, Clients, Bridges

\* Whatever keeps a bridge's readiness, or fails the bridge.
LEMMA HeldKeeps ==
  ASSUME NEW c, NEW b, NEW n, NEW w, NEW v, Held(c, b, w), SameReadiness(b, n),
         n.connected => b.connected \/ (b.localSent = b.proof /\ b.peerKey # <<0, 0>>),
         n.pc = b.pc \/ n.pc # "drain", v \subseteq w
  PROVE  Held(c, n, v)
BY DEF Held, SameReadiness, IsReady

LEMMA BridgeSync ==
  ASSUME TypeInv, BridgeInv, NEW s \in Seats, SyncProof(s)
  PROVE  BridgeInv'
<1> DEFINE c == client[s] b == bridge[s] n == bridge'[s] w == Elems(batch[s])
           proof == IF c.proven THEN c.proof ELSE 0
<1>1. Held(c, b, w) /\ c.proof \in Nat /\ c.sideSent \in Nat /\ b.localSent \in Nat
  BY HeldTypes
<1>2. client' = client /\ batch' = batch
  BY DEF SyncProof, clientVars
<1>3. bridge' = [bridge EXCEPT ![s] = n] /\ b.pc = "sync"
  BY SyncEffect DEF At
<1> HIDE DEF n, b, w
<1>4. Held(c, n, w)
  <2>1. CASE SameReadiness(b, n) /\ (n.connected => b.connected) /\ n.pc # "drain"
    BY <1>1, <2>1, HeldKeeps
  <2>2. CASE /\ n.proof = proof /\ ~n.connected /\ n.localSent = 0 /\ n.peerKey = <<0, 0>>
             /\ n.pc # "drain"
    <3>1. proof \in Nat /\ proof <= c.proof /\ 0 <= c.sideSent
      BY <1>1
    <3> QED
      BY <1>1, <2>2, <3>1 DEF Held
  <2>3. \/ SameReadiness(b, n) /\ (n.connected => b.connected) /\ n.pc # "drain"
        \/ /\ n.proof = proof /\ ~n.connected /\ n.localSent = 0 /\ n.peerKey = <<0, 0>>
           /\ n.pc # "drain"
    BY <1>3, SyncEffect DEF SameReadiness, n, b
  <2> QED
    BY <2>1, <2>2, <2>3
<1> QED
  BY <1>2, <1>3, <1>4, BridgeOne DEF w

LEMMA BridgeFails ==
  ASSUME TypeInv, BridgeInv, NEW s \in Seats, NEW e \in BridgeErrors, Fail(s, e), client' = client,
         \A y \in Seats \ {s} : batch'[y] = batch[y], Elems(batch'[s]) \subseteq Elems(batch[s])
  PROVE  BridgeInv'
<1> DEFINE b == bridge[s] n == bridge'[s]
<1>1. Held(client[s], b, Elems(batch[s]))
  BY HeldTypes
<1>2. bridge' = [bridge EXCEPT ![s] = n] /\ SameReadiness(b, n) /\ ~n.connected /\ n.pc = b.pc
  BY FailEffect DEF SameReadiness
<1> HIDE DEF n, b
<1>3. Held(client[s], n, Elems(batch'[s]))
  BY <1>1, <1>2, HeldKeeps
<1> QED
  BY <1>2, <1>3, BridgeOne

LEMMA BridgeReadies ==
  ASSUME TypeInv, BridgeInv, NEW s \in Seats, SendSideReady(s)
  PROVE  BridgeInv'
<1> DEFINE c == client[s] d == client'[s] b == bridge[s] w == Elems(batch[s])
           n == [b EXCEPT !.localSent = b.proof, !.pc = "poll"]
<1>1. Held(c, b, w) /\ c.proof \in Nat /\ b.proof \in Nat /\ b \in Bridges
  BY HeldTypes
<1>2. batch' = batch /\ client \in [Seats -> Clients]
  BY DEF SendSideReady, TypeInv, ClientShape
<1>3. CASE client' = client /\ Fail(s, "C_SIDE_READY_SEND_FAILED")
  BY <1>2, <1>3, BridgeFails, FailureCodes DEF BridgeErrors
<1>4. CASE /\ client' = [client EXCEPT ![s] = d] /\ d.up = c.up /\ SameProof(c, d) /\ d.sideSent = c.proof
           /\ bridge' = [bridge EXCEPT ![s] = n]
  <2>1. /\ n.localSent = b.proof /\ n.pc = "poll" /\ n.proof = b.proof /\ n.connected = b.connected
        /\ n.peerKey = b.peerKey
    BY <1>1 DEF Bridges
  <2> HIDE DEF n, w
  <2>2. d.proven = c.proven /\ d.proof = c.proof /\ d.gate = c.gate
    BY <1>4 DEF SameProof
  <2> HIDE DEF c, d, b
  <2>3. Held(d, n, w)
    BY <1>1, <1>4, <2>1, <2>2 DEF Held
  <2>4. \A y \in Seats \ {s} : client'[y] = client[y]
    BY <1>2, <1>4
  <2> QED
    BY <1>2, <1>4, <2>3, <2>4, BridgeOne DEF w, d
<1> QED
  BY <1>3, <1>4, SendSideReadyEffect

LEMMA BridgePolls ==
  ASSUME TypeInv, TalkInv, BridgeInv, NEW s \in Seats, Poll(s)
  PROVE  BridgeInv'
<1> DEFINE c == client[s] b == bridge[s] n == [b EXCEPT !.pc = "drain"]
<1>1. Held(c, b, Elems(batch[s])) /\ b \in Bridges
  BY HeldTypes
<1>2. /\ batch' = [batch EXCEPT ![s] = inbox[s]] /\ client' = client /\ bridge' = [bridge EXCEPT ![s] = n]
      /\ batch \in [Seats -> Seq(Frames)]
  BY DEF Poll, TypeInv, BridgeShape
<1>3. /\ n.localSent = b.localSent /\ n.proof = b.proof /\ n.connected = b.connected
      /\ n.peerKey = b.peerKey
  BY <1>1 DEF Bridges
<1>4. batch'[s] = inbox[s] /\ \A y \in Seats \ {s} : batch'[y] = batch[y]
  BY <1>2
<1>5. c.up => \A f \in Box(s) : IsReady(f) => f.epoch = c.gate.epoch
  BY DEF TalkInv, TalkOf, LeftBox
<1> HIDE DEF n, b, c
<1>6. Held(c, n, Box(s))
  BY <1>1, <1>3, <1>5 DEF Held
<1> QED
  BY <1>2, <1>4, <1>6, BridgeOne DEF c, Box

LEMMA BridgeDrains ==
  ASSUME TypeInv, BridgeInv, NEW s \in Seats, Drain(s)
  PROVE  BridgeInv'
<1> DEFINE c == client[s] b == bridge[s] n == bridge'[s] f == Head(batch[s]) w == Elems(batch[s])
<1>1. Held(c, b, w) /\ batch \in [Seats -> Seq(Frames)]
  BY HeldTypes DEF TypeInv, BridgeShape
<1>2. /\ b.pc = "drain" /\ batch[s] # <<>> /\ batch' = [batch EXCEPT ![s] = Tail(batch[s])]
      /\ client' = client /\ bridge' = [bridge EXCEPT ![s] = n]
  BY DrainEffect DEF At, clientVars
<1>3. batch'[s] = Tail(batch[s]) /\ \A y \in Seats \ {s} : batch'[y] = batch[y]
  BY <1>1, <1>2
<1>4. f \in w /\ Elems(batch'[s]) \subseteq w
  BY <1>1, <1>2, <1>3, ElemsOfTail
<1>5. CASE \E e \in BridgeErrors : Fail(s, e)
  BY <1>2, <1>3, <1>4, <1>5, BridgeFails
<1>6. CASE /\ f.kind = "SIDE_READY" /\ n.pc = b.pc /\ n.proof = b.proof /\ n.localSent = b.localSent
           /\ n.peerKey = <<f.epoch, f.body>>
           /\ n.connected => b.connected \/ b.localSent = b.proof
  <2> HIDE DEF c, b, n, f, w
  <2>1. n.peerKey[1] = f.epoch /\ IsReady(f)
    BY <1>6 DEF IsReady
  <2>2. Held(c, n, Elems(batch'[s]))
    BY <1>1, <1>2, <1>4, <1>6, <2>1 DEF Held, IsReady
  <2> QED
    BY <1>2, <1>3, <2>2, BridgeOne DEF c
<1>7. CASE n.pc = b.pc /\ SameReadiness(b, n) /\ n.connected = b.connected
  <2> HIDE DEF c, b, n, f, w
  <2>1. Held(c, n, Elems(batch'[s]))
    BY <1>1, <1>4, <1>7, HeldKeeps
  <2> QED
    BY <1>2, <1>3, <2>1, BridgeOne DEF c
<1>8. \/ \E e \in BridgeErrors : Fail(s, e)
      \/ /\ f.kind = "SIDE_READY" /\ n.pc = b.pc /\ n.proof = b.proof /\ n.localSent = b.localSent
         /\ n.peerKey = <<f.epoch, f.body>>
         /\ n.connected => b.connected \/ b.localSent = b.proof
      \/ n.pc = b.pc /\ SameReadiness(b, n) /\ n.connected = b.connected
  BY DrainEffect
<1> QED
  BY <1>5, <1>6, <1>7, <1>8

LEMMA BridgeFlushes ==
  ASSUME TypeInv, BridgeInv, NEW s \in Seats, Flush(s)
  PROVE  BridgeInv'
<1> DEFINE c == client[s] b == bridge[s] n == bridge'[s] w == Elems(batch[s])
<1>1. Held(c, b, w)
  BY HeldTypes
<1>2. /\ batch' = batch /\ client' = client /\ bridge' = [bridge EXCEPT ![s] = n] /\ SameReadiness(b, n)
      /\ n.connected => b.connected \/ (b.localSent = b.proof /\ b.peerKey # <<0, 0>>)
      /\ n.pc = b.pc \/ n.pc = "sync"
  BY FlushEffect
<1> HIDE DEF c, b, n, w
<1>3. Held(c, n, w)
  BY <1>1, <1>2, HeldKeeps
<1> QED
  BY <1>2, <1>3, BridgeOne DEF c, w

\* A step that leaves both bridges alone, and the clients' proofs or its seat's client.
LEMMA BridgeIdle ==
  ASSUME TypeInv, TypeInv', BridgeInv, bridge' = bridge, batch' = batch,
         NEW s \in Seats, NEW p \in Seats, p = Peer(s), client'[p] = client[p], Goes(client[s], client'[s])
  PROVE  BridgeInv'
<1>1. \A x \in Seats : x = s \/ x = p
  BY DEF Seats, Peer
<1>2. Goes(client[p], client'[p])
  BY HeldTypes DEF Goes, Held
<1> QED
  BY <1>1, <1>2, BridgeRests

LEMMA BridgeReads ==
  ASSUME TypeInv, TypeInv', RowInv, AnswerInv, TalkInv, BridgeInv, NEW s \in Seats, NEW p \in Seats, p = Peer(s),
         NEW q, Reads(s, p, q)
  PROVE  BridgeInv'
<1> DEFINE c == client[s] n == client'[s]
<1>1. LeftIn(s) /\ LeftBox(s)
  BY DEF TalkInv, TalkOf
<1>2. c.proven => n.proven /\ n.gate.epoch = c.gate.epoch
  BY <1>1, ReadsBox
<1>3. /\ n.up /\ n.sideSent = c.sideSent /\ bridge' = bridge /\ batch' = batch /\ client'[p] = client[p]
      /\ n.proof = IF n.proven /\ ~c.proven THEN c.proof + 1 ELSE c.proof
  BY DEF Reads, Reacts
<1>4. Goes(c, n)
  BY <1>2, <1>3 DEF Goes
<1> QED
  BY <1>3, <1>4, BridgeIdle

LEMMA BridgeThread ==
  ASSUME TypeInv, TypeInv', RowInv, AnswerInv, TalkInv, BridgeInv, NEW s \in Seats, NEW p \in Seats, p = Peer(s),
         TunnelThread(s) \/ ClientLost(s)
  PROVE  BridgeInv'
<1>0. p # s
  BY PeerIsOther
<1>1. CASE Connect(s)
  <2>1. PICK first : Connects(s, p, first)
    BY <1>1, ConnectIs
  <2> QED
    BY <2>1, BridgeIdle DEF Connects, Goes
<1>2. CASE SendPending(s)
  <2>1. PICK h, q : Sends(s, p, h, q)
    BY <1>2, SendPendingIs
  <2>2. bridge' = bridge /\ batch' = batch /\ client'[p] = client[p] /\ client'[s].up = client[s].up
    BY <2>1 DEF Sends, SameConnection
  <2>3. Goes(client[s], client'[s])
    BY <2>1, HeldTypes DEF Sends, SameConnection, SameProof, Goes, Held
  <2> QED
    BY <2>2, <2>3, BridgeIdle
<1>3. CASE Receive(s) \/ ClientLost(s)
  <2>1. /\ UNCHANGED <<sessionVars, handlers, pending, outbox, bridgeVars>>
        /\ \/ Dropped(s)
           \/ ReadFrame(s) /\ client[s].up /\ down[s] # <<>> /\ Head(down[s]) \in Frames
    BY <1>3, ReceiveCases, ClientLostIsDrop
  <2>2. CASE Dropped(s)
    <3>1. Drops(s, p)
      BY <2>1, <2>2, DroppedIs
    <3> QED
      BY <3>1, BridgeIdle DEF Drops, Goes
  <2>3. CASE ReadFrame(s) /\ client[s].up /\ down[s] # <<>> /\ Head(down[s]) \in Frames
    <3>1. PICK q : Reads(s, p, q)
      BY <2>1, <2>3, ReadFrameIs
    <3> QED
      BY <3>1, BridgeReads
  <2> QED
    BY <2>1, <2>2, <2>3
<1>4. CASE Refused(s)
  <2>1. /\ client' = [client EXCEPT ![s] = [client[s] EXCEPT !.error = "C_AUTHENTICATION_FAILED"]]
        /\ bridge' = bridge /\ batch' = batch /\ client \in [Seats -> Clients] /\ client[s] \in Clients
    BY <1>4, HeldTypes DEF Refused, bridgeVars, TypeInv, ClientShape
  <2>2. client'[p] = client[p]
    BY <1>0, <2>1
  <2>3. /\ client'[s].up = client[s].up /\ client'[s].proven = client[s].proven
        /\ client'[s].proof = client[s].proof /\ client'[s].sideSent = client[s].sideSent
        /\ client'[s].gate = client[s].gate
    BY <2>1 DEF Clients
  <2>4. Goes(client[s], client'[s])
    BY <2>3, HeldTypes DEF Goes, Held
  <2> QED
    BY <2>1, <2>2, <2>4, BridgeIdle
<1> QED
  BY <1>1, <1>2, <1>3, <1>4 DEF TunnelThread

LEMMA BridgeSteps ==
  TypeInv /\ TypeInv' /\ RowInv /\ AnswerInv /\ TalkInv /\ BridgeInv /\ [SessionNext]_tunnelVars => BridgeInv'
<1> SUFFICES ASSUME TypeInv, TypeInv', RowInv, AnswerInv, TalkInv, BridgeInv, [SessionNext]_tunnelVars
             PROVE  BridgeInv'
  OBVIOUS
<1>1. ASSUME UNCHANGED <<client, bridge, batch>> PROVE BridgeInv'
  BY <1>1, HeldTypes, BridgeRests DEF Goes, Held
<1>2. CASE UNCHANGED tunnelVars
  BY <1>1, <1>2 DEF tunnelVars, clientVars, bridgeVars
<1>3. ASSUME NEW s \in Seats,
             TunnelThread(s) \/ MainThread(s) \/ SendRfu(s) \/ RelayServes(s) \/ ReplayLost(s) \/ Expires(s)
               \/ ClientLost(s) \/ HandlerLost(s)
      PROVE  BridgeInv'
  <2>0. PICK p \in Seats : p = Peer(s)
    BY PeerIsOther
  <2>1. CASE TunnelThread(s) \/ ClientLost(s)
    BY <2>0, <2>1, BridgeThread
  <2>2. CASE Pump(s)
    BY <2>2, BridgeSync, BridgeReadies, BridgePolls, BridgeDrains, BridgeFlushes DEF Pump
  <2>3. CASE RelayServes(s) \/ ReplayLost(s) \/ Expires(s) \/ HandlerLost(s)
    BY <1>1, <2>3 DEF RelayServes, ReplayLost, ReplayFails, Expires, HandlerLost, clientVars, bridgeVars
  <2>4. CASE ConnectStage(s) \/ Publish \/ AwaitAdvertisement \/ SendRfu(s)
    BY <1>1, <2>4 DEF ConnectStage, Publish, AwaitAdvertisement, SendRfu, clientVars
  <2> QED
    BY <1>3, <2>1, <2>2, <2>3, <2>4 DEF MainThread
<1> QED
  BY <1>2, <1>3 DEF SessionNext

-----------------------------------------------------------------------------
(* C_BRIDGE_READY is current: an active bridge counts the readiness its     *)
(* peer sent in the epoch of the proof it is active under, and has sent its *)
(* own under that proof (C2Bridge._maybe_activate).                         *)

LEMMA HeldCurrent == TypeInv /\ BridgeInv => ActivationIsCurrent
<1> SUFFICES ASSUME TypeInv, BridgeInv, NEW s \in Seats, bridge[s].connected, client[s].proven,
                    bridge[s].proof = client[s].proof
             PROVE  bridge[s].peerKey[1] = client[s].gate.epoch /\ client[s].sideSent = client[s].proof
  BY DEF ActivationIsCurrent
<1>1. /\ Held(client[s], bridge[s], Elems(batch[s])) /\ client[s].proof \in Nat /\ client[s].sideSent \in Nat
  BY HeldTypes
<1> QED
  BY <1>1 DEF Held

LEMMA ShapeIsConsistent == TypeInv /\ Fits /\ AnswerInv => SessionTypeOK
BY DEF TypeInv, ClientShape, BridgeShape, Clients, Fits, AnswerInv, AnswerOf, Counts, SessionTypeOK

\* The endpoints' invariant: an inbox within its capacity, a proof for each epoch at most, and
\* no bridge active on what an earlier connection said (C2Bridge.pump, C2Bridge._invalidate).
THEOREM SessionConsistent == SessionSpec => []SessionIsConsistent
<1> DEFINE IInv == TypeInv /\ OrderInv /\ Fits /\ AnswerInv /\ RowInv /\ TalkInv /\ BridgeInv
<1>1. SessionInit => IInv
  BY TypesStart, OrderStart, FitsStart, AnswerStart, RowStart, TalkStart, BridgeStart
<1>2. IInv /\ [SessionNext]_tunnelVars => IInv'
  BY TypeSteps, OrderSteps, FitsSteps, AnswerSteps, TalkSteps, BridgeSteps
<1>3. IInv => SessionIsConsistent
  BY HeldCurrent, ShapeIsConsistent DEF SessionIsConsistent
<1> QED
  BY <1>1, <1>2, <1>3, PTL DEF SessionSpec

=============================================================================
