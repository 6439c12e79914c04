---------------------------- MODULE PiaConnection ----------------------------
(***************************************************************************)
(* The Pia session under the Reliable stream                               *)
(* (src/bridge/frlgsim/pia_connect.py).  Beside the group leader's Switch  *)
(* the program is the child and joins (ConnectionManager); beside the      *)
(* joining Switch it is the parent and hosts (HostConnectionManager).      *)
(* Nothing is acknowledged at this layer: each side answers what it        *)
(* receives, and a lost message is repaired only by the peer repeating     *)
(* itself.  The Switch is external, with the stages of the other side.     *)
(* Left out are messages that change no stage: the Net response, which is  *)
(* only logged, and the join response to a guest.                          *)
(***************************************************************************)
EXTENDS Naturals

CONSTANTS
  MaxLosses,  \* how many messages or frames the radio loses
  EarlyRtt    \* TRUE: a hosting Switch measures round trips before it was finalized

ASSUME PiaAssumption == MaxLosses \in Nat /\ EarlyRtt \in BOOLEAN

VARIABLES
  role,    \* "child" or "parent"
  conn,    \* the stage of the program's connection manager
  switch,  \* the stage of the Switch
  air,     \* Pia messages in flight, as [to, kind]; a repeated one merges with its copy
  losses   \* messages and frames lost so far

piaVars == <<role, conn, switch, air, losses>>

Stages == [child |-> {"net", "finalize", "connected"},
           parent |-> {"announce", "join_received", "finalized"}]
SwitchStages == [child |-> {"announce", "accepted", "final"}, parent |-> {"idle", "joining", "final"}]
Kinds == {"net11", "join", "type2", "type5", "final", "rtt"}

Message(to, kind) == [to |-> to, kind |-> kind]
ToSwitch(kinds) == {Message("switch", k) : k \in kinds}
ToSim(kinds) == {Message("sim", k) : k \in kinds}

(* Once both ends are up, a late message changes no stage any more: those in *)
(* the air are forgotten, which keeps the state space small.                 *)
InAir(messages) ==
  IF conn' \in {"connected", "finalized"} /\ switch' = "final" THEN {} ELSE messages

PiaInit ==
  /\ role \in {"child", "parent"}
  /\ conn = IF role = "child" THEN "net" ELSE "announce"
  /\ switch = IF role = "child" THEN "announce" ELSE "idle"
  /\ air = {} /\ losses = 0

(* Reliable traffic of ours starts here (Sim.tick). *)
PiaUp == conn \in {"connected", "finalized"}

----------------------------------------------------------------------------
(* ConnectionManager.on_message: what it answers and where it goes. *)
ChildReplies(kind) ==
  CASE kind = "net11" /\ conn = "net" -> {"join"}
    [] kind = "type5" /\ conn # "connected" -> {"final"}
    [] OTHER -> {}

ChildMovesTo(kind) ==
  CASE kind \in {"type2", "type5"} /\ conn = "net" -> "finalize"
    [] kind = "rtt" /\ conn = "finalize" -> "connected"
    [] OTHER -> conn

(* HostConnectionManager.on_message. *)
ParentReplies(kind) == IF kind = "join" THEN {"type5"} ELSE {}

(* Mutant: a join is as good as a finalized session. *)
MutantJoinIsFinal(kind) == IF kind \in {"join", "final"} THEN "finalized" ELSE conn
ParentMovesTo(kind) ==
  CASE kind = "join" /\ conn # "finalized" -> "join_received"
    [] kind = "final" /\ conn = "join_received" -> "finalized"
    [] OTHER -> conn

OnPiaMessage ==
  \E m \in air :
    /\ m.to = "sim"
    /\ conn' = IF role = "child" THEN ChildMovesTo(m.kind) ELSE ParentMovesTo(m.kind)
    /\ UNCHANGED <<role, switch, losses>>
    /\ air' = InAir((air \ {m}) \cup
              ToSwitch(IF role = "child" THEN ChildReplies(m.kind) ELSE ParentReplies(m.kind)))

(* HostConnectionManager.poll: the periodic announcement. *)
Poll ==
  /\ role = "parent" /\ conn = "announce"
  /\ air' = air \cup ToSwitch({"net11"})
  /\ UNCHANGED <<role, conn, switch, losses>>

----------------------------------------------------------------------------
(* The Switch, external.  As a host it announces itself until it accepts a *)
(* join, repeats the acceptance until it is finalized and measures round   *)
(* trips.  As a guest it repeats its join until it is accepted, and its    *)
(* finalize, which our side never confirms, for as long as it likes.       *)
SwitchRepeats ==
  /\ air' = air \cup
       CASE switch = "announce" -> ToSim({"net11"})
         [] switch = "accepted" -> ToSim(IF EarlyRtt THEN {"type5", "rtt"} ELSE {"type5"})
         [] switch = "joining" -> ToSim({"join"})
         [] switch = "final" /\ ~PiaUp -> ToSim(IF role = "child" THEN {"rtt"} ELSE {"final"})
         [] OTHER -> {}
  /\ UNCHANGED <<role, conn, switch, losses>>

SwitchReceives ==
  \E m \in air :
    /\ m.to = "switch"
    /\ switch' = CASE m.kind = "join" /\ switch = "announce" -> "accepted"
                   [] m.kind = "final" /\ switch = "accepted" -> "final"
                   [] m.kind = "net11" /\ switch = "idle" -> "joining"
                   [] m.kind = "type5" /\ switch = "joining" -> "final"
                   [] OTHER -> switch
    /\ UNCHANGED <<role, conn, losses>>
    /\ air' = InAir((air \ {m}) \cup
              ToSim(CASE m.kind = "join" /\ switch = "announce" -> {"type2", "type5"}
                      [] m.kind = "net11" /\ switch = "idle" -> {"join"}
                      [] m.kind = "type5" /\ switch \in {"joining", "final"} -> {"final"}
                      [] OTHER -> {}))

LosePia ==
  \E m \in air :
    /\ losses < MaxLosses
    /\ losses' = losses + 1 /\ air' = air \ {m}
    /\ UNCHANGED <<role, conn, switch>>

PiaNext == OnPiaMessage \/ Poll \/ SwitchRepeats \/ SwitchReceives \/ LosePia

----------------------------------------------------------------------------
PiaTypeOK ==
  /\ conn \in Stages[role] /\ switch \in SwitchStages[role]
  /\ air \subseteq [to : {"sim", "switch"}, kind : Kinds]
  /\ losses \in 0..MaxLosses

(* The program takes the session for established only when the Switch does *)
(* (ConnectionManager and HostConnectionManager.on_message, at the edges   *)
(* into ST_CONNECTED and ST_FINALIZED).                                    *)
UpMeansFinalized == PiaUp => switch = "final"
=============================================================================
