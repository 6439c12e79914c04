-------------------------- MODULE MCRoomAuthority --------------------------
(***************************************************************************)
(* Instances of RoomAuthority for TLC.                                     *)
(***************************************************************************)
EXTENDS RoomAuthority

CONSTANTS o, g1, g2
=============================================================================
