------------------------- MODULE MCFleetLiveService -------------------------
(* FleetLiveService for TLC: one project that discovery finds, loses and   *)
(* finds again.                                                            *)
EXTENDS FleetLiveService

CONSTANTS r1, c1, c2, b1
=============================================================================
