--------------------------- MODULE MCRelayControl ---------------------------
(* Players of two region groups; a relay is needed when both are there. *)
EXTENDS RelayControl, TLC

CONSTANTS r1, east, anna, ben

MCRegionOf == r1 :> east
MCGroupOf == (anna :> "asia") @@ (ben :> "europe")
MCCrowds == {{}, {anna, ben}}
=============================================================================
