------------------------------ MODULE MCRelay ------------------------------
(* Two sessions, one of which may be given another token; two slots; two   *)
(* IPv4 addresses and an IPv6 one.                                         *)
EXTENDS Relay, TLC

CONSTANTS b1, b2, t1, t2, t3, v4a, v4b, v6

MCIdOf == (t1 :> b1) @@ (t2 :> b2) @@ (t3 :> b1)
MCFamily == (v4a :> 0) @@ (v4b :> 0) @@ (v6 :> 1)
=============================================================================
