----------------------------- MODULE MCRecords -----------------------------
(* One player of two battles that count; the rankings hold three users.     *)
EXTENDS Records, TLC

CONSTANTS alice, bob, carol, h1, h2

MCSideOf == <<alice :> 1, alice :> 2>>
MCResults == {[win |-> 1, kill |-> 2]}
MCBoards == {<<"win", 0>>}
MCUploadsAlike == Permutations({h1, h2})
=============================================================================
