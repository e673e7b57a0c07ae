------------------------------ MODULE MCSignIn ------------------------------
(* Two users of the provider; requests are alike but for their slot. *)
EXTENDS SignIn, TLC

CONSTANTS r1, r2, f1, uma, ulf

MCAlike == Permutations(Requests) \cup Permutations(Users)
=============================================================================
