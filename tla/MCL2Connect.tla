---------------------------- MODULE MCL2Connect -----------------------------
(* L2Connect with two stations, each of which calls the other once. *)
EXTENDS L2Connect, TLC

CONSTANTS A, B

MCStation  == {A, B}
MCMaxCalls == (A :> 1) @@ (B :> 1)
=============================================================================
