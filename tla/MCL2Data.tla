------------------------------ MODULE MCL2Data ------------------------------
(* L2Data on small instances: the two stations, and what each has to send. *)
EXTENDS L2Data, TLC

CONSTANTS A, B

MCStation == {A, B}

FromA(n) == (A :> n) @@ (B :> 0)
OneOut   == FromA(1)
FiveOut  == FromA(5)
OneEach  == (A :> 1) @@ (B :> 1)
=============================================================================
