---------------------------- MODULE MCFBBForward ----------------------------
(* Instances of FBBForward for TLC.  "l" is a bulletin of two units, "b"   *)
(* one of one unit, "p" a personal message.                                *)
EXTENDS FBBForward

Kinds == [m \in Messages |-> IF m = "p" THEN "P" ELSE "B"]
Sizes == [m \in Messages |-> IF m = "l" THEN 2 ELSE 1]

Network(calls, b1, has, route, breaks, damage, crashes) ==
    [max |-> [breaks |-> breaks, damage |-> damage, crashes |-> crashes],
     calls |-> calls, B1 |-> b1,
     has   |-> [b \in BBSs |-> IF b \in DOMAIN has THEN has[b] ELSE << >>],
     route |-> [b \in BBSs |-> [m \in Messages |->
                   IF b \in DOMAIN route /\ m \in DOMAIN route[b] THEN route[b][m] ELSE {}]]]

\* A has two bulletins for B, B a personal message for A; both can restart.
Pair == Network({<<"A", "B">>, <<"B", "A">>}, {{"A", "B"}},
                [A |-> <<"l", "b">>, B |-> <<"p">>],
                [A |-> [l |-> {"B"}, b |-> {"B"}], B |-> [p |-> {"A"}]],
                2, 1, 1)

\* A personal message for a user of C goes by way of B.
Relay == Network({<<"A", "B">>, <<"B", "C">>}, {{"A", "B"}, {"B", "C"}},
                 [A |-> <<"p">>], [A |-> [p |-> {"B"}], B |-> [p |-> {"C"}]],
                 2, 1, 1)

\* A bulletin written at A floods a triangle of BBSs that cannot restart.
Triangle == Network({<<"A", "B">>, <<"A", "C">>, <<"B", "C">>, <<"C", "B">>}, {},
                    [A |-> <<"b">>],
                    [A |-> [b |-> {"B", "C"}], B |-> [b |-> {"C"}], C |-> [b |-> {"B"}]],
                    1, 0, 0)

\* A and C both have a bulletin for B; both can restart.
Feeders == Network({<<"A", "B">>, <<"C", "B">>}, {{"A", "B"}, {"B", "C"}},
                   [A |-> <<"l">>, C |-> <<"l">>],
                   [A |-> [l |-> {"B"}], C |-> [l |-> {"B"}]],
                   1, 0, 0)

Passing == {Pair, Relay, Triangle}
TwoFeeders == {Feeders}
=============================================================================
