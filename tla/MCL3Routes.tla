----------------------------- MODULE MCL3Routes -----------------------------
(* Instances of L3Routes for TLC. *)
EXTENDS L3Routes, TLC

\* Keys of a function that is given only where it is not empty.
Table(f) == [d \in Nodes |-> IF d \in DOMAIN f THEN f[d] ELSE << >>]
Tables(f) == [n \in Nodes |-> Table(IF n \in DOMAIN f THEN f[n] ELSE << >>)]
Entry(m, quality, obs) == [via |-> m, quality |-> quality, obs |-> obs]

Bounds(losses, crashes, restarts, timers, calls, closes, fails) ==
    [losses |-> losses, crashes |-> crashes, restarts |-> restarts, timers |-> timers,
     calls |-> calls, closes |-> closes, fails |-> fails]

Both(E) == E \cup {<< e[2], e[1] >> : e \in E}

\* Three nodes in a row, of which A and C do not hear each other; no traffic.
Row == [nodes |-> {"A", "B", "C"}, hears |-> Both({<<"A", "B">>, <<"B", "C">>}),
        links |-> {}, calls |-> {}, known |-> Tables(<< >>),
        works |-> FALSE, broadcasts |-> TRUE, max |-> Bounds(1, 1, 1, 0, 0, 0, 0)]

\* A hears C, but its transmissions do not reach C: the best route of A to C
\* does not work, the one by way of B does.  C does not know A.
Detour == [nodes |-> {"A", "B", "C"}, hears |-> Both({<<"A", "B">>, <<"B", "C">>}),
           links |-> {{"A", "B"}, {"B", "C"}}, calls |-> {<<"A", "C">>},
           known |-> Tables([A |-> [C |-> << Entry("C", 192, OBSINIT), Entry("B", 144, OBSINIT) >>,
                                    B |-> << Entry("B", 192, OBSINIT) >>],
                             B |-> [A |-> << Entry("A", 192, OBSINIT) >>,
                                    C |-> << Entry("C", 192, OBSINIT) >>],
                             C |-> [B |-> << Entry("B", 192, OBSINIT) >>]]),
           works |-> TRUE, broadcasts |-> FALSE, max |-> Bounds(0, 0, 0, 1, 3, 0, 0)]

\* The row with traffic, and links that fail, are closed or go down with a node.
Line == [nodes |-> {"A", "B", "C"}, hears |-> Both({<<"A", "B">>, <<"B", "C">>}),
         links |-> {{"A", "B"}, {"B", "C"}}, calls |-> {<<"A", "C">>},
         known |-> Tables([A |-> [C |-> << Entry("B", 144, OBSINIT) >>,
                                  B |-> << Entry("B", 192, OBSINIT) >>],
                           B |-> [A |-> << Entry("A", 192, OBSINIT) >>,
                                  C |-> << Entry("C", 192, OBSINIT) >>],
                           C |-> [B |-> << Entry("B", 192, OBSINIT) >>]]),
         works |-> FALSE, broadcasts |-> FALSE, max |-> Bounds(0, 1, 0, 1, 1, 1, 1)]

\* A has lost D; B and C each think that the way to it is by way of the other.
Loop == [nodes |-> {"A", "B", "C"}, hears |-> {},
         links |-> {{"A", "B"}, {"B", "C"}}, calls |-> {<<"A", "D">>},
         known |-> Tables([A |-> [D |-> << Entry("B", 144, OBSINIT) >>],
                           B |-> [D |-> << Entry("C", 144, OBSINIT) >>],
                           C |-> [D |-> << Entry("B", 144, OBSINIT) >>]]),
         works |-> FALSE, broadcasts |-> FALSE, max |-> Bounds(0, 0, 0, 1, 2, 0, 0)]

All == {Row, Detour, Line, Loop}

\* Neither of A's two routes to D works any more, and it has had the second one
\* for a while.
Dead == [nodes |-> {"A"}, hears |-> {}, links |-> {}, calls |-> {<<"A", "D">>},
         known |-> Tables([A |-> [D |-> << Entry("D", 192, OBSINIT),
                                           Entry("B", 144, 2) >>]]),
         works |-> FALSE, broadcasts |-> FALSE, max |-> Bounds(0, 0, 0, 0, 4, 0, 0)]

Deads == {Dead}
=============================================================================
