----------------------------- MODULE MCChatNet ------------------------------
(* Instances of ChatNet.                                                   *)
EXTENDS ChatNet

CONSTANTS A, B, C, u1, u2, u3, common, other

MCCalls == {u1, u2, u3}
MCTopics == {common, other}

Both(m, n) == {<< m, n >>, << n, m >>}

Text(at, t) == [at |-> at, text |-> << t >>, settled |-> FALSE]

Network(links, logins) ==
    [links |-> links, logins |-> logins, here |-> {}, up |-> {}, tree |-> TRUE, slow |-> FALSE,
     max |-> [crossings |-> 0, fails |-> 0, breaks |-> 0, crashes |-> 0, quick |-> 0,
              ticks |-> 0, logins |-> 2, logouts |-> 0, topics |-> 0, says |-> << >>]]

\* Two nodes with a user each.
Pair == [Network(Both(A, B), {<< A, u1 >>, << B, u2 >>})
         EXCEPT !.max.crossings = 1, !.max.fails = 1, !.max.ticks = 1, !.max.logouts = 1]

\* Three in a row, users at both ends.
Row == Network(Both(A, B) \cup Both(B, C), {<< A, u1 >>, << C, u2 >>})

Breaking == [Row EXCEPT !.max.logouts = 1, !.max.breaks = 1]
Crashing == [Row EXCEPT !.max.logouts = 1, !.max.crashes = 1]
\* One user, whose leave may come too soon.
Hasty == [Row EXCEPT !.logins = {<< A, u1 >>}, !.max.logins = 1, !.max.logouts = 1,
                     !.max.quick = 2, !.max.breaks = 1]
Talking == [Row EXCEPT !.slow = TRUE, !.max.topics = 1,
                       !.max.says = << Text({A, C}, 1), Text({A, C}, 2) >>]

\* A and B are linked, there is a user on each, and both call C.  The code has C
\* take a call only from a node it has a LINK entry for: here links says who
\* calls, and that C would call too is left out.
Ring == [Network({<< B, C >>, << A, C >>}, {})
         EXCEPT !.here = {<< A, u1 >>, << B, u2 >>, << C, u3 >>}, !.up = {<< A, B >>},
                !.tree = FALSE, !.max.says = << [Text({A}, 1) EXCEPT !.settled = TRUE] >>]

MCNetworks == {Pair, Breaking, Crashing, Talking, Hasty, Ring}
=============================================================================
