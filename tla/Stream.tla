------------------------------- MODULE Stream -------------------------------
(***************************************************************************)
(* What a level 2 link promises the session above it: each end's messages  *)
(* are handed to the other end in the order they were queued, none missing *)
(* and none twice, until an end goes down; an end that is down takes no    *)
(* more, is handed no more and does not come up again.  A step of one end  *)
(* may hand over several messages (those saved out of sequence) and may    *)
(* take the end down as well.                                              *)
(***************************************************************************)
EXTENDS Integers, Sequences

CONSTANT Ends                       \* the two ends

VARIABLES queued,                   \* how many messages each end was given
          got,                      \* what each end has handed up
          open                      \* the ends that are up

Peer(e) == CHOOSE f \in Ends : f # e

Init == /\ queued = [e \in Ends |-> 0]
        /\ got = [e \in Ends |-> << >>]
        /\ open = [e \in Ends |-> TRUE]

\* The session hands over one or more messages.
Queue(e) == /\ open[e]
            /\ queued'[e] > queued[e]
            /\ queued' = [queued EXCEPT ![e] = queued'[e]]
            /\ UNCHANGED << got, open >>

\* The next n messages of the other end, and whether the end stays up.
HandOver(e, n, up) ==
    /\ open[e]
    /\ Len(got[e]) + n <= queued[Peer(e)]
    /\ got' = [got EXCEPT ![e] = @ \o [k \in 1..n |-> Len(@) + k]]
    /\ open' = [open EXCEPT ![e] = up]
    /\ UNCHANGED queued

Next == \E e \in Ends :
            \/ Queue(e)
            \/ \E n \in 0..queued[Peer(e)], up \in BOOLEAN : HandOver(e, n, up)

Spec == Init /\ [][Next]_<< queued, got, open >>
=============================================================================
