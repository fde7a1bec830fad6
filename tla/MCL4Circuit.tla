---------------------------- MODULE MCL4Circuit -----------------------------
(* L4Circuit on small instances: A calls B, and what each has to send. *)
EXTENDS L4Circuit, TLC

CONSTANTS A, B

MCNode == {A, B}

Sending(a, b, batch, cap) ==
    [msgs |-> (A :> a) @@ (B :> b), batch |-> batch, cap |-> cap,
     closers |-> {}, busy |-> {}, restarts |-> {}]

\* Nine messages one way, over the wrap of the sequence numbers; two one way
\* and one the other way; and a circuit on which A's user closes when he likes,
\* B's session is slow and B may restart.
Circuits == {Sending(9, 0, 9, 1), Sending(2, 1, 1, 1),
             [Sending(2, 0, 2, 1) EXCEPT !.closers = {A}, !.busy = {B},
                                         !.restarts = {B}]}

\* One message held from the start, more than half the modulus the other way.
OldAck == {Sending(1, 6, 1, 1)}

FourOut == {Sending(4, 0, 4, 4)}
=============================================================================
