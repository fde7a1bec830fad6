------------------------------ MODULE L4Entry -------------------------------
(***************************************************************************)
(* One end of a NET/ROM level 4 circuit: a TRANSPORTENTRY of type SESSION  *)
(* and each routine of L4Code.c that transforms it, as an operator from    *)
(* the entry before the call to [link, out]: the entry after it and the    *)
(* messages it queues for the node at the other end.                       *)
(*                                                                         *)
(* Left out: compression and fragmentation of a message, IP and the other  *)
(* uses of opcode 0, round trip times, and GetBuff() returning NULL.       *)
(***************************************************************************)
EXTENDS Integers, Sequences, SequencesExt

CONSTANTS Modulus,     \* modulus of TXSEQNO, RXSEQNO and L4WS (256 in the code)
          L4WINDOW,    \* the window agreed when the circuit was set up
          L4N2         \* the L4RETRIES keyword

ASSUME ModulusAssumption  == Modulus \in {8, 16, 256}
ASSUME L4WindowAssumption == L4WINDOW \in 1..(Modulus \div 2 - 2)
ASSUME L4N2Assumption     == L4N2 \in Nat

Half  == Modulus \div 2
SeqNo == 0..(Modulus - 1)
NoId  == 0                              \* a FARID that is not known yet

\* Mutant: a sequence number that is wider than a byte.
Plus_NoWrap(i, n) == i + n

Plus(i, n) == (i + n) % Modulus

(***************************************************************************)
(* A level 4 message.  id is L4ID, the circuit it is for (its caller's in  *)
(* CREQ and CACK); rx is L4RXNO, in CACK the id of the called end; busy    *)
(* and nak are L4BUSY and L4NAK of L4FLAGS; m is the data of an INFO.      *)
(***************************************************************************)
Msg(t, id, tx, rx, busy, nak, m) ==
    [type |-> t, id |-> id, tx |-> tx, rx |-> rx, busy |-> busy, nak |-> nak,
     m |-> m]

Control(t, id) == Msg(t, id, 0, 0, FALSE, FALSE, 0)

(***************************************************************************)
(* Data is numbered in the order the session's partner queues it: L4TX_Q   *)
(* is the interval (sent, queued], RX is all that IFRM150 was handed.      *)
(* partner: a session or user is attached (L4CROSSLINK, or the command     *)
(* handler).  choked is L4BUSY in FLAGS, told is L4BUSY in NAKBITS, nak    *)
(* is L4NAK there.  corrupt: a buffer that is still on L4RESEQ_Q has been  *)
(* handed on, after which nothing is known of the queue.                   *)
(***************************************************************************)
FreeEntry ==
    [L4STATE |-> 0, CIRCUITID |-> NoId, FARID |-> NoId, TXSEQNO |-> 0,
     L4WS |-> 0, RXSEQNO |-> 0, L4LASTACKED |-> 0, L4HOLD_Q |-> << >>,
     L4RESEQ_Q |-> << >>, choked |-> FALSE, DISCPENDING |-> FALSE,
     told |-> FALSE, nak |-> FALSE, L4TIMER |-> FALSE, L4ACKREQ |-> FALSE,
     L4RETRIES |-> 0, partner |-> FALSE, queued |-> 0, sent |-> 0,
     RX |-> << >>, corrupt |-> FALSE]

\* A new entry of the calling end (state 2) or of the called end (state 5).
NewEntry(state, id, far) ==
    [FreeEntry EXCEPT !.L4STATE = state, !.CIRCUITID = id, !.FARID = far,
                      !.partner = TRUE]

Silent(L) == [link |-> L, out |-> << >>]
CLEARSESSIONENTRY == FreeEntry
TX_QEmpty(L) == L.sent = L.queued

-----------------------------------------------------------------------------
(* Sending.                                                                *)

\* Frames sent and not acknowledged, an unsigned byte.
Outstanding(L) == (L.TXSEQNO - L.L4WS) % Modulus

\* SENDL4MESSAGE builds the k-th of the messages that go out in this pass.
Info(L, k, busy) == Msg("INFO", L.FARID, Plus(L.TXSEQNO, k - 1), L.RXSEQNO,
                        busy, L.nak, L.sent + k)

\* L4BG: how many messages may go now.  The window is checked with ">".
MaySend(L) == IF L.choked THEN 0 ELSE L4WINDOW + 1 - Outstanding(L)

\* Mutant: the copy for a retry is not kept.
SendInfos_NoCopy(L, n, busy) ==
    [link |-> [L EXCEPT !.TXSEQNO = Plus(@, n), !.sent = @ + n,
                 !.L4LASTACKED = L.RXSEQNO, !.told = busy, !.L4TIMER = TRUE,
                 !.L4ACKREQ = FALSE],
     out  |-> [k \in 1..n |-> Info(L, k, busy)]]

\* SENDL4MESSAGE for the next n messages of L4TX_Q.
SendInfos(L, n, busy) ==
    LET infos == [k \in 1..n |-> Info(L, k, busy)]
    IN  [link |-> [L EXCEPT !.TXSEQNO = Plus(@, n), !.sent = @ + n,
                     !.L4LASTACKED = L.RXSEQNO, !.told = busy,
                     !.L4TIMER = TRUE, !.L4ACKREQ = FALSE,
                     !.L4HOLD_Q = @ \o infos],
         out  |-> infos]

SENDL4IACK(L, busy) ==
    [link |-> [L EXCEPT !.L4LASTACKED = L.RXSEQNO, !.told = busy],
     out  |-> << Msg("IACK", L.FARID, 0, L.RXSEQNO, busy, L.nak, 0) >>]

SENDL4CONNECT(L) ==
    [link |-> [L EXCEPT !.L4TIMER = TRUE],
     out  |-> << Control("CREQ", L.CIRCUITID) >>]

SENDL4DISC(L) ==
    IF L.L4STATE < 4 THEN Silent(CLEARSESSIONENTRY)
    ELSE [link |-> [L EXCEPT !.L4STATE = 4, !.L4TIMER = TRUE,
                             !.L4ACKREQ = FALSE],
          out  |-> << Control("DREQ", L.FARID) >>]

\* The timer must run while anything is held or waits for the choke to end.
KeepsTimer(L, left) == L.L4HOLD_Q # << >> \/ (L.choked /\ left > 0)

\* L4BG for one entry: send what the window allows, keep the timer running
\* while anything is held, acknowledge at once when a window full has come in.
L4BG(L, busy) ==
    LET room == MaySend(L)
        left == L.queued - L.sent
        n    == IF room < 0 THEN 0 ELSE IF room < left THEN room ELSE left
        S    == IF n = 0 THEN Silent(L) ELSE SendInfos(L, n, busy)
        T    == [S.link EXCEPT !.L4TIMER = @ \/ KeepsTimer(S.link, left - n)]
    IN  IF (T.RXSEQNO - T.L4LASTACKED) % Modulus >= L4WINDOW
        THEN [SENDL4IACK(T, busy) EXCEPT !.out = S.out \o @]
        ELSE [link |-> T, out |-> S.out]

-----------------------------------------------------------------------------
(* Acknowledgements.                                                       *)

\* Mutant: one frame more than was acknowledged.
AckCount_OneMore(L, nr) == Plus(nr + 1, -L.L4WS)

\* ACKFRAMES: the difference is made positive only below -Half.
AckCount(L, nr) == IF nr - L.L4WS < -Half THEN nr - L.L4WS + Modulus
                   ELSE nr - L.L4WS

\* L4WS moves on by n and the first n frames leave the hold queue.
Release(L, n) == [L EXCEPT !.L4WS = Plus(@, n),
                           !.L4HOLD_Q = SubSeq(@, n + 1, Len(@))]

ACKFRAMES(L, f) ==
    LET n == AckCount(L, f.rx)
        K == [Release(L, n) EXCEPT !.L4TIMER = f.rx # L.TXSEQNO,
                                   !.L4RETRIES = 0]
    IN  IF n < 0 THEN Silent(L)
        ELSE IF f.rx = L.TXSEQNO /\ L.DISCPENDING /\ TX_QEmpty(L)
        THEN SENDL4DISC(K)
        ELSE [link |-> [K EXCEPT !.choked = f.busy],
              out  |-> IF f.nak /\ K.L4HOLD_Q # << >>
                       THEN << Head(K.L4HOLD_Q) >> ELSE << >>]

-----------------------------------------------------------------------------
(* Receiving data.                                                         *)

\* Mutant: a frame from before RXSEQNO counts as one that is due.
FramesMissing_NotLess(L, tx) == IF tx > L.RXSEQNO THEN tx - L.RXSEQNO ELSE 0

\* FramesMissing: the difference is made negative only above Half.
FramesMissing(L, tx) == IF tx - L.RXSEQNO > Half THEN tx - L.RXSEQNO - Modulus
                        ELSE tx - L.RXSEQNO

\* A frame that is due is handed to IFRM150.
Deliver(L, m) == [L EXCEPT !.RXSEQNO = Plus(@, 1), !.RX = Append(@, m),
                           !.nak = FALSE, !.L4ACKREQ = TRUE]

(***************************************************************************)
(* One turn of the search of L4RESEQ_Q for the frame that is due now.      *)
(* Found at the head it is unlinked and delivered.  Found further on,      *)
(* "Prev" points at the local variable Saved, so that "*Prev =             *)
(* Saved->Next" leaves the queue as it is and moves Saved on: the frame    *)
(* behind the one wanted is delivered in its place, or none when it is     *)
(* the last.                                                               *)
(***************************************************************************)
FirstDue(L) == SelectInSeq(L.L4RESEQ_Q, LAMBDA g : g.tx = L.RXSEQNO)

TakeSaved(L) ==
    LET q == L.L4RESEQ_Q
        p == FirstDue(L)
    IN  IF p = 1 THEN Deliver([L EXCEPT !.L4RESEQ_Q = Tail(q)], q[1].m)
        ELSE IF p > 1 /\ p < Len(q)
        THEN Deliver([L EXCEPT !.corrupt = TRUE], q[p + 1].m)
        ELSE L

\* Each turn that delivers moves RXSEQNO on, so Len(L4RESEQ_Q) turns are enough.
CheckReseq(L) == FoldLeft(LAMBDA K, g : TakeSaved(K), L, L.L4RESEQ_Q)

\* A frame that came early is kept once.
Save(L, f) == IF \E k \in DOMAIN L.L4RESEQ_Q : L.L4RESEQ_Q[k].tx = f.tx THEN L
              ELSE [L EXCEPT !.L4RESEQ_Q = Append(@, f)]

\* FRAMEFORUS, L4INFO.
RecvINFO(L, f, busy) ==
    LET acked == ACKFRAMES(L, f)
        K == acked.link
        d == FramesMissing(K, f.tx)
    IN  IF L.L4STATE = 2 THEN Silent(L)
        ELSE IF K.DISCPENDING \/ K.L4STATE # 5 THEN acked
        ELSE IF d < 0 THEN [acked EXCEPT !.link.L4ACKREQ = TRUE]
        ELSE IF d = 0 THEN [acked EXCEPT !.link = CheckReseq(Deliver(K, f.m))]
        ELSE LET N == SENDL4IACK([K EXCEPT !.nak = TRUE], busy)
             IN  [link |-> Save(N.link, f), out |-> acked.out \o N.out]

-----------------------------------------------------------------------------
(* Connecting and disconnecting.                                           *)

\* FRAMEFORUS, L4CACK: refused, a repeat, or the circuit is up.
RecvCACK(L, f) ==
    IF f.busy THEN Silent(CLEARSESSIONENTRY)
    ELSE IF L.L4STATE = 5 THEN Silent(L)
    ELSE Silent([L EXCEPT !.L4STATE = 5, !.FARID = f.rx, !.L4TIMER = FALSE,
                          !.L4RETRIES = 0])

\* FRAMEFORUS, L4DREQ.
RecvDREQ(L) == [link |-> CLEARSESSIONENTRY,
                out  |-> << Control("DACK", L.FARID) >>]

\* CLOSECURRENTSESSION for a level 4 session.
CLOSECURRENTSESSION(L) ==
    LET C == [L EXCEPT !.partner = FALSE]
    IN  IF L.L4HOLD_Q # << >> \/ ~TX_QEmpty(L)
        THEN Silent([C EXCEPT !.DISCPENDING = TRUE])
        ELSE SENDL4DISC(C)

\* Mutant: tries are not counted.
Retried_NotCounted(L) == [L EXCEPT !.L4TIMER = FALSE]

Retried(L) == [L EXCEPT !.L4TIMER = FALSE, !.L4RETRIES = @ + 1]

\* L4TIMEOUT, L being the entry with the timer run down and the try counted.
L4TIMEOUT(L) ==
    IF L.L4RETRIES > L4N2 THEN Silent(CLEARSESSIONENTRY)
    ELSE IF L.L4STATE = 2 THEN SENDL4CONNECT(L)
    ELSE IF L.L4STATE = 4 THEN SENDL4DISC(L)
    ELSE [link |-> [L EXCEPT !.choked = FALSE], out |-> L.L4HOLD_Q]
=============================================================================
