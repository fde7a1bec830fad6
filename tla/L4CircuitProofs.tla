--------------------------- MODULE L4CircuitProofs ---------------------------
(***************************************************************************)
(* Entries and messages keep their types, for any window, modulus, number  *)
(* of tries, traffic, loss and restarts.                                   *)
(*                                                                         *)
(* TypeOK is not inductive: what L4BG may send is bounded by what is left  *)
(* on L4TX_Q, and that is a number only while no more was sent than was    *)
(* queued.  TInv adds that.                                                *)
(***************************************************************************)
EXTENDS L4Circuit, FoldProofs

\* What the assumptions on the constants give.
LEMMA ModulusIsNat == Modulus \in Nat \ {0} /\ Half \in Nat /\ Half + Half = Modulus /\ L4WINDOW \in Nat
  BY ModulusAssumption, L4WindowAssumption DEF Half

\* A remainder is a sequence number.
LEMMA WrapsToSeqNo == \A x \in Int : x % Modulus \in SeqNo
  BY ModulusIsNat DEF SeqNo

\* Plus gives a sequence number.
LEMMA PlusIsSeqNo == \A i, n \in Int : Plus(i, n) \in SeqNo
  BY WrapsToSeqNo DEF Plus

\* A sequence number is its own remainder.
LEMMA NoWrap == \A x \in SeqNo : x % Modulus = x
  BY ModulusIsNat DEF SeqNo

\* A free entry is a TRANSPORTENTRY.
LEMMA FreeIsEntry == FreeEntry \in Entries
  BY ModulusIsNat DEF FreeEntry, Entries, SeqNo, NoId

\* So is one that CONNECTREQUEST or a call has just filled in.
LEMMA NewIsEntry ==
    ASSUME NEW state \in {2, 5}, NEW id \in Nat, NEW far \in Nat
    PROVE  NewEntry(state, id, far) \in Entries
  BY FreeIsEntry DEF NewEntry, Entries

\* Msg builds level 4 messages.
LEMMA MsgIsMsg ==
    ASSUME NEW t \in MsgTypes, NEW id \in Nat, NEW tx \in SeqNo, NEW rx \in Nat,
           NEW b \in BOOLEAN, NEW nk \in BOOLEAN, NEW m \in Nat
    PROVE  Msg(t, id, tx, rx, b, nk, m) \in Msgs
  BY DEF Msg, Msgs

\* Control builds the ones that carry no data.
LEMMA ControlIsMsg ==
    ASSUME NEW t \in MsgTypes, NEW id \in Nat
    PROVE  Control(t, id) \in Msgs
<1>1. 0 \in SeqNo /\ 0 \in Nat
  BY ModulusIsNat DEF SeqNo
<1> QED
  BY <1>1 DEF Control, Msg, Msgs

\* No more is sent than was queued.
Sane == {L \in Entries : L.sent <= L.queued}

\* An entry and the messages it sends.
Results == [link : Sane, out : Seq(Msgs)]

\* The fields of a sane entry.
LEMMA Fields ==
    ASSUME NEW L \in Sane
    PROVE  /\ L \in Entries
           /\ L.TXSEQNO \in SeqNo /\ L.L4WS \in SeqNo /\ L.RXSEQNO \in SeqNo
           /\ L.TXSEQNO \in Nat /\ L.L4WS \in Nat /\ L.RXSEQNO \in Nat
           /\ L.L4LASTACKED \in Nat /\ L.L4LASTACKED \in SeqNo
           /\ L.sent \in Nat /\ L.queued \in Nat /\ L.sent <= L.queued
           /\ L.L4RETRIES \in Nat /\ L.CIRCUITID \in Nat /\ L.FARID \in Nat
           /\ L.L4STATE \in {0, 2, 4, 5}
           /\ L.L4HOLD_Q \in Seq(Msgs) /\ L.L4RESEQ_Q \in Seq(Msgs) /\ L.RX \in Seq(Nat)
           /\ L.nak \in BOOLEAN /\ L.L4TIMER \in BOOLEAN
<1>1. L \in Entries /\ L.sent <= L.queued
  BY DEF Sane
<1>2. \A x \in SeqNo : x \in Nat
  BY ModulusIsNat DEF SeqNo
<1> QED
  BY <1>1, <1>2 DEF Entries

\* A free entry is sane.
LEMMA FreeIsSane == FreeEntry \in Sane
  BY FreeIsEntry DEF FreeEntry, Sane

\* So is a new one.
LEMMA NewIsSane ==
    ASSUME NEW state \in {2, 5}, NEW id \in Nat, NEW far \in Nat
    PROVE  NewEntry(state, id, far) \in Sane
<1>1. NewEntry(state, id, far).sent = 0 /\ NewEntry(state, id, far).queued = 0
  BY DEF NewEntry, FreeEntry
<1> QED
  BY <1>1, NewIsEntry DEF Sane

\* A routine that sends nothing.
LEMMA SilentIsResult ==
    ASSUME NEW L \in Sane PROVE Silent(L) \in Results
  BY DEF Silent, Results

\* A routine that sends one message.
LEMMA OneSent ==
    ASSUME NEW L \in Sane, NEW f \in Msgs
    PROVE  [link |-> L, out |-> << f >>] \in Results
  BY DEF Results

\* SENDL4IACK leaves a sane entry and sends messages.
LEMMA IackIsResult ==
    ASSUME NEW L \in Sane, NEW busy \in BOOLEAN
    PROVE  SENDL4IACK(L, busy) \in Results
<1>1. [L EXCEPT !.L4LASTACKED = L.RXSEQNO, !.told = busy] \in Sane
  BY DEF Entries, Sane
<1>2. Msg("IACK", L.FARID, 0, L.RXSEQNO, busy, L.nak, 0) \in Msgs
  BY ModulusIsNat DEF Entries, Sane, SeqNo, Msg, Msgs, MsgTypes
<1> QED
  BY <1>1, <1>2, OneSent DEF SENDL4IACK

\* SENDL4DISC does.
LEMMA DiscIsResult ==
    ASSUME NEW L \in Sane
    PROVE  SENDL4DISC(L) \in Results
<1>1. [L EXCEPT !.L4STATE = 4, !.L4TIMER = TRUE, !.L4ACKREQ = FALSE] \in Sane
  BY DEF Entries, Sane
<1>2. Control("DREQ", L.FARID) \in Msgs
  BY ControlIsMsg, Fields DEF MsgTypes
<1> QED
  BY <1>1, <1>2, OneSent, SilentIsResult, FreeIsSane DEF SENDL4DISC, CLEARSESSIONENTRY

\* SENDL4CONNECT does.
LEMMA ConnectIsResult ==
    ASSUME NEW L \in Sane
    PROVE  SENDL4CONNECT(L) \in Results
<1>1. [L EXCEPT !.L4TIMER = TRUE] \in Sane
  BY DEF Entries, Sane
<1>2. Control("CREQ", L.CIRCUITID) \in Msgs
  BY ControlIsMsg, Fields DEF MsgTypes
<1> QED
  BY <1>1, <1>2, OneSent DEF SENDL4CONNECT

\* What SENDL4MESSAGE builds are messages.
LEMMA InfosAreMsgs ==
    ASSUME NEW L \in Sane, NEW n \in Nat, NEW busy \in BOOLEAN
    PROVE  [k \in 1..n |-> Info(L, k, busy)] \in Seq(Msgs)
<1>1. ASSUME NEW k \in 1..n PROVE Info(L, k, busy) \in Msgs
  <2>1. Plus(L.TXSEQNO, k - 1) \in SeqNo
    BY PlusIsSeqNo, Fields
  <2>2. L.FARID \in Nat /\ L.RXSEQNO \in Nat /\ L.nak \in BOOLEAN /\ L.sent + k \in Nat
    BY Fields
  <2>3. "INFO" \in MsgTypes
    BY DEF MsgTypes
  <2> QED
    BY <2>1, <2>2, <2>3, MsgIsMsg DEF Info
<1> QED
  BY <1>1

\* Sending n messages takes n from L4TX_Q.
LEMMA InfosIsResult ==
    ASSUME NEW L \in Sane, NEW n \in Nat, n <= L.queued - L.sent, NEW busy \in BOOLEAN
    PROVE  /\ SendInfos(L, n, busy) \in Results
           /\ SendInfos(L, n, busy).link.sent = L.sent + n
<1> DEFINE infos == [k \in 1..n |-> Info(L, k, busy)]
<1>1. infos \in Seq(Msgs)
  BY InfosAreMsgs
<1>2. Plus(L.TXSEQNO, n) \in SeqNo
  BY PlusIsSeqNo, Fields
<1>3. \A q \in Seq(Msgs) : \A t \in SeqNo : \A c \in Nat : c <= L.queued =>
        [L EXCEPT !.TXSEQNO = t, !.sent = c, !.L4LASTACKED = L.RXSEQNO, !.told = busy,
                  !.L4TIMER = TRUE, !.L4ACKREQ = FALSE, !.L4HOLD_Q = q] \in Sane
  <2> SUFFICES ASSUME NEW q \in Seq(Msgs), NEW t \in SeqNo, NEW c \in Nat, c <= L.queued
               PROVE  [L EXCEPT !.TXSEQNO = t, !.sent = c, !.L4LASTACKED = L.RXSEQNO,
                                !.told = busy, !.L4TIMER = TRUE, !.L4ACKREQ = FALSE,
                                !.L4HOLD_Q = q] \in Sane
    OBVIOUS
  <2>1. [L EXCEPT !.TXSEQNO = t, !.sent = c, !.L4LASTACKED = L.RXSEQNO] \in Sane
    BY DEF Entries, Sane
  <2>2. \A X \in Sane : [X EXCEPT !.told = busy, !.L4TIMER = TRUE] \in Sane
    BY DEF Entries, Sane
  <2>3. \A X \in Sane : [X EXCEPT !.L4ACKREQ = FALSE, !.L4HOLD_Q = q] \in Sane
    BY DEF Entries, Sane
  <2> DEFINE A == [L EXCEPT !.TXSEQNO = t, !.sent = c, !.L4LASTACKED = L.RXSEQNO]
             B == [A EXCEPT !.told = busy, !.L4TIMER = TRUE]
  <2>4. [B EXCEPT !.L4ACKREQ = FALSE, !.L4HOLD_Q = q] \in Sane
    <3> HIDE DEF A
    <3>1. B \in Sane
      BY <2>1, <2>2 DEF A
    <3> HIDE DEF B
    <3> QED BY <2>3, <3>1
  <2> QED BY <2>4
<1>4. L.sent + n \in Nat /\ L.sent + n <= L.queued /\ L.L4HOLD_Q \o infos \in Seq(Msgs)
  <2> HIDE DEF infos
  <2> QED BY <1>1, Fields
<1> DEFINE K == [L EXCEPT !.TXSEQNO = Plus(@, n), !.sent = @ + n, !.L4LASTACKED = L.RXSEQNO, !.told = busy,
                  !.L4TIMER = TRUE, !.L4ACKREQ = FALSE, !.L4HOLD_Q = @ \o infos]
<1>5. K \in Sane
  <2> HIDE DEF infos
  <2> QED BY <1>2, <1>3, <1>4
<1>6. K.sent = L.sent + n
  <2> HIDE DEF infos
  <2> QED BY DEF Sane, Entries
<1>7. SendInfos(L, n, busy) = [link |-> K, out |-> infos]
  BY DEF SendInfos
<1> QED
  <2> HIDE DEF infos, K
  <2> QED BY <1>1, <1>5, <1>6, <1>7 DEF Results

\* L4BG leaves a sane entry and sends messages.
LEMMA BGIsResult ==
    ASSUME NEW L \in Sane, NEW busy \in BOOLEAN
    PROVE  L4BG(L, busy) \in Results
<1> DEFINE room == MaySend(L)
           left == L.queued - L.sent
           n    == IF room < 0 THEN 0 ELSE IF room < left THEN room ELSE left
           S    == IF n = 0 THEN Silent(L) ELSE SendInfos(L, n, busy)
           T    == [S.link EXCEPT !.L4TIMER = @ \/ KeepsTimer(S.link, left - n)]
<1>1. room \in Int /\ left \in Nat
  <2>1. L.TXSEQNO - L.L4WS \in Int
    BY Fields
  <2>2. Outstanding(L) \in Nat
    BY <2>1, WrapsToSeqNo, ModulusIsNat DEF Outstanding, SeqNo
  <2> QED
    BY <2>2, Fields, ModulusIsNat DEF MaySend
<1>2. n \in Nat /\ n <= left
  <2> HIDE DEF room, left
  <2> QED BY <1>1
<1>3. S \in Results
  <2> HIDE DEF n
  <2> QED BY <1>2, InfosIsResult, SilentIsResult
<1>4. \A K \in Sane : \A b \in BOOLEAN : [K EXCEPT !.L4TIMER = b] \in Sane
  <2>1. ASSUME NEW K \in Sane, NEW b \in BOOLEAN
        PROVE  /\ [K EXCEPT !.L4TIMER = b] \in Entries
               /\ [K EXCEPT !.L4TIMER = b].sent = K.sent
               /\ [K EXCEPT !.L4TIMER = b].queued = K.queued
    <3>1. K \in Entries
      BY DEF Sane
    <3> QED BY <3>1 DEF Entries
  <2> QED BY <2>1 DEF Sane
<1>5. S.link \in Sane /\ S.out \in Seq(Msgs)
  <2> HIDE DEF S
  <2> QED BY <1>3 DEF Results
<1>6. T \in Sane
  <2> HIDE DEF S
  <2>1. (S.link.L4TIMER \/ KeepsTimer(S.link, left - n)) \in BOOLEAN
    BY <1>5, Fields DEF KeepsTimer
  <2> QED BY <1>4, <1>5, <2>1
<1>7. SENDL4IACK(T, busy) \in Results
  <2> HIDE DEF T
  <2> QED BY <1>6, IackIsResult
<1>8. [SENDL4IACK(T, busy) EXCEPT !.out = S.out \o @] \in Results
  <2> HIDE DEF S, T
  <2> DEFINE R == SENDL4IACK(T, busy)
             q == S.out \o R.out
  <2>1. R.link \in Sane /\ R.out \in Seq(Msgs)
    BY <1>7 DEF Results
  <2>2. q \in Seq(Msgs)
    <3> HIDE DEF R
    <3> QED BY <1>5, <2>1
  <2>3. \A x \in Seq(Msgs) : [R EXCEPT !.out = x] \in Results
    <3>1. \A X \in Results : \A x \in Seq(Msgs) : [X EXCEPT !.out = x] \in Results
      BY DEF Results
    <3>2. R \in Results
      BY <1>7
    <3> HIDE DEF R, T, S
    <3> QED BY <3>1, <3>2
  <2>4. [R EXCEPT !.out = q] \in Results
    <3> HIDE DEF R, q
    <3> QED BY <2>2, <2>3
  <2> QED BY <2>4
<1>9. [link |-> T, out |-> S.out] \in Results
  <2> HIDE DEF S, T
  <2> QED BY <1>5, <1>6 DEF Results
<1> QED
  <2> HIDE DEF S, T
  <2>1. L4BG(L, busy) = IF (T.RXSEQNO - T.L4LASTACKED) % Modulus >= L4WINDOW
        THEN [SENDL4IACK(T, busy) EXCEPT !.out = S.out \o @]
        ELSE [link |-> T, out |-> S.out]
    BY DEF L4BG, S, T
  <2> QED BY <1>8, <1>9, <2>1

\* ACKFRAMES counts with integers.
LEMMA CountIsInt ==
    ASSUME NEW L \in Sane, NEW nr \in Nat PROVE AckCount(L, nr) \in Int
  BY Fields, ModulusIsNat DEF AckCount

\* Taking frames off the hold queue leaves a sane entry.
LEMMA ReleaseIsSane ==
    ASSUME NEW L \in Sane, NEW n \in Nat, NEW b \in BOOLEAN
    PROVE  [Release(L, n) EXCEPT !.L4TIMER = b, !.L4RETRIES = 0] \in Sane
<1>1. Plus(L.L4WS, n) \in SeqNo
  BY PlusIsSeqNo, Fields
<1>2. SubSeq(L.L4HOLD_Q, n + 1, Len(L.L4HOLD_Q)) \in Seq(Msgs)
  BY Fields
<1>3. \A w \in SeqNo : \A q \in Seq(Msgs) :
        [[L EXCEPT !.L4WS = w, !.L4HOLD_Q = q] EXCEPT !.L4TIMER = b, !.L4RETRIES = 0] \in Sane
  BY DEF Sane, Entries
<1> QED
  BY <1>1, <1>2, <1>3 DEF Release

\* ACKFRAMES leaves a sane entry and sends messages.
LEMMA AckIsResult ==
    ASSUME NEW L \in Sane, NEW f \in Msgs
    PROVE  ACKFRAMES(L, f) \in Results
<1> DEFINE n == AckCount(L, f.rx)
           K == [Release(L, n) EXCEPT !.L4TIMER = f.rx # L.TXSEQNO, !.L4RETRIES = 0]
<1>1. f.rx \in Nat /\ f.busy \in BOOLEAN
  BY DEF Msgs
<1>2. n \in Int
  BY <1>1, CountIsInt
<1>3. ASSUME n >= 0 PROVE K \in Sane
  <2>1. n \in Nat /\ (f.rx # L.TXSEQNO) \in BOOLEAN
    <3> HIDE DEF n
    <3> QED BY <1>2, <1>3
  <2> HIDE DEF n
  <2> QED BY <2>1, ReleaseIsSane
<1>4. ASSUME n >= 0 PROVE [K EXCEPT !.choked = f.busy] \in Sane
  <2>1. \A X \in Sane : \A b \in BOOLEAN : [X EXCEPT !.choked = b] \in Sane
    BY DEF Sane, Entries
  <2> HIDE DEF K, n
  <2> QED BY <1>1, <1>3, <1>4, <2>1
<1>5. ASSUME n >= 0, K.L4HOLD_Q # << >> PROVE Head(K.L4HOLD_Q) \in Msgs
  <2> HIDE DEF K, n
  <2>1. K.L4HOLD_Q \in Seq(Msgs)
    BY <1>3, <1>5, Fields
  <2> QED BY <1>5, <2>1
<1>6. CASE n < 0
  <2>1. ACKFRAMES(L, f) = Silent(L)
    BY <1>6 DEF ACKFRAMES
  <2> QED BY <2>1, SilentIsResult
<1>7. CASE ~(n < 0) /\ f.rx = L.TXSEQNO /\ L.DISCPENDING /\ TX_QEmpty(L)
  <2>1. n >= 0
    <3> HIDE DEF n
    <3> QED BY <1>2, <1>7
  <2>2. ACKFRAMES(L, f) = SENDL4DISC(K)
    BY <1>7 DEF ACKFRAMES
  <2> QED
    <3> HIDE DEF K, n
    <3> QED BY <1>3, <2>1, <2>2, DiscIsResult
<1>8. CASE ~(n < 0) /\ ~(f.rx = L.TXSEQNO /\ L.DISCPENDING /\ TX_QEmpty(L))
  <2>1. n >= 0
    <3> HIDE DEF n
    <3> QED BY <1>2, <1>8
  <2>2. ACKFRAMES(L, f) = [link |-> [K EXCEPT !.choked = f.busy],
                           out  |-> IF f.nak /\ K.L4HOLD_Q # << >>
                                    THEN << Head(K.L4HOLD_Q) >> ELSE << >>]
    BY <1>8 DEF ACKFRAMES
  <2> QED
    <3> HIDE DEF K, n
    <3> QED BY <1>4, <1>5, <2>1, <2>2, SilentIsResult, OneSent DEF Silent
<1> QED
  BY <1>6, <1>7, <1>8

\* Handing a frame on leaves a sane entry.
LEMMA DeliverIsSane ==
    ASSUME NEW L \in Sane, NEW m \in Nat PROVE Deliver(L, m) \in Sane
<1>1. Plus(L.RXSEQNO, 1) \in SeqNo /\ Append(L.RX, m) \in Seq(Nat)
  BY PlusIsSeqNo, Fields
<1>2. \A x \in SeqNo : \A q \in Seq(Nat) :
        [L EXCEPT !.RXSEQNO = x, !.RX = q, !.nak = FALSE, !.L4ACKREQ = TRUE] \in Sane
  BY DEF Sane, Entries
<1> QED
  BY <1>1, <1>2 DEF Deliver

\* The place of the frame that is due, if there is one.
LEMMA FirstDueIs ==
    ASSUME NEW L \in Sane
    PROVE  /\ FirstDue(L) \in 0..Len(L.L4RESEQ_Q)
           /\ FirstDue(L) # 0 => L.L4RESEQ_Q[FirstDue(L)].tx = L.RXSEQNO
           /\ FirstDue(L) = 0 => \A k \in 1..Len(L.L4RESEQ_Q) : L.L4RESEQ_Q[k].tx # L.RXSEQNO
<1> DEFINE I == {i \in 1..Len(L.L4RESEQ_Q) : L.L4RESEQ_Q[i].tx = L.RXSEQNO}
<1>1. L.L4RESEQ_Q \in Seq(Msgs)
  BY Fields
<1>2. I \in SUBSET Nat /\ I \subseteq 1..Len(L.L4RESEQ_Q) /\ Len(L.L4RESEQ_Q) \in Nat
  BY <1>1
<1>3. FirstDue(L) = IF I # {} THEN Min(I) ELSE 0
  BY DEF FirstDue, SelectInSeq
<1>4. I # {} => Min(I) \in I
  BY <1>2, MinIsLeast
<1>5. I = {} => \A k \in 1..Len(L.L4RESEQ_Q) : L.L4RESEQ_Q[k].tx # L.RXSEQNO
  OBVIOUS
<1> QED
  BY <1>2, <1>3, <1>4, <1>5

\* A turn of the search of L4RESEQ_Q leaves a sane entry.
LEMMA TakeIsSane ==
    ASSUME NEW L \in Sane PROVE TakeSaved(L) \in Sane
<1> DEFINE q == L.L4RESEQ_Q
           p == FirstDue(L)
<1>1. q \in Seq(Msgs) /\ p \in 0..Len(q)
  BY Fields, FirstDueIs
<1>2. \A k \in 1..Len(q) : q[k].m \in Nat
  <2>1. \A f \in Msgs : f.m \in Nat
    BY DEF Msgs
  <2> HIDE DEF q
  <2> QED BY <1>1, <2>1
<1>3. CASE p = 1
  <2>1. TakeSaved(L) = Deliver([L EXCEPT !.L4RESEQ_Q = Tail(q)], q[1].m)
    BY <1>3 DEF TakeSaved
  <2>2. 1 \in 1..Len(q) /\ Tail(q) \in Seq(Msgs)
    <3> HIDE DEF q, p
    <3>1. q # << >>
      BY <1>1, <1>3
    <3> QED BY <1>1, <1>3, <3>1
  <2>3. [L EXCEPT !.L4RESEQ_Q = Tail(q)] \in Sane
    <3> HIDE DEF q
    <3> QED BY <2>2 DEF Sane, Entries
  <2> QED
    <3> HIDE DEF q
    <3> QED BY <1>2, <2>1, <2>2, <2>3, DeliverIsSane
<1>4. CASE p > 1 /\ p < Len(q)
  <2>1. TakeSaved(L) = Deliver([L EXCEPT !.corrupt = TRUE], q[p + 1].m)
    BY <1>4 DEF TakeSaved
  <2>2. p + 1 \in 1..Len(q)
    <3> HIDE DEF q, p
    <3> QED BY <1>1, <1>4
  <2>3. [L EXCEPT !.corrupt = TRUE] \in Sane
    BY DEF Sane, Entries
  <2> QED
    <3> HIDE DEF q, p
    <3> QED BY <1>2, <2>1, <2>2, <2>3, DeliverIsSane
<1>5. CASE ~(p = 1) /\ ~(p > 1 /\ p < Len(q))
  <2>1. TakeSaved(L) = L
    BY <1>5 DEF TakeSaved
  <2> QED BY <2>1
<1> QED
  BY <1>3, <1>4, <1>5

\* CheckReseq takes one turn for each frame on the queue.
LEMMA CheckSteps ==
    ASSUME NEW St, NEW L \in St, L.L4RESEQ_Q \in Seq(Msgs),
           \A K \in St : TakeSaved(K) \in St
    PROVE  \E h \in [0..Len(L.L4RESEQ_Q) -> St] :
              /\ h[0] = L /\ CheckReseq(L) = h[Len(L.L4RESEQ_Q)]
              /\ \A k \in 0..(Len(L.L4RESEQ_Q) - 1) : h[k + 1] = TakeSaved(h[k])
<1> DEFINE q == L.L4RESEQ_Q
           n == Len(q)
           Rec(g) == [x \in SUBSET (1..n) |->
                        IF x = {} THEN L ELSE TakeSaved(g[x \ {Max(x)}])]
           iter == CHOOSE g : g = Rec(g)
           At == [k \in 0..n |-> St]
<1>1. n \in Nat /\ DOMAIN q = 1..n
  OBVIOUS
<1>2. CheckReseq(L) = iter[1..n]
  BY <1>1 DEF CheckReseq, FoldLeft, MapThenFoldSet
<1>3. \A x \in SUBSET (1..n) : iter[x] = IF x = {} THEN L ELSE TakeSaved(iter[x \ {Max(x)}])
  <2>0. PICK step \in [1..n -> [St -> St]] : step = [i \in 1..n |-> [K \in St |-> TakeSaved(K)]]
    OBVIOUS
  <2>1. PICK f \in [SUBSET (1..n) -> St] : IsFold(f, L, step, n)
    <3> HIDE DEF iter, Rec, n
    <3> QED BY <1>1, FoldExists
  <2>2. \A x \in SUBSET (1..n) : x # {} => Max(x) \in 1..n
    <3> HIDE DEF n
    <3> QED BY <1>1, MaxIsGreatest
  <2>3. \A x \in SUBSET (1..n) : f[x] = IF x = {} THEN L ELSE TakeSaved(f[x \ {Max(x)}])
    <3> HIDE DEF n
    <3> QED BY <2>0, <2>1, <2>2 DEF IsFold
  <2>4. f = Rec(f)
    <3> HIDE DEF n
    <3> QED BY <2>3
  <2>5. iter = Rec(iter)
    BY <2>4
  <2> HIDE DEF iter
  <2> QED BY <2>5
<1>4. iter[{}] \in At[0]
  <2> HIDE DEF iter
  <2> QED BY <1>1, <1>3
<1>5. ASSUME NEW k \in 0..(n - 1), iter[1..k] \in At[k]
      PROVE  iter[1..(k + 1)] \in At[k + 1]
  <2> HIDE DEF iter
  <2>1. /\ k \in Nat /\ k + 1 \in 0..n /\ k \in 0..n /\ k + 1 \in 1..n
        /\ 1..(k + 1) \in SUBSET (1..n)
    <3> HIDE DEF n
    <3> QED BY <1>1
  <2>2. iter[1..(k + 1)] = TakeSaved(iter[1..k])
    <3>1. /\ 1..(k + 1) # {} /\ Max(1..(k + 1)) = k + 1
          /\ (1..(k + 1)) \ {k + 1} = 1..k
      BY <2>1, FirstButLast
    <3> HIDE DEF n
    <3> QED BY <2>1, <1>3, <3>1
  <2> QED BY <1>5, <2>1, <2>2
<1>6. \A k \in 0..n : iter[1..k] \in St
  <2> HIDE DEF iter
  <2>1. \A k \in 0..n : iter[1..k] \in At[k]
    <3> HIDE DEF At, n
    <3> QED BY <1>1, <1>4, <1>5, FoldKeeps
  <2> HIDE DEF n
  <2> QED BY <2>1
<1> DEFINE h == [k \in 0..n |-> iter[1..k]]
<1>7. h[0] = L
  <2> HIDE DEF iter, n
  <2> QED BY <1>1, <1>3
<1>8. ASSUME NEW k \in 0..(n - 1) PROVE h[k + 1] = TakeSaved(h[k])
  <2> HIDE DEF iter
  <2>1. /\ k \in Nat /\ k + 1 \in 0..n /\ k \in 0..n /\ k + 1 \in 1..n
        /\ 1..(k + 1) \in SUBSET (1..n)
    <3> HIDE DEF n
    <3> QED BY <1>1
  <2>2. /\ 1..(k + 1) # {} /\ Max(1..(k + 1)) = k + 1
        /\ (1..(k + 1)) \ {k + 1} = 1..k
    BY <2>1, FirstButLast
  <2> HIDE DEF n
  <2> QED BY <2>1, <1>3, <2>2
<1>9. h \in [0..n -> St] /\ CheckReseq(L) = h[n]
  <2>1. n \in 0..n
    <3> HIDE DEF n, iter
    <3> QED BY <1>1
  <2> HIDE DEF iter, n
  <2> QED BY <1>2, <1>6, <2>1
<1> QED
  <2> HIDE DEF h
  <2> QED BY <1>7, <1>8, <1>9

\* What every turn keeps, the whole search keeps.
LEMMA CheckKeeps ==
    ASSUME NEW St, NEW L \in St, L.L4RESEQ_Q \in Seq(Msgs),
           \A K \in St : TakeSaved(K) \in St
    PROVE  CheckReseq(L) \in St
<1>1. PICK h \in [0..Len(L.L4RESEQ_Q) -> St] : CheckReseq(L) = h[Len(L.L4RESEQ_Q)]
  BY CheckSteps
<1> QED
  BY <1>1

\* Saving a frame leaves a sane entry.
LEMMA SaveIsSane ==
    ASSUME NEW L \in Sane, NEW f \in Msgs PROVE Save(L, f) \in Sane
<1>1. Append(L.L4RESEQ_Q, f) \in Seq(Msgs)
  BY Fields
<1>2. \A q \in Seq(Msgs) : [L EXCEPT !.L4RESEQ_Q = q] \in Sane
  BY DEF Sane, Entries
<1> QED
  BY <1>1, <1>2 DEF Save

\* FRAMEFORUS with an INFO leaves a sane entry and sends messages.
LEMMA INFOIsResult ==
    ASSUME NEW L \in Sane, NEW f \in Msgs, NEW busy \in BOOLEAN
    PROVE  RecvINFO(L, f, busy) \in Results
<1> DEFINE acked == ACKFRAMES(L, f)
           K == acked.link
           d == FramesMissing(K, f.tx)
           N == SENDL4IACK([K EXCEPT !.nak = TRUE], busy)
<1>1. acked \in Results /\ K \in Sane /\ acked.out \in Seq(Msgs)
  BY AckIsResult DEF Results
<1>2. [acked EXCEPT !.link.L4ACKREQ = TRUE] \in Results
  <2>1. \A R \in Results : [R EXCEPT !.link.L4ACKREQ = TRUE] \in Results
    BY DEF Results, Sane, Entries
  <2> HIDE DEF acked
  <2> QED BY <1>1, <2>1
<1>3. [acked EXCEPT !.link = CheckReseq(Deliver(K, f.m))] \in Results
  <2>1. Deliver(K, f.m) \in Sane
    <3> HIDE DEF K
    <3> QED BY <1>1, DeliverIsSane DEF Msgs
  <2>2. CheckReseq(Deliver(K, f.m)) \in Sane
    BY <2>1, CheckKeeps, TakeIsSane, Fields
  <2>3. \A R \in Results : \A X \in Sane : [R EXCEPT !.link = X] \in Results
    BY DEF Results
  <2> HIDE DEF acked, K
  <2> QED BY <1>1, <2>2, <2>3
<1>4. [link |-> Save(N.link, f), out |-> acked.out \o N.out] \in Results
  <2>1. [K EXCEPT !.nak = TRUE] \in Sane
    <3> HIDE DEF K
    <3> QED BY <1>1 DEF Sane, Entries
  <2>2. N \in Results
    BY <2>1, IackIsResult
  <2>3. N.link \in Sane /\ N.out \in Seq(Msgs)
    <3> HIDE DEF N
    <3> QED BY <2>2 DEF Results
  <2>4. Save(N.link, f) \in Sane
    <3> HIDE DEF N
    <3> QED BY <2>3, SaveIsSane
  <2>5. acked.out \o N.out \in Seq(Msgs)
    <3> HIDE DEF N, acked
    <3> QED BY <1>1, <2>3
  <2> QED
    <3> HIDE DEF N, acked
    <3> QED BY <2>4, <2>5 DEF Results
<1>5. RecvINFO(L, f, busy) =
        IF L.L4STATE = 2 THEN Silent(L)
        ELSE IF K.DISCPENDING \/ K.L4STATE # 5 THEN acked
        ELSE IF d < 0 THEN [acked EXCEPT !.link.L4ACKREQ = TRUE]
        ELSE IF d = 0 THEN [acked EXCEPT !.link = CheckReseq(Deliver(K, f.m))]
        ELSE [link |-> Save(N.link, f), out |-> acked.out \o N.out]
  BY DEF RecvINFO
<1> QED
  <2> HIDE DEF N, acked, K, d
  <2> QED BY <1>1, <1>2, <1>3, <1>4, <1>5, SilentIsResult

\* FRAMEFORUS with a CACK does.
LEMMA CACKIsResult ==
    ASSUME NEW L \in Sane, NEW f \in Msgs PROVE RecvCACK(L, f) \in Results
<1>1. \A i \in Nat : [L EXCEPT !.L4STATE = 5, !.FARID = i, !.L4TIMER = FALSE, !.L4RETRIES = 0] \in Sane
  BY DEF Sane, Entries
<1>2. f.rx \in Nat
  BY DEF Msgs
<1> QED
  BY <1>1, <1>2, SilentIsResult, FreeIsSane DEF RecvCACK, CLEARSESSIONENTRY

\* FRAMEFORUS with a DREQ does.
LEMMA DREQIsResult ==
    ASSUME NEW L \in Sane PROVE RecvDREQ(L) \in Results
<1>1. Control("DACK", L.FARID) \in Msgs
  BY ControlIsMsg, Fields DEF MsgTypes
<1> QED
  BY <1>1, OneSent, FreeIsSane DEF RecvDREQ, CLEARSESSIONENTRY

\* CLOSECURRENTSESSION does.
LEMMA CloseIsResult ==
    ASSUME NEW L \in Sane PROVE CLOSECURRENTSESSION(L) \in Results
<1> DEFINE C == [L EXCEPT !.partner = FALSE]
<1>1. C \in Sane
  BY DEF Sane, Entries
<1>2. [C EXCEPT !.DISCPENDING = TRUE] \in Sane
  <2>1. \A X \in Sane : [X EXCEPT !.DISCPENDING = TRUE] \in Sane
    BY DEF Sane, Entries
  <2> QED BY <1>1, <2>1
<1> HIDE DEF C
<1> QED
  BY <1>1, <1>2, SilentIsResult, DiscIsResult DEF CLOSECURRENTSESSION, C

\* L4TIMEOUT does.
LEMMA TimeoutIsResult ==
    ASSUME NEW L \in Sane PROVE L4TIMEOUT(Retried(L)) \in Results
<1>1. Retried(L) \in Sane
  <2>1. \A n \in Nat : [L EXCEPT !.L4TIMER = FALSE, !.L4RETRIES = n] \in Sane
    BY DEF Sane, Entries
  <2>2. L.L4RETRIES + 1 \in Nat
    BY Fields
  <2>3. Retried(L) = [L EXCEPT !.L4TIMER = FALSE, !.L4RETRIES = L.L4RETRIES + 1]
    BY DEF Retried
  <2> QED BY <2>1, <2>2, <2>3
<1>2. ASSUME NEW K \in Sane PROVE L4TIMEOUT(K) \in Results
  <2>1. [K EXCEPT !.choked = FALSE] \in Sane
    BY DEF Sane, Entries
  <2>2. [link |-> [K EXCEPT !.choked = FALSE], out |-> K.L4HOLD_Q] \in Results
    BY <2>1, Fields DEF Results
  <2> QED
    BY <2>2, SilentIsResult, FreeIsSane, ConnectIsResult, DiscIsResult DEF L4TIMEOUT, CLEARSESSIONENTRY
<1> QED BY <1>1, <1>2
-----------------------------------------------------------------------------
\* No end has sent more than its session queued.
TInv == TypeOK /\ sess \in [Node -> Sane]

\* There are two nodes.
LEMMA OtherIs == \A s \in Node : Other(s) \in Node /\ Other(s) # s /\ Node = {s, Other(s)}
  BY NodeAssumption DEF Other

\* The fields of a use.
LEMMA UseIs ==
    ASSUME use \in Uses
    PROVE  /\ use.cap \in Nat /\ use.batch \in Nat \ {0} /\ use.msgs \in [Node -> Nat]
           /\ use.busy \subseteq Node
  BY UsesAssumption

\* What is kept of a queue is its first messages.
LEMMA ClipIs ==
    ASSUME use \in Uses, NEW q \in Seq(Msgs)
    PROVE  /\ Clip(q) \in Seq(Msgs) /\ Len(Clip(q)) <= Len(q)
           /\ \A k \in 1..Len(Clip(q)) : Clip(q)[k] = q[k]
<1> DEFINE n == IF Len(q) < use.cap THEN Len(q) ELSE use.cap
<1>1. n \in 0..Len(q)
  BY UseIs
<1>2. Clip(q) = SubSeq(q, 1, n)
  BY DEF Clip
<1> HIDE DEF n
<1> QED
  BY <1>1, <1>2

\* A step in which a node sends keeps the types.
LEMMA SendsTyped ==
    ASSUME TInv, NEW s \in Node, NEW r \in Results, Sends(s, r)
    PROVE  TInv'
<1> DEFINE t == Other(s)
<1>1. t \in Node /\ t # s
  BY OtherIs
<1>2. net[t] \o r.out \in Seq(Msgs)
  BY <1>1 DEF TInv, TypeOK, Results
<1>3. Clip(net[t] \o r.out) \in Seq(Msgs)
  <2> HIDE DEF t
  <2> QED BY <1>2, ClipIs DEF TInv, TypeOK
<1>4. sess' \in [Node -> Sane] /\ net' \in [Node -> Seq(Msgs)]
  <2>1. r.link \in Sane
    BY DEF Results
  <2>2. net' = [net EXCEPT ![t] = Clip(net[t] \o r.out)] /\ sess' = [sess EXCEPT ![s] = r.link]
    BY DEF Sends
  <2> HIDE DEF t
  <2> QED BY <1>1, <1>3, <2>1, <2>2 DEF TInv, TypeOK
<1>5. sess' \in [Node -> Entries]
  BY <1>4 DEF Sane
<1> QED
  BY <1>4, <1>5 DEF TInv, TypeOK, Sends

\* So does one in which it answers a message.
LEMMA AnswersTyped ==
    ASSUME TInv, NEW s \in Node, net[s] # << >>, NEW r \in Results, Answers(s, r),
           NEXTID' \in [Node -> Nat]
    PROVE  TInv'
<1> DEFINE t == Other(s)
<1>1. t \in Node /\ t # s
  BY OtherIs
<1>2. net[t] \o r.out \in Seq(Msgs) /\ Tail(net[s]) \in Seq(Msgs)
  BY <1>1 DEF TInv, TypeOK, Results
<1>3. Clip(net[t] \o r.out) \in Seq(Msgs)
  <2> HIDE DEF t
  <2> QED BY <1>2, ClipIs DEF TInv, TypeOK
<1>4. sess' \in [Node -> Sane] /\ net' \in [Node -> Seq(Msgs)]
  <2>1. r.link \in Sane
    BY DEF Results
  <2>2. net' = [[net EXCEPT ![s] = Tail(net[s])] EXCEPT ![t] = Clip(net[t] \o r.out)]
    BY <1>1 DEF Answers, TInv, TypeOK
  <2>3. sess' = [sess EXCEPT ![s] = r.link]
    BY DEF Answers
  <2> HIDE DEF t
  <2> QED BY <1>1, <1>2, <1>3, <2>1, <2>2, <2>3 DEF TInv, TypeOK
<1>5. sess' \in [Node -> Entries]
  BY <1>4 DEF Sane
<1> QED
  BY <1>4, <1>5 DEF TInv, TypeOK, Answers

\* The message that is next.
LEMMA HeadIs ==
    ASSUME TInv, NEW s \in Node, net[s] # << >>
    PROVE  /\ Head(net[s]) \in Msgs /\ Head(net[s]).id \in Nat
           /\ Head(net[s]) = net[s][1] /\ sess[s] \in Sane /\ NEXTID[s] \in Nat
<1>1. net[s] \in Seq(Msgs)
  BY DEF TInv, TypeOK
<1>2. Head(net[s]) \in Msgs
  BY <1>1
<1> QED
  BY <1>2 DEF TInv, TypeOK, Msgs

\* A node is busy or it is not.
LEMMA BusyIs ==
    ASSUME NEW s \in Node, NEW busy \in BusyChoice(s) PROVE busy \in BOOLEAN
  BY DEF BusyChoice

\* FRAMEFORUS leaves a sane entry and sends messages.
LEMMA HandleIsResult ==
    ASSUME NEW L \in Sane, NEW f \in Msgs, NEW busy \in BOOLEAN,
           f.type \in {"CACK", "INFO", "IACK", "DREQ", "DACK"}
    PROVE  Handle(L, f, busy) \in Results
<1>1. Silent(CLEARSESSIONENTRY) \in Results
  BY SilentIsResult, FreeIsSane DEF CLEARSESSIONENTRY
<1> QED
  BY <1>1, CACKIsResult, INFOIsResult, AckIsResult, DREQIsResult DEF Handle

\* The types hold at the start.
LEMMA InitTyped == Init => TInv
<1> SUFFICES ASSUME Init PROVE TInv
  OBVIOUS
<1>1. NewEntry(2, 1, NoId) \in Sane
  BY NewIsSane DEF NoId
<1>2. SENDL4CONNECT(NewEntry(2, 1, NoId)).link \in Sane
  BY <1>1, ConnectIsResult DEF Results
<1>3. sess \in [Node -> Sane]
  BY <1>2, FreeIsSane DEF Init
<1>4. Control("CREQ", 1) \in Msgs
  BY ControlIsMsg DEF MsgTypes
<1>5. net \in [Node -> Seq(Msgs)]
  BY <1>4 DEF Init
<1>6. sess \in [Node -> Entries]
  BY <1>3 DEF Sane
<1> QED
  BY <1>3, <1>5, <1>6 DEF Init, TInv, TypeOK

\* Every step keeps them.
LEMMA NextTyped == TInv /\ [Next]_vars => TInv'
<1> SUFFICES ASSUME TInv, [Next]_vars PROVE TInv'
  OBVIOUS
<1>1. CASE UNCHANGED vars
  BY <1>1 DEF vars, TInv, TypeOK
<1>2. ASSUME NEW s \in Node, QueueMessages(s) PROVE TInv'
  <2>1. sess[s] \in Sane /\ sess[s].queued + use.batch \in Nat
    BY UseIs, Fields DEF TInv, TypeOK
  <2>2. ASSUME NEW L \in Sane, NEW n \in Nat, L.queued <= n
        PROVE  [L EXCEPT !.queued = n] \in Sane
    <3>1. [L EXCEPT !.queued = n] \in Entries /\ [L EXCEPT !.queued = n].sent = L.sent
          /\ [L EXCEPT !.queued = n].queued = n
      BY DEF Sane, Entries
    <3>2. L.sent <= n
      BY <2>2, Fields
    <3> QED BY <3>1, <3>2 DEF Sane
  <2>3. sess[s].queued <= sess[s].queued + use.batch
    BY UseIs, Fields, <2>1 DEF TInv, TypeOK
  <2>4. [sess[s] EXCEPT !.queued = sess[s].queued + use.batch] \in Sane
    BY <2>1, <2>2, <2>3
  <2>5. sess' = [sess EXCEPT ![s] = [sess[s] EXCEPT !.queued = sess[s].queued + use.batch]]
    BY <1>2 DEF QueueMessages, TInv
  <2>6. sess' \in [Node -> Sane]
    BY <2>4, <2>5 DEF TInv
  <2> QED BY <1>2, <2>6 DEF QueueMessages, TInv, TypeOK, Sane
<1>3. ASSUME NEW s \in Node, CloseSession(s) PROVE TInv'
  BY <1>3, CloseIsResult, SendsTyped DEF CloseSession, TInv
<1>4. ASSUME NEW s \in Node, SendPass(s) PROVE TInv'
  <2>1. PICK busy \in BusyChoice(s) : Sends(s, L4BG(sess[s], busy))
    BY <1>4 DEF SendPass
  <2> QED BY <2>1, BusyIs, BGIsResult, SendsTyped DEF TInv
<1>5. ASSUME NEW s \in Node, RecvCREQ(s) PROVE TInv'
  <2> DEFINE f == Head(net[s])
  <2>1. net[s] # << >> /\ f \in Msgs /\ f.id \in Nat /\ sess[s] \in Sane /\ NEXTID[s] \in Nat
    BY <1>5, HeadIs DEF RecvCREQ, Hears
  <2>2. \A L \in Sane : CACK(L) \in Msgs
    <3>1. 0 \in SeqNo /\ "CACK" \in MsgTypes
      BY ModulusIsNat DEF SeqNo, MsgTypes
    <3>2. \A L \in Sane : L.FARID \in Nat /\ L.CIRCUITID \in Nat
      BY Fields
    <3> QED BY <3>1, <3>2, MsgIsMsg DEF CACK
  <2>3. Msg("CACK", f.id, 0, 0, TRUE, FALSE, 0) \in Msgs
    <3>1. 0 \in SeqNo /\ "CACK" \in MsgTypes
      BY ModulusIsNat DEF SeqNo, MsgTypes
    <3> HIDE DEF f
    <3> QED BY <2>1, <3>1, MsgIsMsg
  <2>4. NewEntry(5, NEXTID[s], f.id) \in Sane
    <3> HIDE DEF f
    <3> QED BY <2>1, NewIsSane
  <2>5. [NEXTID EXCEPT ![s] = @ + 1] \in [Node -> Nat] /\ NEXTID \in [Node -> Nat]
    BY DEF TInv, TypeOK
  <2>6. PICK r \in Results : Answers(s, r)
    <3> HIDE DEF f
    <3> QED BY <1>5, <2>1, <2>2, <2>3, <2>4, OneSent DEF RecvCREQ, f
  <2>7. NEXTID' \in [Node -> Nat]
    BY <1>5, <2>5 DEF RecvCREQ
  <2> QED BY <2>1, <2>6, <2>7, AnswersTyped
<1>6. ASSUME NEW s \in Node, NEW types, RecvForSession(s, types),
             types \subseteq {"CACK", "INFO", "IACK", "DREQ", "DACK"}
      PROVE  TInv'
  <2> DEFINE f == Head(net[s])
  <2>1. net[s] # << >> /\ f \in Msgs /\ sess[s] \in Sane /\ f.type \in types
    BY <1>6, HeadIs DEF RecvForSession, Hears
  <2>2. PICK busy \in BusyChoice(s) : Answers(s, Handle(sess[s], f, busy))
    BY <1>6 DEF RecvForSession
  <2>3. Handle(sess[s], f, busy) \in Results
    <3> HIDE DEF f
    <3> QED BY <1>6, <2>1, BusyIs, HandleIsResult
  <2>4. NEXTID' \in [Node -> Nat]
    BY <1>6 DEF RecvForSession, TInv, TypeOK
  <2> QED BY <2>1, <2>2, <2>3, <2>4, AnswersTyped
<1>7. ASSUME NEW s \in Node, RecvNoSession(s) PROVE TInv'
  <2>1. net[s] # << >> /\ sess[s] \in Sane /\ Head(net[s]).id \in Nat
    BY <1>7, HeadIs DEF RecvNoSession, Hears
  <2>2. Control("RESET", Head(net[s]).id) \in Msgs
    BY <2>1, ControlIsMsg DEF MsgTypes
  <2>3. NEXTID' \in [Node -> Nat]
    BY <1>7 DEF RecvNoSession, TInv, TypeOK
  <2> QED BY <1>7, <2>1, <2>2, <2>3, OneSent, AnswersTyped DEF RecvNoSession
<1>8. ASSUME NEW s \in Node, RecvRESET(s) PROVE TInv'
  <2>1. net[s] # << >> /\ sess[s] \in Sane
    BY <1>8, HeadIs DEF RecvRESET, Hears
  <2>2. PICK L \in Sane : Answers(s, Silent(L))
    BY <1>8, <2>1, FreeIsSane DEF RecvRESET, CLEARSESSIONENTRY
  <2>3. NEXTID' \in [Node -> Nat]
    BY <1>8 DEF RecvRESET, TInv, TypeOK
  <2> QED BY <2>1, <2>2, <2>3, SilentIsResult, AnswersTyped
<1>9. ASSUME NEW s \in Node, LoseMessage(s) PROVE TInv'
  <2>1. net[s] # << >> /\ net[s] \in Seq(Msgs)
    BY <1>9 DEF LoseMessage, TInv, TypeOK
  <2>2. Tail(net[s]) \in Seq(Msgs)
    BY <2>1
  <2>3. net' \in [Node -> Seq(Msgs)]
    BY <1>9, <2>2 DEF LoseMessage, TInv, TypeOK
  <2> QED BY <1>9, <2>3 DEF LoseMessage, TInv, TypeOK
<1>10. ASSUME NEW s \in Node, TimerExpires(s) PROVE TInv'
  BY <1>10, TimeoutIsResult, SendsTyped DEF TimerExpires, TInv
<1>11. ASSUME NEW s \in Node, SendAck(s) PROVE TInv'
  <2>1. [sess[s] EXCEPT !.L4ACKREQ = FALSE] \in Sane
    <3>1. \A L \in Sane : [L EXCEPT !.L4ACKREQ = FALSE] \in Sane
      BY DEF Sane, Entries
    <3> QED BY <3>1 DEF TInv
  <2> QED BY <1>11, <2>1, BusyIs, IackIsResult, SendsTyped DEF SendAck
<1>12. ASSUME NEW s \in Node, BusyOver(s) PROVE TInv'
  <2>1. \A L \in Sane : FreeAgain(L) \in Sane
    BY DEF Sane, Entries, FreeAgain
  <2> QED BY <1>12, <2>1, SilentIsResult, SendsTyped DEF BusyOver, TInv
<1>13. ASSUME NEW s \in Node, KillTimer(s) PROVE TInv'
  BY <1>13, CloseIsResult, SendsTyped DEF KillTimer, TInv
<1>14. ASSUME NEW s \in Node, Restart(s) PROVE TInv'
  <2>1. sess' \in [Node -> Sane]
    BY <1>14, FreeIsSane DEF Restart, TInv
  <2> QED BY <1>14, <2>1 DEF Restart, TInv, TypeOK, Sane
<1>15. CASE Next
  <2>1. PICK s \in Node : QueueMessages(s) \/ CloseSession(s) \/ SendPass(s)
                           \/ Receive(s) \/ LoseMessage(s) \/ Timer(s) \/ Restart(s)
    BY <1>15 DEF Next
  <2>2. CASE Receive(s)
    BY <2>2, <1>5, <1>6, <1>7, <1>8 DEF Receive, RecvData, RecvConnect, RecvClose
  <2>3. CASE Timer(s)
    BY <2>3, <1>10, <1>11, <1>12, <1>13 DEF Timer
  <2> QED BY <2>1, <2>2, <2>3, <1>2, <1>3, <1>4, <1>9, <1>14
<1> QED
  BY <1>1, <1>15

\* Every field of an entry stays in its type whatever arrives in whatever order:
\* TXSEQNO, L4WS and RXSEQNO are bytes after every routine, an acknowledgement
\* that counts backwards takes nothing off the hold queue, and L4BG never takes
\* more from L4TX_Q than is on it.
THEOREM EntriesAreInOrder == Spec => []TypeOK
<1>1. Spec => []TInv
  BY InitTyped, NextTyped, PTL DEF Spec
<1>2. TInv => TypeOK
  BY DEF TInv
<1> QED
  BY <1>1, <1>2, PTL

-----------------------------------------------------------------------------
(***************************************************************************)
(* What the two ends of a circuit promise each other, for every window,    *)
(* modulus and number of tries: the hold queue is what is outstanding,     *)
(* what is acknowledged was received, and what is handed on is in order.   *)
(*                                                                         *)
(* The argument is in three parts.  Entry says of one end that its         *)
(* sequence numbers are the true counts (none has wrapped), and Moves says *)
(* of a routine that it leaves an Entry, that it only ever grows, and that *)
(* what it sends is true of the entry it leaves: one lemma for each        *)
(* routine of L4Entry.  Sys relates the two ends and the two queues; it is *)
(* kept by a move of either end (CallerStep, CalleeStep), by a new called  *)
(* end (TakenStep), by the answer to the call (AnswerStep) and by what     *)
(* only moves messages (QuietStep).  One lemma for each action then names  *)
(* the routine it carries out and which of these steps it is.              *)
(*                                                                         *)
(* Both hypotheses of Covered are needed.  An old acknowledgement that is  *)
(* more than half the modulus behind is counted as a new one (ACKFRAMES),  *)
(* and a CACK that arrives in state 4 makes a closing entry an open one.   *)
(***************************************************************************)

\* The called end.
Callee == Other(Caller)

\* The messages on a queue.
Items(q) == {q[k] : k \in 1..Len(q)}
\* INFO and IACK carry an acknowledgement.
IsAck(f) == f.type \in {"INFO", "IACK"}

\* How much the other end has acknowledged.
Acked(L) == L.sent - Len(L.L4HOLD_Q)

\* The hold queue: the data sent after what was acknowledged, in order, under its
\* numbers, acknowledging no more than has come in.
HeldOK(L) ==
    /\ Len(L.L4HOLD_Q) <= L.sent /\ Len(L.L4HOLD_Q) <= L4WINDOW + 1
    /\ \A k \in 1..Len(L.L4HOLD_Q) :
          /\ L.L4HOLD_Q[k].type = "INFO" /\ L.L4HOLD_Q[k].id = L.FARID
          /\ L.L4HOLD_Q[k].m = Acked(L) + k /\ L.L4HOLD_Q[k].tx = Acked(L) + k - 1
          /\ L.L4HOLD_Q[k].rx <= Len(L.RX)

\* What has come in is numbered n or less.
Got(L, n) == /\ Len(L.RX) <= n
             /\ \A k \in 1..Len(L.L4RESEQ_Q) : /\ L.L4RESEQ_Q[k].m = L.L4RESEQ_Q[k].tx + 1
                                               /\ L.L4RESEQ_Q[k].m <= n

\* What was handed on is numbered 1, 2, 3 ...
InSeq(L) == L.corrupt \/ \A k \in 1..Len(L.RX) : L.RX[k] = k

\* With a window of one there is never more than one frame to put in order.
Tight(L) == /\ ~L.corrupt /\ Len(L.L4RESEQ_Q) <= 1
            /\ \A k \in 1..Len(L.L4RESEQ_Q) : L.L4RESEQ_Q[k].tx = L.RXSEQNO + 1

\* One entry, whose session queues up to mine messages while the other's queues up to
\* far: below half the modulus no number has wrapped.
Loose(L, mine, far) ==
    /\ L \in Sane /\ L.queued <= mine
    /\ L.TXSEQNO = L.sent /\ L.L4WS = Acked(L) /\ L.RXSEQNO = Len(L.RX)
    /\ HeldOK(L) /\ Got(L, far) /\ InSeq(L)
    /\ L.L4STATE = 0 => L = FreeEntry

\* With a window of one the entry is tight too.
Entry(L, mine, far) == Loose(L, mine, far) /\ (L4WINDOW = 1 => Tight(L))

\* The user has gone.
Closing(L) == L.L4STATE = 4 \/ L.DISCPENDING

\* The calling end c and the called end e are ends of one circuit.
Linked(c, e) == c.L4STATE # 0 /\ e.L4STATE # 0 /\ c.FARID = e.CIRCUITID
\* They are not: the answer to the call has not arrived, or e was set up again.
Apart(c, e)  == c.L4STATE # 0 /\ e.L4STATE # 0 /\ c.FARID # e.CIRCUITID

\* The calling end; the called node has given out the numbers below N.
CallerIds(c, N) ==
    /\ c.L4STATE # 0 => c.CIRCUITID = 1 /\ c.FARID < N
    /\ c.L4STATE = 2 => c.FARID = NoId /\ c.queued = 0 /\ Got(c, 0) /\ ~c.DISCPENDING
    /\ c.L4STATE \in {4, 5} => c.FARID # NoId

\* The called end.
CalleeIds(e, N) ==
    /\ e.L4STATE # 2
    /\ e.L4STATE # 0 => e.FARID = 1 /\ e.CIRCUITID \in 1..(N - 1)

\* On its way to the caller: nothing acknowledges what was not sent, no data is
\* further ahead than a window, and no CACK is behind a close.
ToCaller(c, qc, N, far) == \A f \in Items(qc) :
    /\ f.type # "CREQ"
    /\ f.type = "CACK" => f.rx < N /\ (f.busy \/ f.rx # NoId)
    /\ f.type = "INFO" => f.m = f.tx + 1 /\ f.m <= far
    /\ c.L4STATE # 0 => /\ IsAck(f) => f.rx <= c.sent
                        /\ f.type = "INFO" => f.m <= Len(c.RX) + L4WINDOW + 1
                        /\ f.type = "CACK" => ~Closing(c)

\* On its way to the called end.  What is for another circuit than the caller's is
\* not data, except from before the caller knew a number.
ToCallee(c, e, qe, N, far) == \A f \in Items(qe) :
    /\ f.type # "CACK"
    /\ f.type = "CREQ" => f.id = 1 /\ (c.L4STATE # 0 => ~Closing(c))
    /\ f.type = "INFO" => f.m = f.tx + 1 /\ f.m <= far
    /\ IsAck(f) => f.id < N
    /\ IsAck(f) /\ c.L4STATE # 0 => f.id \in {NoId, c.FARID}
    /\ e.L4STATE # 0 /\ f.id = e.CIRCUITID =>
          /\ IsAck(f) => f.rx <= e.sent
          /\ f.type = "INFO" => f.m <= Len(e.RX) + L4WINDOW + 1

\* What q carries for the circuit that e is an end of now.
For(e, q) == {f \in Items(q) : f.id = e.CIRCUITID}

\* L is an end of a circuit, M the other end, and fs is on its way to L.
EndOK(L, M, fs) ==
    /\ Got(L, M.sent) /\ Acked(L) <= Len(M.RX)
    /\ \A f \in fs : /\ IsAck(f) => f.rx <= Len(M.RX)
                     /\ f.type = "INFO" => f.m <= M.sent

\* The two ends of one circuit and what is on its way between them agree.
LinkedOK(c, e, qc, qe) ==
    Linked(c, e) => EndOK(c, e, Items(qc)) /\ EndOK(e, c, For(e, qe))

\* An end the caller does not know of has received nothing.
ApartOK(c, e) == Apart(c, e) => Got(e, 0) /\ Acked(e) <= 0

\* Data behind the answer of the circuit there is now is data of that circuit.
InSetup(c, e, qc) ==
    c.L4STATE = 2 /\ e.L4STATE # 0 =>
        \A i, j \in 1..Len(qc) :
            /\ i < j
            /\ qc[i].type = "CACK" /\ ~qc[i].busy /\ qc[i].rx = e.CIRCUITID
            /\ qc[j].type = "INFO"
            => qc[j].m <= e.sent

\* The whole: two entries, two queues, and how much each session may queue.
Sys(c, e, qc, qe, N, mc, me) ==
    /\ N \in Nat \ {0}
    /\ Entry(c, mc, me) /\ Entry(e, me, mc)
    /\ CallerIds(c, N) /\ CalleeIds(e, N)
    /\ ToCaller(c, qc, N, me) /\ ToCallee(c, e, qe, N, mc)
    /\ LinkedOK(c, e, qc, qe) /\ ApartOK(c, e) /\ InSetup(c, e, qc)

\* The same of the variables.
State == Sys(sess[Caller], sess[Callee], net[Caller], net[Callee], NEXTID[Callee],
             use.msgs[Caller], use.msgs[Callee])

\* The inductive invariant.
IInv == TInv /\ State
-----------------------------------------------------------------------------
\* What one routine does to an entry.  d is the number of the data it was
\* given and a the acknowledgement, 0 if there was none.
Grows(L, K, d, a) ==
    /\ K.CIRCUITID = L.CIRCUITID /\ K.FARID = L.FARID
    /\ L.L4STATE = 2 => K.queued = L.queued
    /\ K.L4STATE = L.L4STATE \/ (K.L4STATE = 4 /\ L.L4STATE \in {4, 5})
    /\ L.sent <= K.sent /\ Len(L.RX) <= Len(K.RX)
    /\ \A n \in Nat : Got(L, n) /\ d <= n => Got(K, n)
    /\ \A n \in Nat : Acked(L) <= n /\ a <= n => Acked(K) <= n

\* The routine did not begin to close the session.
Calm(L, K) == Closing(K) => Closing(L)

\* out is what an end says that was L and is K now.
Said(L, K, out) ==
    \A f \in Items(out) :
       /\ f.type \in {"INFO", "IACK", "DREQ", "CREQ"}
       /\ f.type = "CREQ" => f.id = L.CIRCUITID /\ L.L4STATE = 2 /\ K.L4STATE = 2
       /\ IsAck(f) => f.id = K.FARID /\ f.rx <= Len(K.RX)
       /\ f.type = "INFO" => f.m = f.tx + 1 /\ f.m <= K.sent

\* The routine freed the entry.
Clears(r) == r.link = FreeEntry /\ \A f \in Items(r.out) : f.type = "DACK"

\* It kept the entry.
Advances(L, r, mine, far, d, a) ==
    /\ r \in Results
    /\ Entry(r.link, mine, far) /\ Grows(L, r.link, d, a)
    /\ Said(L, r.link, r.out)

\* It did one or the other.
Moves(L, r, mine, far, d, a) ==
    r \in Results /\ (Clears(r) \/ Advances(L, r, mine, far, d, a))

\* The messages on the queues that are built from others.
LEMMA ItemsOf ==
    /\ Items(<< >>) = {}
    /\ \A f : Items(<< f >>) = {f}
    /\ \A p, q \in Seq(Msgs) : Items(p \o q) = Items(p) \cup Items(q)
    /\ \A q \in Seq(Msgs) : q # << >> => Head(q) \in Items(q) /\ Items(Tail(q)) \subseteq Items(q)
    /\ \A q \in Seq(Msgs) : \A f \in Items(q) : f \in Msgs
<1>1. Items(<< >>) = {} /\ \A f : Items(<< f >>) = {f}
  BY DEF Items
<1>2. ASSUME NEW p \in Seq(Msgs), NEW q \in Seq(Msgs)
      PROVE  Items(p \o q) = Items(p) \cup Items(q)
  <2>1. Len(p \o q) = Len(p) + Len(q) /\ Len(p) \in Nat /\ Len(q) \in Nat
    OBVIOUS
  <2>2. ASSUME NEW k \in 1..Len(p \o q) PROVE (p \o q)[k] \in Items(p) \cup Items(q)
    <3>1. CASE k <= Len(p)
      <4>1. (p \o q)[k] = p[k] /\ k \in 1..Len(p)
        BY <2>1, <3>1
      <4> QED BY <4>1 DEF Items
    <3>2. CASE k > Len(p)
      <4>1. (p \o q)[k] = q[k - Len(p)] /\ k - Len(p) \in 1..Len(q)
        BY <2>1, <3>2
      <4> QED BY <4>1 DEF Items
    <3> QED BY <2>1, <3>1, <3>2
  <2>3. ASSUME NEW k \in 1..Len(p) PROVE p[k] \in Items(p \o q)
    <3>1. (p \o q)[k] = p[k] /\ k \in 1..Len(p \o q)
      BY <2>1
    <3> QED BY <3>1 DEF Items
  <2>4. ASSUME NEW k \in 1..Len(q) PROVE q[k] \in Items(p \o q)
    <3>1. (p \o q)[k + Len(p)] = q[k] /\ k + Len(p) \in 1..Len(p \o q)
      BY <2>1
    <3> QED BY <3>1 DEF Items
  <2>5. Items(p \o q) \subseteq Items(p) \cup Items(q)
    BY <2>2 DEF Items
  <2>6. Items(p) \subseteq Items(p \o q) /\ Items(q) \subseteq Items(p \o q)
    BY <2>3, <2>4 DEF Items
  <2> QED BY <2>5, <2>6
<1>3. ASSUME NEW q \in Seq(Msgs), q # << >>
      PROVE  Head(q) \in Items(q) /\ Items(Tail(q)) \subseteq Items(q)
  <2>1. Len(q) >= 1 /\ Head(q) = q[1] /\ Len(Tail(q)) = Len(q) - 1
        /\ \A k \in 1..Len(Tail(q)) : Tail(q)[k] = q[k + 1] /\ k + 1 \in 1..Len(q)
    BY <1>3
  <2> QED BY <2>1 DEF Items
<1>4. ASSUME NEW q \in Seq(Msgs), NEW f \in Items(q) PROVE f \in Msgs
  BY DEF Items
<1> QED
  BY <1>1, <1>2, <1>3, <1>4

\* The fields of an entry.
LEMMA EntryIs ==
    ASSUME NEW mine, NEW far, NEW L, Entry(L, mine, far)
    PROVE  /\ L \in Sane /\ Len(L.L4HOLD_Q) \in Nat /\ Len(L.L4RESEQ_Q) \in Nat /\ Len(L.RX) \in Nat
           /\ L.sent \in Nat /\ L.queued \in Nat /\ L.sent <= L.queued
           /\ Acked(L) \in Nat /\ Acked(L) <= L.sent
           /\ Acked(L) + Len(L.L4HOLD_Q) = L.sent
<1>1. L \in Sane /\ Len(L.L4HOLD_Q) <= L.sent
  BY DEF Entry, Loose, HeldOK
<1>2. L.L4HOLD_Q \in Seq(Msgs) /\ L.L4RESEQ_Q \in Seq(Msgs) /\ L.RX \in Seq(Nat)
      /\ L.sent \in Nat /\ L.queued \in Nat /\ L.sent <= L.queued
  BY <1>1, Fields
<1> QED
  BY <1>1, <1>2 DEF Acked

\* One routine after another.
LEMMA GrowsThen ==
    ASSUME NEW L, NEW K, NEW J, NEW d, NEW a, Grows(L, K, d, a), Grows(K, J, d, a),
           L.sent \in Nat, K.sent \in Nat, J.sent \in Nat,
           Len(L.RX) \in Nat, Len(K.RX) \in Nat, Len(J.RX) \in Nat
    PROVE  Grows(L, J, d, a)
<1>1. L.sent <= J.sent /\ Len(L.RX) <= Len(J.RX)
  BY DEF Grows
<1>2. ASSUME NEW n \in Nat PROVE /\ Got(L, n) /\ d <= n => Got(J, n)
                                 /\ Acked(L) <= n /\ a <= n => Acked(J) <= n
  BY DEF Grows
<1> QED
  BY <1>1, <1>2 DEF Grows

\* What two routines say, one after the other.
LEMMA SaidThen ==
    ASSUME NEW L, NEW K, NEW J, NEW d, NEW a, NEW p \in Seq(Msgs), NEW q \in Seq(Msgs),
           Said(L, K, p), Said(K, J, q), Grows(L, K, d, a), Grows(K, J, d, a),
           J.L4STATE = K.L4STATE \/ L.L4STATE # 2,
           K.sent \in Nat, J.sent \in Nat, Len(K.RX) \in Nat, Len(J.RX) \in Nat
    PROVE  Said(L, J, p \o q)
<1>1. Items(p \o q) = Items(p) \cup Items(q)
  BY ItemsOf
<1>2. ASSUME NEW f \in Items(p)
      PROVE  /\ f.type \in {"INFO", "IACK", "DREQ", "CREQ"}
             /\ f.type = "CREQ" => f.id = L.CIRCUITID /\ L.L4STATE = 2 /\ J.L4STATE = 2
             /\ IsAck(f) => f.id = J.FARID /\ f.rx <= Len(J.RX)
             /\ f.type = "INFO" => f.m = f.tx + 1 /\ f.m <= J.sent
  <2>1. f \in Msgs /\ f.rx \in Nat /\ f.m \in Nat
    BY ItemsOf DEF Msgs
  <2>2. /\ f.type \in {"INFO", "IACK", "DREQ", "CREQ"}
        /\ f.type = "CREQ" => f.id = L.CIRCUITID /\ L.L4STATE = 2 /\ K.L4STATE = 2
        /\ IsAck(f) => f.id = K.FARID /\ f.rx <= Len(K.RX)
        /\ f.type = "INFO" => f.m = f.tx + 1 /\ f.m <= K.sent
    BY DEF Said
  <2>3. J.FARID = K.FARID /\ K.sent <= J.sent /\ Len(K.RX) <= Len(J.RX)
    BY DEF Grows
  <2>4. f.type = "CREQ" => J.L4STATE = 2
    BY <2>2
  <2>5. IsAck(f) => f.id = J.FARID /\ f.rx <= Len(J.RX)
    BY <2>1, <2>2, <2>3
  <2>6. f.type = "INFO" => f.m <= J.sent
    BY <2>1, <2>2, <2>3
  <2> QED BY <2>2, <2>4, <2>5, <2>6
<1>3. ASSUME NEW f \in Items(q)
      PROVE  /\ f.type \in {"INFO", "IACK", "DREQ", "CREQ"}
             /\ f.type = "CREQ" => f.id = L.CIRCUITID /\ L.L4STATE = 2 /\ J.L4STATE = 2
             /\ IsAck(f) => f.id = J.FARID /\ f.rx <= Len(J.RX)
             /\ f.type = "INFO" => f.m = f.tx + 1 /\ f.m <= J.sent
  BY DEF Said, Grows
<1> QED
  BY <1>1, <1>2, <1>3 DEF Said

\* K differs from L in its state, flags and timers only.
Keeps(L, K) ==
    /\ K.CIRCUITID = L.CIRCUITID /\ K.FARID = L.FARID
    /\ K.TXSEQNO = L.TXSEQNO /\ K.L4WS = L.L4WS /\ K.RXSEQNO = L.RXSEQNO
    /\ K.L4HOLD_Q = L.L4HOLD_Q /\ K.L4RESEQ_Q = L.L4RESEQ_Q
    /\ K.queued = L.queued /\ K.sent = L.sent /\ K.RX = L.RX /\ K.corrupt = L.corrupt

\* K differs from L in its flags and timers only.
Same(L, K) == K.L4STATE = L.L4STATE /\ Keeps(L, K)

\* Then it is an entry if L is.
LEMMA KeepsEntry ==
    ASSUME NEW mine, NEW far, NEW L, Entry(L, mine, far), L.L4STATE # 0,
           NEW K \in Sane, Keeps(L, K),
           K.L4STATE = L.L4STATE \/ (K.L4STATE = 4 /\ L.L4STATE \in {4, 5})
    PROVE  Entry(K, mine, far) /\ \A d, a : Grows(L, K, d, a)
<1>1. Acked(K) = Acked(L) /\ \A n : Got(L, n) => Got(K, n)
  BY DEF Keeps, Acked, Got
<1>2. Entry(K, mine, far)
  <2>1. HeldOK(K)
    BY <1>1 DEF Keeps, Entry, Loose, HeldOK
  <2>2. InSeq(K) /\ Got(K, far)
    BY <1>1 DEF Keeps, Entry, Loose, InSeq
  <2>3. L4WINDOW = 1 => Tight(K)
    BY DEF Keeps, Entry, Loose, Tight
  <2> QED BY <1>1, <2>1, <2>2, <2>3 DEF Keeps, Entry, Loose
<1>3. Len(L.RX) <= Len(K.RX) /\ L.sent <= K.sent
  BY EntryIs DEF Keeps
<1> QED
  BY <1>1, <1>2, <1>3 DEF Keeps, Grows

\* The same when the state is kept as well.
LEMMA SameKeeps ==
    ASSUME NEW mine, NEW far, NEW L, Entry(L, mine, far), L.L4STATE # 0,
           NEW K \in Sane, Same(L, K)
    PROVE  Entry(K, mine, far) /\ \A d, a : Grows(L, K, d, a)
  BY KeepsEntry DEF Same

\* A routine that starts with a step that says nothing.
LEMMA MovesThen ==
    ASSUME NEW mine, NEW far, NEW L, NEW K, NEW d, NEW a, NEW q,
           Entry(L, mine, far), Entry(K, mine, far), Grows(L, K, d, a), K.L4STATE = L.L4STATE,
           Moves(K, q, mine, far, d, a)
    PROVE  Moves(L, q, mine, far, d, a)
<1>1. CASE Clears(q)
  BY <1>1 DEF Moves
<1>2. CASE Advances(K, q, mine, far, d, a)
  <2>1. Entry(q.link, mine, far) /\ Grows(K, q.link, d, a) /\ Said(K, q.link, q.out) /\ q \in Results
    BY <1>2 DEF Advances
  <2>2. Grows(L, q.link, d, a)
    BY <2>1, GrowsThen, EntryIs
  <2>3. K.CIRCUITID = L.CIRCUITID
    BY DEF Grows
  <2>4. Said(L, q.link, q.out)
    BY <2>1, <2>3 DEF Said
  <2> QED BY <2>1, <2>2, <2>4 DEF Moves, Advances
<1> QED
  BY <1>1, <1>2 DEF Moves

\* Silence is consistent with everything.
LEMMA SaidNothing == \A L, K : Said(L, K, << >>)
  BY ItemsOf DEF Said

\* A routine that changes flags and timers and says nothing.
LEMMA SilentMoves ==
    ASSUME NEW mine, NEW far, NEW L, Entry(L, mine, far), L.L4STATE # 0,
           NEW K \in Sane, Same(L, K), NEW d, NEW a
    PROVE  Advances(L, Silent(K), mine, far, d, a)
  BY SameKeeps, SaidNothing, SilentIsResult DEF Advances, Silent

\* CLEARSESSIONENTRY.
LEMMA ClearMoves ==
    ASSUME NEW mine, NEW far, NEW L, NEW d, NEW a
    PROVE  Moves(L, Silent(CLEARSESSIONENTRY), mine, far, d, a)
  BY FreeIsSane, SilentIsResult, ItemsOf DEF Moves, Silent, Clears, CLEARSESSIONENTRY
-----------------------------------------------------------------------------
\* Up to half the modulus a number is its own sequence number.
LEMMA NoWrapTo == \A n \in 0..Half : n \in SeqNo /\ n % Modulus = n /\ n < Modulus
<1>1. \A n \in 0..Half : n \in SeqNo /\ n < Modulus
  BY ModulusIsNat DEF SeqNo
<1> QED BY <1>1, NoWrap

\* SENDL4IACK.
LEMMA IackMoves ==
    ASSUME NEW mine, NEW far, NEW L, Entry(L, mine, far), L.L4STATE # 0,
           NEW busy \in BOOLEAN, NEW d, NEW a
    PROVE  /\ Advances(L, SENDL4IACK(L, busy), mine, far, d, a)
           /\ Same(L, SENDL4IACK(L, busy).link)
           /\ Calm(L, SENDL4IACK(L, busy).link)
           /\ Said(L, SENDL4IACK(L, busy).link, SENDL4IACK(L, busy).out)
<1> DEFINE K == [L EXCEPT !.L4LASTACKED = L.RXSEQNO, !.told = busy]
           f == Msg("IACK", L.FARID, 0, L.RXSEQNO, busy, L.nak, 0)
<1>1. L \in Sane
  BY EntryIs
<1>2. SENDL4IACK(L, busy) = [link |-> K, out |-> << f >>] /\ SENDL4IACK(L, busy) \in Results
  BY <1>1, IackIsResult DEF SENDL4IACK
<1>3. K \in Sane
  BY <1>2 DEF Results
<1>4. Same(L, K) /\ Calm(L, K)
  BY <1>1 DEF Same, Keeps, Sane, Entries, Calm, Closing
<1>5. Said(L, K, << f >>)
  <2>1. f.type = "IACK" /\ f.id = L.FARID /\ f.rx = L.RXSEQNO
    BY DEF Msg
  <2>2. L.RXSEQNO = Len(K.RX) /\ K.FARID = L.FARID /\ Len(L.RX) \in Nat
    BY <1>4, EntryIs DEF Entry, Loose, Same, Keeps
  <2> HIDE DEF f, K
  <2> QED BY <2>1, <2>2, ItemsOf DEF Said, IsAck
<1>6. Entry(K, mine, far) /\ Grows(L, K, d, a)
  <2> HIDE DEF K
  <2> QED BY <1>3, <1>4, SameKeeps
<1> QED
  <2> HIDE DEF K, f
  <2> QED BY <1>2, <1>4, <1>5, <1>6 DEF Advances

\* SENDL4MESSAGE for n messages that the window has room for.
LEMMA InfosMove ==
    ASSUME NEW mine \in 0..Half, NEW far, NEW L, Entry(L, mine, far), L.L4STATE # 0,
           NEW n \in Nat, n <= L.queued - L.sent, Len(L.L4HOLD_Q) + n <= L4WINDOW + 1,
           NEW busy \in BOOLEAN, NEW d, NEW a
    PROVE  /\ Advances(L, SendInfos(L, n, busy), mine, far, d, a)
           /\ SendInfos(L, n, busy).link.L4STATE = L.L4STATE
           /\ Calm(L, SendInfos(L, n, busy).link)
<1> DEFINE r == SendInfos(L, n, busy)
           K == r.link
           infos == [k \in 1..n |-> Info(L, k, busy)]
<1>1. /\ L \in Sane /\ L.sent \in Nat /\ L.L4HOLD_Q \in Seq(Msgs) /\ Len(L.RX) \in Nat
      /\ L.sent + n \in 0..Half /\ L.queued <= mine
      /\ L.TXSEQNO = L.sent /\ L.RXSEQNO = Len(L.RX)
  <2>1. /\ L \in Sane /\ Len(L.RX) \in Nat /\ L.sent \in Nat /\ L.queued \in Nat
    BY EntryIs
  <2>2. L.L4HOLD_Q \in Seq(Msgs)
    BY <2>1, Fields
  <2>3. L.queued <= mine /\ L.TXSEQNO = L.sent /\ L.RXSEQNO = Len(L.RX)
    BY DEF Entry, Loose
  <2>4. L.sent + n \in 0..Half
    BY <2>1, <2>3, ModulusIsNat
  <2> QED BY <2>1, <2>2, <2>3, <2>4
<1>2. r \in Results /\ infos \in Seq(Msgs)
  BY <1>1, InfosIsResult, InfosAreMsgs
<1>3. /\ K.TXSEQNO = Plus(L.TXSEQNO, n) /\ K.sent = L.sent + n
      /\ K.L4HOLD_Q = L.L4HOLD_Q \o infos /\ r.out = infos
      /\ K.L4STATE = L.L4STATE /\ K.CIRCUITID = L.CIRCUITID /\ K.FARID = L.FARID
      /\ K.L4WS = L.L4WS /\ K.RXSEQNO = L.RXSEQNO /\ K.L4RESEQ_Q = L.L4RESEQ_Q
      /\ K.queued = L.queued /\ K.RX = L.RX /\ K.corrupt = L.corrupt
      /\ K.DISCPENDING = L.DISCPENDING
  BY <1>1 DEF SendInfos, Sane, Entries
<1>4. K \in Sane
  <2> HIDE DEF r
  <2> QED BY <1>2 DEF Results
<1>5. ASSUME NEW k \in 1..n
      PROVE  /\ infos[k].type = "INFO" /\ infos[k].id = L.FARID /\ infos[k].rx = Len(L.RX)
             /\ infos[k].m = L.sent + k /\ infos[k].tx = L.sent + k - 1
  <2>1. infos[k] = Info(L, k, busy)
    OBVIOUS
  <2>2. L.sent + (k - 1) \in 0..Half
    BY <1>1, ModulusIsNat
  <2>3. Plus(L.TXSEQNO, k - 1) = L.sent + k - 1
    BY <1>1, <2>2, NoWrapTo DEF Plus
  <2> QED BY <1>1, <2>1, <2>3 DEF Info, Msg
<1>6. K.TXSEQNO = K.sent
  BY <1>1, <1>3, NoWrapTo DEF Plus
<1>7. Len(infos) = n /\ Len(K.L4HOLD_Q) = Len(L.L4HOLD_Q) + n /\ Len(L.L4HOLD_Q) \in Nat
  <2>1. Len(infos) = n
    OBVIOUS
  <2>2. \A p, q \in Seq(Msgs) : Len(p \o q) = Len(p) + Len(q) /\ Len(p) \in Nat
    OBVIOUS
  <2> HIDE DEF infos, r
  <2> QED BY <1>1, <1>2, <1>3, <2>1, <2>2
<1>8. Acked(K) = Acked(L) /\ Acked(L) \in Nat
  <2> HIDE DEF infos, r
  <2> QED BY <1>1, <1>3, <1>7, EntryIs DEF Acked
<1>9. HeldOK(K)
  <2>1. Len(K.L4HOLD_Q) <= K.sent /\ Len(K.L4HOLD_Q) <= L4WINDOW + 1
    BY <1>1, <1>3, <1>7, ModulusIsNat DEF Entry, Loose, HeldOK
  <2>2. ASSUME NEW k \in 1..Len(K.L4HOLD_Q)
        PROVE  /\ K.L4HOLD_Q[k].type = "INFO" /\ K.L4HOLD_Q[k].id = K.FARID
               /\ K.L4HOLD_Q[k].m = Acked(K) + k /\ K.L4HOLD_Q[k].tx = Acked(K) + k - 1
               /\ K.L4HOLD_Q[k].rx <= Len(K.RX)
    <3>1. CASE k <= Len(L.L4HOLD_Q)
      <4>1. k \in 1..Len(L.L4HOLD_Q) /\ K.L4HOLD_Q[k] = L.L4HOLD_Q[k]
        <5> HIDE DEF infos, r
        <5> QED BY <1>1, <1>2, <1>3, <1>7, <3>1
      <4> QED BY <1>3, <1>8, <4>1 DEF Entry, Loose, HeldOK
    <3>2. CASE k > Len(L.L4HOLD_Q)
      <4> DEFINE j == k - Len(L.L4HOLD_Q)
      <4>1. j \in 1..n
        BY <1>7, <3>2
      <4>2. K.L4HOLD_Q[k] = infos[j]
        <5> HIDE DEF infos, r
        <5> QED BY <1>1, <1>2, <1>3, <1>7, <3>2
      <4>3. L.sent + j = Acked(K) + k /\ L.sent + j - 1 = Acked(K) + k - 1
        <5>1. Acked(L) = L.sent - Len(L.L4HOLD_Q)
          BY DEF Acked
        <5>2. Len(L.L4HOLD_Q) \in Nat /\ Acked(K) = Acked(L) /\ L.sent \in Nat /\ k \in Nat
          BY <1>1, <1>7, <1>8, <2>2
        <5> HIDE DEF infos, r
        <5> QED BY <5>1, <5>2
      <4> HIDE DEF infos, r, j
      <4> QED BY <1>1, <1>3, <1>5, <4>1, <4>2, <4>3
    <3> QED BY <1>7, <3>1, <3>2
  <2> QED BY <2>1, <2>2 DEF HeldOK
<1>10. Entry(K, mine, far)
  <2>1. Got(K, far) /\ InSeq(K)
    BY <1>3 DEF Entry, Loose, Got, InSeq
  <2>2. L4WINDOW = 1 => Tight(K)
    BY <1>3 DEF Entry, Loose, Tight
  <2> HIDE DEF r
  <2> QED BY <1>3, <1>4, <1>6, <1>8, <1>9, <2>1, <2>2 DEF Entry, Loose
<1>11. Grows(L, K, d, a)
  <2>1. \A k \in Nat : Got(L, k) => Got(K, k)
    BY <1>3 DEF Got
  <2>2. L.L4STATE = 2 => K.queued = L.queued
    BY <1>3
  <2>3. L.sent <= K.sent /\ Len(L.RX) <= Len(K.RX)
    <3> HIDE DEF r
    <3> QED BY <1>1, <1>3
  <2> HIDE DEF r
  <2> QED BY <1>1, <1>3, <1>8, <2>1, <2>2, <2>3 DEF Grows
<1>12. Said(L, K, r.out)
  <2>1. ASSUME NEW f \in Items(r.out)
        PROVE  /\ f.type = "INFO" /\ f.id = K.FARID /\ f.rx <= Len(K.RX)
               /\ f.m = f.tx + 1 /\ f.m <= K.sent
    <3>1. PICK k \in 1..n : f = infos[k]
      BY <1>3, <1>7 DEF Items
    <3> HIDE DEF infos, r
    <3> QED BY <1>1, <1>3, <1>5, <3>1
  <2> QED BY <2>1 DEF Said
<1> QED
  <2> HIDE DEF r
  <2>1. Advances(L, r, mine, far, d, a)
    BY <1>2, <1>10, <1>11, <1>12 DEF Advances
  <2>2. K.L4STATE = L.L4STATE /\ Calm(L, K)
    BY <1>3 DEF Calm, Closing
  <2> QED BY <2>1, <2>2 DEF r

\* L4BG: the window test leaves no more than L4WINDOW + 1 outstanding.
LEMMA BGMoves ==
    ASSUME NEW mine \in 0..Half, NEW far, NEW L, Entry(L, mine, far), L.L4STATE # 0,
           NEW busy \in BOOLEAN
    PROVE  /\ Advances(L, L4BG(L, busy), mine, far, 0, 0)
           /\ Calm(L, L4BG(L, busy).link)
<1> DEFINE room == MaySend(L)
           left == L.queued - L.sent
           n    == IF room < 0 THEN 0 ELSE IF room < left THEN room ELSE left
           S    == IF n = 0 THEN Silent(L) ELSE SendInfos(L, n, busy)
           T    == [S.link EXCEPT !.L4TIMER = @ \/ KeepsTimer(S.link, left - n)]
           A    == SENDL4IACK(T, busy)
<1>1. L \in Sane /\ left \in Nat /\ Len(L.L4HOLD_Q) \in Nat
  BY EntryIs
<1>2. Outstanding(L) = Len(L.L4HOLD_Q)
  <2>1. L.TXSEQNO - L.L4WS = Len(L.L4HOLD_Q)
    BY EntryIs DEF Entry, Loose
  <2>2. Len(L.L4HOLD_Q) \in 0..Half
    <3>1. L.queued <= mine /\ mine <= Half /\ mine \in Nat /\ Half \in Nat
      BY ModulusIsNat DEF Entry, Loose
    <3>2. Acked(L) \in Nat /\ Acked(L) + Len(L.L4HOLD_Q) = L.sent /\ L.sent <= L.queued
          /\ L.sent \in Nat /\ L.queued \in Nat
      BY EntryIs
    <3> QED BY <1>1, <3>1, <3>2
  <2> QED BY <2>1, <2>2, NoWrapTo DEF Outstanding
<1>3. room \in Int /\ room <= L4WINDOW + 1 - Len(L.L4HOLD_Q)
  <2>1. Len(L.L4HOLD_Q) <= L4WINDOW + 1
    BY DEF Entry, Loose, HeldOK
  <2>2. room = IF L.choked THEN 0 ELSE L4WINDOW + 1 - Len(L.L4HOLD_Q)
    BY <1>2 DEF MaySend
  <2>3. L4WINDOW \in Nat
    BY ModulusIsNat
  <2>4. Len(L.L4HOLD_Q) \in Nat
    BY <1>1
  <2> DEFINE k == Len(L.L4HOLD_Q)
  <2>5. 0 <= L4WINDOW + 1 - k /\ L4WINDOW + 1 - k \in Int
    <3> HIDE DEF k
    <3>1. k \in Nat /\ k <= L4WINDOW + 1
      BY <2>1, <2>4 DEF k
    <3> QED BY <2>3, <3>1
  <2>6. room = 0 \/ room = L4WINDOW + 1 - k
    BY <2>2
  <2> HIDE DEF room, k
  <2>7. room \in Int /\ room <= L4WINDOW + 1 - k
    BY <2>5, <2>6
  <2> QED BY <2>7 DEF k
<1>4. n \in Nat /\ n <= left /\ Len(L.L4HOLD_Q) + n <= L4WINDOW + 1
  <2>1. Len(L.L4HOLD_Q) <= L4WINDOW + 1 /\ L4WINDOW \in Nat
    BY ModulusIsNat DEF Entry, Loose, HeldOK
  <2> DEFINE k == Len(L.L4HOLD_Q)
  <2>2. k \in Nat /\ left \in Nat /\ room <= L4WINDOW + 1 - k /\ room \in Int /\ k <= L4WINDOW + 1
    BY <1>1, <1>3, <2>1
  <2> HIDE DEF room, left, k
  <2>3. n \in Nat /\ n <= left /\ k + n <= L4WINDOW + 1
    BY <2>1, <2>2
  <2> QED BY <2>3 DEF k
<1>5. /\ Entry(S.link, mine, far) /\ Grows(L, S.link, 0, 0) /\ Said(L, S.link, S.out)
      /\ S.link.L4STATE = L.L4STATE /\ Calm(L, S.link)
      /\ S \in Results
  <2>1. CASE n = 0
    <3>1. S = Silent(L)
      BY <2>1
    <3>2. Same(L, L)
      BY DEF Same, Keeps
    <3>3. S.link = L /\ S.out = << >> /\ S \in Results
      <4> HIDE DEF S
      <4> QED BY <1>1, <3>1, SilentIsResult DEF Silent
    <3>4. Entry(L, mine, far) /\ Grows(L, L, 0, 0) /\ Calm(L, L)
      BY <1>1, <3>2, SameKeeps DEF Calm
    <3> HIDE DEF S
    <3> QED BY <3>3, <3>4, SaidNothing
  <2>2. CASE n # 0
    <3>1. S = SendInfos(L, n, busy)
      BY <2>2
    <3>2. n <= L.queued - L.sent
      BY <1>4
    <3>3. n \in Nat /\ Len(L.L4HOLD_Q) + n <= L4WINDOW + 1
      BY <1>4
    <3> HIDE DEF S, n
    <3>4. /\ Advances(L, SendInfos(L, n, busy), mine, far, 0, 0)
          /\ SendInfos(L, n, busy).link.L4STATE = L.L4STATE
          /\ Calm(L, SendInfos(L, n, busy).link)
      BY <3>2, <3>3, InfosMove, SMTT(30)
    <3> QED BY <3>1, <3>4 DEF Advances
  <2> QED BY <2>1, <2>2
<1>6. T \in Sane /\ Same(S.link, T) /\ Calm(S.link, T) /\ S.link \in Sane /\ S.out \in Seq(Msgs)
  <2> HIDE DEF S
  <2>1. S.link \in Sane /\ S.out \in Seq(Msgs)
    BY <1>5 DEF Results
  <2>2. (S.link.L4TIMER \/ KeepsTimer(S.link, left - n)) \in BOOLEAN
    BY <2>1, Fields DEF KeepsTimer
  <2>3. \A X \in Sane : \A b \in BOOLEAN :
           LET Y == [X EXCEPT !.L4TIMER = b] IN Y \in Sane /\ Same(X, Y)
    <3>1. \A X \in Sane : \A b \in BOOLEAN : [X EXCEPT !.L4TIMER = b] \in Sane
      BY DEF Sane, Entries
    <3>2. \A X \in Sane : \A b \in BOOLEAN : Same(X, [X EXCEPT !.L4TIMER = b])
      BY DEF Sane, Entries, Same, Keeps
    <3> QED BY <3>1, <3>2
  <2>4. \A X \in Sane : \A b \in BOOLEAN :
           LET Y == [X EXCEPT !.L4TIMER = b] IN
           Y.L4STATE = X.L4STATE /\ Y.DISCPENDING = X.DISCPENDING
    BY DEF Sane, Entries
  <2>5. \A X \in Sane : \A b \in BOOLEAN : Calm(X, [X EXCEPT !.L4TIMER = b])
    BY <2>4 DEF Calm, Closing
  <2> QED BY <2>1, <2>2, <2>3, <2>5
<1>7. Entry(T, mine, far) /\ T.L4STATE # 0 /\ T.L4STATE = L.L4STATE /\ Calm(L, T)
      /\ Grows(S.link, T, 0, 0)
  <2> HIDE DEF S, T
  <2>1. Entry(T, mine, far) /\ Grows(S.link, T, 0, 0)
    BY <1>5, <1>6, SameKeeps
  <2> QED BY <1>5, <1>6, <2>1 DEF Same, Calm
<1>8. Grows(L, T, 0, 0) /\ Said(L, T, S.out)
  <2> HIDE DEF S, T
  <2>1. Grows(L, T, 0, 0)
    BY <1>5, <1>7, GrowsThen, EntryIs
  <2>2. T.FARID = S.link.FARID /\ T.sent = S.link.sent /\ T.RX = S.link.RX /\ T.L4STATE = S.link.L4STATE
    BY <1>6 DEF Same, Keeps
  <2> QED BY <1>5, <2>1, <2>2 DEF Said
<1>9. Advances(L, [link |-> T, out |-> S.out], mine, far, 0, 0)
  <2> HIDE DEF S, T
  <2> QED BY <1>6, <1>7, <1>8 DEF Advances, Results
<1>10. /\ Advances(L, [A EXCEPT !.out = S.out \o @], mine, far, 0, 0)
       /\ A.link.L4STATE = L.L4STATE /\ Calm(L, A.link)
       /\ [A EXCEPT !.out = S.out \o @].link = A.link
  <2>1. /\ A \in Results /\ Same(T, A.link) /\ Calm(T, A.link)
        /\ Said(T, A.link, A.out)
    <3> HIDE DEF T
    <3>1. A \in Results
      BY <1>6, IackIsResult
    <3> QED BY <1>7, <3>1, IackMoves
  <2>2. A.link \in Sane /\ A.out \in Seq(Msgs)
    <3> HIDE DEF A
    <3> QED BY <2>1 DEF Results
  <2>3. Entry(A.link, mine, far) /\ Grows(T, A.link, 0, 0) /\ A.link.L4STATE = L.L4STATE
    <3> HIDE DEF A, T
    <3> QED BY <1>7, <2>1, <2>2, SameKeeps DEF Same
  <2>4. Grows(L, A.link, 0, 0)
    <3> HIDE DEF A, T, S
    <3> QED BY <1>7, <1>8, <2>3, GrowsThen, EntryIs
  <2>5. Said(L, A.link, S.out \o A.out)
    <3> HIDE DEF A, T, S
    <3>1. T.sent \in Nat /\ A.link.sent \in Nat /\ Len(T.RX) \in Nat /\ Len(A.link.RX) \in Nat
      BY <1>7, <2>3, EntryIs
    <3>2. A.link.L4STATE = T.L4STATE
      BY <1>7, <2>3
    <3> QED BY <1>6, <1>8, <2>1, <2>2, <2>3, <3>1, <3>2, SaidThen
  <2>6. [A EXCEPT !.out = S.out \o @] = [link |-> A.link, out |-> S.out \o A.out]
    <3>1. \A R \in Results : \A q : [R EXCEPT !.out = q] = [link |-> R.link, out |-> q]
      BY DEF Results
    <3> HIDE DEF A, S
    <3> QED BY <2>1, <3>1
  <2>7. S.out \o A.out \in Seq(Msgs)
    <3> HIDE DEF A, S
    <3> QED BY <1>6, <2>2
  <2> HIDE DEF A, S, T
  <2> QED BY <1>7, <2>1, <2>2, <2>3, <2>4, <2>5, <2>6, <2>7 DEF Advances, Results, Calm
<1>11. L4BG(L, busy) = IF (T.RXSEQNO - T.L4LASTACKED) % Modulus >= L4WINDOW
                       THEN [A EXCEPT !.out = S.out \o @]
                       ELSE [link |-> T, out |-> S.out]
  BY DEF L4BG
<1> QED
  <2> HIDE DEF A, S, T
  <2> QED BY <1>7, <1>9, <1>10, <1>11
-----------------------------------------------------------------------------
\* SENDL4DISC.
LEMMA DiscMoves ==
    ASSUME NEW mine, NEW far, NEW L, Entry(L, mine, far), L.L4STATE # 0, NEW d, NEW a
    PROVE  Moves(L, SENDL4DISC(L), mine, far, d, a)
<1>1. L \in Sane /\ SENDL4DISC(L) \in Results
  BY EntryIs, DiscIsResult
<1>2. CASE L.L4STATE < 4
  BY <1>2, ClearMoves DEF SENDL4DISC
<1>3. CASE ~(L.L4STATE < 4)
  <2> DEFINE K == [L EXCEPT !.L4STATE = 4, !.L4TIMER = TRUE, !.L4ACKREQ = FALSE]
             f == Control("DREQ", L.FARID)
  <2>1. SENDL4DISC(L) = [link |-> K, out |-> << f >>]
    BY <1>3 DEF SENDL4DISC
  <2>2. K \in Sane /\ K.L4STATE = 4 /\ Keeps(L, K) /\ L.L4STATE \in {4, 5}
    <3>1. L.L4STATE \in {4, 5}
      BY <1>1, <1>3, Fields
    <3>2. K.L4STATE = 4 /\ Keeps(L, K)
      BY <1>1 DEF Sane, Entries, Keeps
    <3>3. K \in Sane
      <4> HIDE DEF K, f
      <4> QED BY <1>1, <2>1 DEF Results
    <3> QED BY <3>1, <3>2, <3>3
  <2>3. f.type = "DREQ"
    BY DEF Control, Msg
  <2> HIDE DEF K, f
  <2>4. Said(L, K, << f >>)
    BY <2>3, ItemsOf DEF Said, IsAck
  <2> QED BY <1>1, <2>1, <2>2, <2>4, KeepsEntry DEF Moves, Advances
<1> QED
  BY <1>2, <1>3

\* ACKFRAMES after n frames have gone.
Released(L, n, b) == [Release(L, n) EXCEPT !.L4TIMER = b, !.L4RETRIES = 0]

\* Taking n frames off the hold queue acknowledges exactly n more.
LEMMA ReleaseMoves ==
    ASSUME NEW mine \in 0..Half, NEW far, NEW L, Entry(L, mine, far), L.L4STATE # 0,
           NEW n \in 0..Len(L.L4HOLD_Q), NEW b \in BOOLEAN
    PROVE  /\ Entry(Released(L, n, b), mine, far)
           /\ Grows(L, Released(L, n, b), 0, Acked(L) + n)
           /\ Released(L, n, b).L4STATE = L.L4STATE
           /\ Released(L, n, b).DISCPENDING = L.DISCPENDING
           /\ Acked(Released(L, n, b)) = Acked(L) + n
<1> DEFINE K == [Release(L, n) EXCEPT !.L4TIMER = b, !.L4RETRIES = 0]
           q == SubSeq(L.L4HOLD_Q, n + 1, Len(L.L4HOLD_Q))
<1>1. /\ L \in Sane /\ L.L4HOLD_Q \in Seq(Msgs) /\ Len(L.L4HOLD_Q) \in Nat
      /\ L.sent \in Nat /\ Acked(L) \in Nat /\ Acked(L) + Len(L.L4HOLD_Q) = L.sent
      /\ L.sent <= Half /\ Len(L.RX) \in Nat
  <2>1. L \in Sane /\ L.L4HOLD_Q \in Seq(Msgs)
    BY EntryIs, Fields
  <2>2. L.sent <= L.queued /\ L.queued <= mine /\ mine <= Half /\ L.queued \in Nat /\ L.sent \in Nat
        /\ mine \in Nat /\ Half \in Nat
    BY EntryIs, ModulusIsNat DEF Entry, Loose
  <2>3. L.sent <= Half
    BY <2>2
  <2> QED BY <2>1, <2>3, EntryIs
<1>2. Len(q) = Len(L.L4HOLD_Q) - n /\ \A k \in 1..Len(q) : q[k] = L.L4HOLD_Q[n + k]
  BY <1>1
<1>3. /\ K.L4WS = Plus(L.L4WS, n) /\ K.L4HOLD_Q = q
      /\ K.sent = L.sent /\ K.queued = L.queued /\ K.TXSEQNO = L.TXSEQNO
      /\ K.L4STATE = L.L4STATE /\ K.CIRCUITID = L.CIRCUITID /\ K.FARID = L.FARID
      /\ K.RXSEQNO = L.RXSEQNO /\ K.L4RESEQ_Q = L.L4RESEQ_Q
      /\ K.RX = L.RX /\ K.corrupt = L.corrupt /\ K.DISCPENDING = L.DISCPENDING
  BY <1>1 DEF Release, Sane, Entries
<1>4. K \in Sane
  <2>1. n \in Nat
    BY <1>1
  <2> QED BY <1>1, <2>1, ReleaseIsSane
<1> HIDE DEF K, q
<1>5. Acked(K) = Acked(L) + n /\ Acked(L) + n <= L.sent
  <2>1. Acked(L) = L.sent - Len(L.L4HOLD_Q) /\ Acked(K) = L.sent - Len(q)
    BY <1>3 DEF Acked
  <2>2. n \in Nat /\ n <= Len(L.L4HOLD_Q) /\ Len(q) = Len(L.L4HOLD_Q) - n
    BY <1>1, <1>2
  <2> DEFINE h == Len(L.L4HOLD_Q)
             p == Len(q)
             c == Acked(L)
  <2>3. h \in Nat /\ n \in Nat /\ n <= h /\ p = h - n /\ c \in Nat /\ c + h = L.sent /\ Acked(K) = L.sent - p
    BY <1>1, <2>1, <2>2
  <2> HIDE DEF h, p, c
  <2>4. Acked(K) = c + n /\ c + n <= L.sent
    BY <1>1, <2>3
  <2> QED BY <2>4 DEF c
<1>6. K.L4WS = Acked(K)
  <2>1. L.L4WS = Acked(L)
    BY DEF Entry, Loose
  <2>2. Acked(L) + n \in 0..Half
    BY <1>1, <1>5, ModulusIsNat
  <2> QED BY <1>3, <1>5, <2>1, <2>2, NoWrapTo DEF Plus
<1>7. HeldOK(K)
  <2>1. Len(q) <= Len(L.L4HOLD_Q) /\ Len(q) \in Nat
    BY <1>1, <1>2
  <2>2. Len(L.L4HOLD_Q) <= L.sent /\ Len(L.L4HOLD_Q) <= L4WINDOW + 1
    BY DEF Entry, Loose, HeldOK
  <2>3. Len(K.L4HOLD_Q) <= K.sent /\ Len(K.L4HOLD_Q) <= L4WINDOW + 1
    <3>1. \A x, y, z \in Int : x <= y /\ y <= z => x <= z
      OBVIOUS
    <3>2. L4WINDOW + 1 \in Int
      BY ModulusIsNat
    <3> QED BY <1>1, <1>3, <2>1, <2>2, <3>1, <3>2
  <2>4. ASSUME NEW k \in 1..Len(K.L4HOLD_Q)
        PROVE  /\ K.L4HOLD_Q[k].type = "INFO" /\ K.L4HOLD_Q[k].id = K.FARID
               /\ K.L4HOLD_Q[k].m = Acked(K) + k /\ K.L4HOLD_Q[k].tx = Acked(K) + k - 1
               /\ K.L4HOLD_Q[k].rx <= Len(K.RX)
    <3> DEFINE g == L.L4HOLD_Q[n + k]
    <3> DEFINE h == Len(L.L4HOLD_Q)
    <3>0. /\ h \in Nat /\ n \in Nat /\ k \in 1..Len(q) /\ Len(q) = h - n
          /\ K.L4HOLD_Q = q
      BY <1>1, <1>2, <1>3
    <3>1. n + k \in 1..Len(L.L4HOLD_Q) /\ K.L4HOLD_Q[k] = g /\ k \in Nat
      <4>1. K.L4HOLD_Q[k] = g
        BY <1>2, <3>0
      <4> HIDE DEF h, g
      <4>2. n + k \in 1..h /\ k \in Nat
        BY <3>0
      <4> QED BY <4>1, <4>2 DEF h
    <3>2. g.type = "INFO" /\ g.id = L.FARID /\ g.m = Acked(L) + (n + k)
          /\ g.tx = Acked(L) + (n + k) - 1 /\ g.rx <= Len(L.RX)
      BY <3>1 DEF Entry, Loose, HeldOK
    <3> HIDE DEF g
    <3> QED BY <1>1, <1>3, <1>5, <3>1, <3>2
  <2> QED BY <2>3, <2>4 DEF HeldOK
<1>8. Entry(K, mine, far)
  <2>1. Got(K, far) /\ InSeq(K)
    BY <1>3 DEF Entry, Loose, Got, InSeq
  <2>2. L4WINDOW = 1 => Tight(K)
    BY <1>3 DEF Entry, Loose, Tight
  <2> QED BY <1>3, <1>4, <1>6, <1>7, <2>1, <2>2 DEF Entry, Loose
<1>9. Grows(L, K, 0, Acked(L) + n)
  <2>1. \A k \in Nat : Got(L, k) => Got(K, k)
    BY <1>3 DEF Got
  <2> QED BY <1>1, <1>3, <1>5, <2>1 DEF Grows
<1> QED
  BY <1>3, <1>5, <1>8, <1>9 DEF K, Released

\* ACKFRAMES counts as it should: the difference is never below minus half.
LEMMA CountIs ==
    ASSUME NEW mine \in 0..Half, NEW far, NEW L, Entry(L, mine, far), NEW nr \in Nat, nr <= L.sent
    PROVE  /\ AckCount(L, nr) = nr - Acked(L) /\ AckCount(L, nr) \in Int
           /\ AckCount(L, nr) <= Len(L.L4HOLD_Q)
<1>1. L.L4WS = Acked(L) /\ L.queued <= mine
  BY DEF Entry, Loose
<1>2. /\ Acked(L) \in Nat /\ Acked(L) <= L.sent /\ L.sent \in Nat /\ L.queued \in Nat
      /\ L.sent <= L.queued /\ Acked(L) + Len(L.L4HOLD_Q) = L.sent /\ Len(L.L4HOLD_Q) \in Nat
  BY EntryIs
<1> DEFINE c == Acked(L)
           h == Len(L.L4HOLD_Q)
<1>3. AckCount(L, nr) = IF nr - c < -Half THEN nr - c + Modulus ELSE nr - c
  BY <1>1 DEF AckCount
<1>4. c \in Nat /\ c <= L.sent /\ L.sent \in Nat /\ L.sent <= Half /\ c + h = L.sent /\ h \in Nat
  <2>1. \A x, y, z \in Int : x <= y /\ y <= z => x <= z
    OBVIOUS
  <2>2. mine \in Int /\ mine <= Half /\ Half \in Int
    BY ModulusIsNat
  <2>3. L.sent <= mine
    BY <1>1, <1>2, <2>1, <2>2
  <2>4. L.sent <= Half
    BY <1>2, <2>1, <2>2, <2>3
  <2> QED BY <1>2, <2>4
<1> HIDE DEF c, h
<1>5. ~(nr - c < -Half)
  BY <1>4, ModulusIsNat
<1>6. AckCount(L, nr) = nr - c /\ nr - c \in Int /\ nr - c <= h
  BY <1>3, <1>4, <1>5
<1> QED
  BY <1>6 DEF c, h

\* ACKFRAMES, for an acknowledgement of what was sent.
LEMMA AckMoves ==
    ASSUME NEW mine \in 0..Half, NEW far, NEW L, Entry(L, mine, far), L.L4STATE # 0,
           NEW f \in Msgs, f.rx <= L.sent
    PROVE  /\ Moves(L, ACKFRAMES(L, f), mine, far, 0, f.rx)
           /\ Calm(L, ACKFRAMES(L, f).link)
<1> DEFINE n == AckCount(L, f.rx)
           b == f.rx # L.TXSEQNO
           K == Released(L, n, b)
           J == [K EXCEPT !.choked = f.busy]
           o == IF f.nak /\ K.L4HOLD_Q # << >> THEN << Head(K.L4HOLD_Q) >> ELSE << >>
<1>1. f.rx \in Nat /\ f.busy \in BOOLEAN
  BY DEF Msgs
<1>2. L \in Sane /\ Acked(L) \in Nat /\ ACKFRAMES(L, f) \in Results
  BY EntryIs, AckIsResult
<1>3. n = f.rx - Acked(L) /\ n \in Int /\ n <= Len(L.L4HOLD_Q)
  BY <1>1, CountIs
<1>4. CASE n < 0
  <2>1. ACKFRAMES(L, f) = Silent(L)
    BY <1>4 DEF ACKFRAMES
  <2>2. Same(L, L) /\ Calm(L, L) /\ Silent(L).link = L
    BY DEF Same, Keeps, Calm, Silent
  <2> QED BY <1>2, <2>1, <2>2, SilentMoves DEF Moves
<1>5. ASSUME ~(n < 0)
      PROVE  /\ Entry(K, mine, far) /\ Grows(L, K, 0, f.rx)
             /\ K.L4STATE = L.L4STATE /\ K.DISCPENDING = L.DISCPENDING
             /\ Acked(K) = f.rx
  <2>1. n \in 0..Len(L.L4HOLD_Q) /\ b \in BOOLEAN /\ Acked(L) + n = f.rx
    <3> HIDE DEF n
    <3>1. Len(L.L4HOLD_Q) \in Nat
      BY EntryIs
    <3>2. n \in 0..Len(L.L4HOLD_Q)
      BY <1>3, <1>5, <3>1
    <3>3. Acked(L) + n = f.rx
      BY <1>1, <1>2, <1>3
    <3> QED BY <3>2, <3>3
  <2> HIDE DEF n, b
  <2>2. /\ Entry(K, mine, far) /\ Grows(L, K, 0, Acked(L) + n)
        /\ K.L4STATE = L.L4STATE /\ K.DISCPENDING = L.DISCPENDING
        /\ Acked(K) = Acked(L) + n
    BY <2>1, ReleaseMoves
  <2> HIDE DEF K
  <2> QED BY <2>1, <2>2
<1>6. CASE ~(n < 0) /\ f.rx = L.TXSEQNO /\ L.DISCPENDING /\ TX_QEmpty(L)
  <2>1. ACKFRAMES(L, f) = SENDL4DISC(K)
    BY <1>6 DEF ACKFRAMES, Released
  <2> HIDE DEF K, n
  <2>2. Entry(K, mine, far) /\ Grows(L, K, 0, f.rx) /\ K.L4STATE = L.L4STATE
    BY <1>5, <1>6
  <2>3. Moves(K, SENDL4DISC(K), mine, far, 0, f.rx)
    BY <2>2, DiscMoves
  <2>4. Calm(L, SENDL4DISC(K).link)
    BY <1>6 DEF Calm, Closing
  <2>5. Moves(L, SENDL4DISC(K), mine, far, 0, f.rx)
    BY <2>2, <2>3, MovesThen
  <2> QED BY <2>1, <2>4, <2>5
<1>7. CASE ~(n < 0) /\ ~(f.rx = L.TXSEQNO /\ L.DISCPENDING /\ TX_QEmpty(L))
  <2>1. ACKFRAMES(L, f) = [link |-> J, out |-> o]
    BY <1>7 DEF ACKFRAMES, Released
  <2>2. /\ Entry(K, mine, far) /\ Grows(L, K, 0, f.rx) /\ K.L4STATE = L.L4STATE
        /\ K.DISCPENDING = L.DISCPENDING
    <3> HIDE DEF K, n
    <3> QED BY <1>5, <1>7
  <2>3. J \in Sane /\ Same(K, J) /\ Calm(L, J)
    <3>1. K \in Sane
      <4> HIDE DEF K
      <4> QED BY <2>2, EntryIs
    <3>2. \A X \in Sane : \A c \in BOOLEAN :
            LET Y == [X EXCEPT !.choked = c] IN Y \in Sane /\ Same(X, Y)
      <4>1. \A X \in Sane : \A c \in BOOLEAN : [X EXCEPT !.choked = c] \in Sane
        BY DEF Sane, Entries
      <4>2. \A X \in Sane : \A c \in BOOLEAN : Same(X, [X EXCEPT !.choked = c])
        BY DEF Sane, Entries, Same, Keeps
      <4> QED BY <4>1, <4>2
    <3>3. \A X \in Sane : \A c \in BOOLEAN :
            LET Y == [X EXCEPT !.choked = c] IN Y.L4STATE = X.L4STATE /\ Y.DISCPENDING = X.DISCPENDING
      BY DEF Sane, Entries
    <3> HIDE DEF K, n
    <3>4. J.L4STATE = L.L4STATE /\ J.DISCPENDING = L.DISCPENDING
      BY <1>1, <2>2, <3>1, <3>3
    <3> QED BY <1>1, <3>1, <3>2, <3>4 DEF Calm, Closing
  <2> HIDE DEF K, J
  <2>4. Entry(J, mine, far) /\ Grows(K, J, 0, f.rx)
    BY <2>2, <2>3, SameKeeps
  <2>5. Grows(L, J, 0, f.rx)
    BY <2>2, <2>4, GrowsThen, EntryIs
  <2>6. Said(L, J, o)
    <3>1. CASE o = << >>
      <4> HIDE DEF o
      <4> QED BY <3>1, SaidNothing
    <3>2. CASE o # << >>
      <4> DEFINE g == K.L4HOLD_Q[1]
      <4>1. K.L4HOLD_Q # << >> /\ o = << Head(K.L4HOLD_Q) >>
        BY <3>2
      <4>2. K.L4HOLD_Q \in Seq(Msgs) /\ Len(K.L4HOLD_Q) >= 1 /\ Head(K.L4HOLD_Q) = g
            /\ 1 \in 1..Len(K.L4HOLD_Q)
        <5>1. K \in Sane
          BY <2>2, EntryIs
        <5>2. K.L4HOLD_Q \in Seq(Msgs)
          BY <5>1, Fields
        <5> QED BY <4>1, <5>2
      <4>3. /\ g.type = "INFO" /\ g.id = K.FARID /\ g.m = Acked(K) + 1
            /\ g.tx = Acked(K) + 1 - 1 /\ g.rx <= Len(K.RX)
        BY <2>2, <4>2 DEF Entry, Loose, HeldOK
      <4>4. Acked(K) \in Nat /\ Acked(K) + Len(K.L4HOLD_Q) = K.sent /\ Len(K.L4HOLD_Q) \in Nat
        BY <2>2, EntryIs
      <4>5. g.m = g.tx + 1 /\ g.m <= K.sent
        <5> HIDE DEF g
        <5> QED BY <4>2, <4>3, <4>4
      <4>6. K.FARID = J.FARID /\ K.RX = J.RX /\ K.sent = J.sent
        BY <2>3 DEF Same, Keeps
      <4>7. Items(o) = {g}
        <5> HIDE DEF g, o
        <5> QED BY <4>1, <4>2, ItemsOf
      <4> HIDE DEF o, g
      <4> QED BY <4>3, <4>5, <4>6, <4>7 DEF Said
    <3> QED BY <3>1, <3>2
  <2> HIDE DEF o
  <2> QED BY <1>2, <2>1, <2>3, <2>4, <2>5, <2>6 DEF Moves, Advances
<1> QED
  BY <1>4, <1>6, <1>7
-----------------------------------------------------------------------------
\* K is L with data handed on or taken off L4RESEQ_Q.
Steady(L, K, d) == /\ Grows(L, K, d, 0)
                   /\ K.L4STATE = L.L4STATE /\ K.DISCPENDING = L.DISCPENDING

\* The fields of a loose entry.
LEMMA LooseIs ==
    ASSUME NEW mine, NEW far \in 0..Half, NEW L, Loose(L, mine, far)
    PROVE  /\ L \in Sane /\ L.L4RESEQ_Q \in Seq(Msgs) /\ L.RX \in Seq(Nat)
           /\ Len(L.L4RESEQ_Q) \in Nat /\ Len(L.RX) \in Nat /\ Len(L.RX) <= far
           /\ L.RXSEQNO = Len(L.RX) /\ L.sent \in Nat /\ Acked(L) \in Nat
<1>1. L \in Sane /\ L.RXSEQNO = Len(L.RX) /\ Len(L.RX) <= far
  BY DEF Loose, Got
<1>2. L.L4RESEQ_Q \in Seq(Msgs) /\ L.RX \in Seq(Nat) /\ L.sent \in Nat /\ L.L4WS \in Nat
  BY <1>1, Fields
<1>3. L.L4WS = Acked(L)
  BY DEF Loose
<1> QED
  BY <1>1, <1>2, <1>3

\* m may be handed on.
Due(L, m) == L.corrupt \/ m = Len(L.RX) + 1

\* No buffer has been handed on that is still on a queue.
Clean(L) == ~L.corrupt

\* Handing on what is due.
LEMMA DeliverMoves ==
    ASSUME NEW mine, NEW far \in 0..Half, NEW L, Loose(L, mine, far), L.L4STATE # 0,
           NEW m \in Nat, Due(L, m), Len(L.RX) + 1 <= far
    PROVE  /\ Loose(Deliver(L, m), mine, far)
           /\ Steady(L, Deliver(L, m), Len(L.RX) + 1)
           /\ Deliver(L, m).RXSEQNO = L.RXSEQNO + 1
           /\ Deliver(L, m).L4RESEQ_Q = L.L4RESEQ_Q
           /\ Clean(L) => Clean(Deliver(L, m))
<1> DEFINE K == Deliver(L, m)
<1>1. L \in Sane /\ K \in Sane /\ L.RX \in Seq(Nat) /\ L.RXSEQNO = Len(L.RX) /\ Len(L.RX) \in Nat
  BY LooseIs, DeliverIsSane
<1>2. /\ K.RXSEQNO = Plus(L.RXSEQNO, 1) /\ K.RX = Append(L.RX, m)
      /\ K.L4STATE = L.L4STATE /\ K.CIRCUITID = L.CIRCUITID /\ K.FARID = L.FARID
      /\ K.TXSEQNO = L.TXSEQNO /\ K.L4WS = L.L4WS /\ K.L4HOLD_Q = L.L4HOLD_Q
      /\ K.L4RESEQ_Q = L.L4RESEQ_Q /\ K.queued = L.queued /\ K.sent = L.sent
      /\ K.corrupt = L.corrupt /\ K.DISCPENDING = L.DISCPENDING
  BY <1>1 DEF Deliver, Sane, Entries
<1> HIDE DEF K
<1>3. /\ Len(K.RX) = Len(L.RX) + 1 /\ K.RX[Len(L.RX) + 1] = m
      /\ \A k \in 1..Len(L.RX) : K.RX[k] = L.RX[k]
  BY <1>1, <1>2
<1>4. K.RXSEQNO = Len(K.RX) /\ K.RXSEQNO = L.RXSEQNO + 1
  <2>1. Len(L.RX) + 1 \in 0..Half
    BY <1>1, ModulusIsNat
  <2> QED BY <1>1, <1>2, <1>3, <2>1, NoWrapTo DEF Plus
<1>5. Acked(K) = Acked(L) /\ Acked(K) \in Nat /\ L.sent \in Nat
  BY <1>2, LooseIs DEF Acked
<1>6. HeldOK(K)
  <2>1. ASSUME NEW k \in 1..Len(K.L4HOLD_Q) PROVE K.L4HOLD_Q[k].rx <= Len(K.RX)
    <3>1. K.L4HOLD_Q[k].rx <= Len(L.RX) /\ K.L4HOLD_Q \in Seq(Msgs)
      BY <1>1, <1>2, Fields DEF Loose, HeldOK
    <3>2. K.L4HOLD_Q[k] \in Msgs
      BY <3>1
    <3>3. K.L4HOLD_Q[k].rx \in Nat
      BY <3>2 DEF Msgs
    <3> QED BY <1>1, <1>3, <3>1, <3>3
  <2> QED BY <1>2, <1>5, <2>1 DEF HeldOK, Loose
<1>7. \A n \in Nat : Got(L, n) /\ Len(L.RX) + 1 <= n => Got(K, n)
  BY <1>2, <1>3 DEF Got
<1>8. InSeq(K)
  <2>1. CASE L.corrupt
    BY <1>2, <2>1 DEF InSeq
  <2>2. CASE ~L.corrupt
    <3>1. \A k \in 1..Len(L.RX) : L.RX[k] = k
      BY <2>2 DEF Loose, InSeq
    <3>2. ASSUME NEW k \in 1..Len(K.RX) PROVE K.RX[k] = k
      <4>1. k \in 1..Len(L.RX) \/ k = Len(L.RX) + 1
        BY <1>1, <1>3
      <4>2. m = Len(L.RX) + 1
        BY <2>2 DEF Due
      <4>3. CASE k \in 1..Len(L.RX)
        BY <1>3, <3>1, <4>3
      <4>4. CASE k = Len(L.RX) + 1
        <5>1. K.RX[Len(L.RX) + 1] = m
          BY <1>3
        <5>2. K.RX[k] = m
          BY <4>4, <5>1
        <5> QED BY <4>2, <4>4, <5>2
      <4> QED BY <4>1, <4>3, <4>4
    <3> QED BY <3>2 DEF InSeq
  <2> QED BY <2>1, <2>2
<1>9. Loose(K, mine, far)
  <2>1. Got(K, far)
    BY <1>7 DEF Loose
  <2> QED BY <1>1, <1>2, <1>4, <1>5, <1>6, <1>8, <2>1 DEF Loose
<1>10. Grows(L, K, Len(L.RX) + 1, 0)
  BY <1>1, <1>2, <1>3, <1>5, <1>7 DEF Grows
<1> QED
  BY <1>2, <1>4, <1>9, <1>10 DEF Steady, K, Clean

\* One steady step after another.
LEMMA SteadyThen ==
    ASSUME NEW mine, NEW far \in 0..Half, NEW L, NEW K, NEW J, NEW d,
           Loose(L, mine, far), Loose(K, mine, far), Loose(J, mine, far),
           Steady(L, K, d), Steady(K, J, d)
    PROVE  Steady(L, J, d)
<1>1. Grows(L, J, d, 0)
  BY GrowsThen, LooseIs DEF Steady
<1> QED
  BY <1>1 DEF Steady

\* Something else than RX changes, and L4RESEQ_Q at most gets shorter.
LEMMA ResetMoves ==
    ASSUME NEW mine, NEW far \in 0..Half, NEW L, Loose(L, mine, far), L.L4STATE # 0,
           NEW q \in Seq(Msgs), Items(q) \subseteq Items(L.L4RESEQ_Q), NEW b \in BOOLEAN,
           L.corrupt => b
    PROVE  LET K == [L EXCEPT !.L4RESEQ_Q = q, !.corrupt = b] IN
           Loose(K, mine, far) /\ Steady(L, K, 0)
<1> DEFINE K == [L EXCEPT !.L4RESEQ_Q = q, !.corrupt = b]
<1>1. L \in Sane /\ Len(L.RX) \in Nat /\ L.sent \in Nat
  BY LooseIs
<1>2. /\ K.RXSEQNO = L.RXSEQNO /\ K.RX = L.RX
      /\ K.L4STATE = L.L4STATE /\ K.CIRCUITID = L.CIRCUITID /\ K.FARID = L.FARID
      /\ K.TXSEQNO = L.TXSEQNO /\ K.L4WS = L.L4WS /\ K.L4HOLD_Q = L.L4HOLD_Q
      /\ K.L4RESEQ_Q = q /\ K.queued = L.queued /\ K.sent = L.sent
      /\ K.corrupt = b /\ K.DISCPENDING = L.DISCPENDING /\ K \in Sane
  BY <1>1 DEF Sane, Entries
<1> HIDE DEF K
<1>3. Acked(K) = Acked(L)
  BY <1>2 DEF Acked
<1>4. \A n \in Nat : Got(L, n) => Got(K, n)
  <2>1. ASSUME NEW n \in Nat, Got(L, n), NEW k \in 1..Len(q)
        PROVE  q[k].m = q[k].tx + 1 /\ q[k].m <= n
    <3>1. q[k] \in Items(L.L4RESEQ_Q)
      BY DEF Items
    <3>2. PICK j \in 1..Len(L.L4RESEQ_Q) : L.L4RESEQ_Q[j] = q[k]
      BY <3>1 DEF Items
    <3> QED BY <2>1, <3>2 DEF Got
  <2> QED BY <1>2, <2>1 DEF Got
<1>5. Loose(K, mine, far)
  <2>1. HeldOK(K) /\ InSeq(K) /\ Got(K, far)
    BY <1>2, <1>3, <1>4 DEF Loose, HeldOK, InSeq
  <2> QED BY <1>2, <1>3, <2>1 DEF Loose
<1>6. Grows(L, K, 0, 0)
  BY <1>1, <1>2, <1>3, <1>4 DEF Grows
<1> QED
  BY <1>2, <1>5, <1>6 DEF Steady, K

\* One turn of the search: what is found at the head is due; further on the entry
\* is corrupt, and nothing is claimed of the order any more.
LEMMA TakeMoves ==
    ASSUME NEW mine, NEW far \in 0..Half, NEW L, Loose(L, mine, far), L.L4STATE # 0
    PROVE  Loose(TakeSaved(L), mine, far) /\ Steady(L, TakeSaved(L), 0)
<1> DEFINE q == L.L4RESEQ_Q
           p == FirstDue(L)
           K == TakeSaved(L)
<1>1. L \in Sane /\ q \in Seq(Msgs) /\ Len(q) \in Nat /\ p \in 0..Len(q)
      /\ (p # 0 => q[p].tx = L.RXSEQNO) /\ Len(L.RX) \in Nat /\ L.RXSEQNO = Len(L.RX)
      /\ L.corrupt \in BOOLEAN
  <2>1. L \in Sane
    BY LooseIs
  <2> QED BY <2>1, FirstDueIs, LooseIs DEF Sane, Entries
\* A frame that is due carries the data that is due.
<1>2. ASSUME p # 0
      PROVE  /\ q[p].m = Len(L.RX) + 1 /\ Len(L.RX) + 1 <= far
             /\ \A n \in Nat : Got(L, n) => Len(L.RX) + 1 <= n
  <2>1. p \in 1..Len(q)
    <3> HIDE DEF q, p
    <3> QED BY <1>1, <1>2
  <2>2. \A n \in Nat : Got(L, n) => q[p].m = q[p].tx + 1 /\ q[p].m <= n
    <3> HIDE DEF p
    <3> QED BY <2>1 DEF Got
  <2>3. Got(L, far) /\ far \in Nat
    BY DEF Loose
  <2> HIDE DEF q, p
  <2> QED BY <1>1, <1>2, <2>2, <2>3
<1>3. \A k \in 1..Len(q) : q[k].m \in Nat
  <2>1. \A f \in Msgs : f.m \in Nat
    BY DEF Msgs
  <2> HIDE DEF q
  <2> QED BY <1>1, <2>1
\* A frame handed on, from an entry that is L but for its queue.
<1>4. ASSUME NEW X, Loose(X, mine, far), Steady(L, X, 0), X.RX = L.RX, NEW m \in Nat,
             Due(X, m), p # 0
      PROVE  Loose(Deliver(X, m), mine, far) /\ Steady(L, Deliver(X, m), 0)
  <2> DEFINE J == Deliver(X, m)
  <2>1. X.L4STATE # 0 /\ Len(X.RX) + 1 <= far /\ Due(X, m)
    <3> HIDE DEF p, q
    <3> QED BY <1>2, <1>4 DEF Steady
  <2>2. Loose(J, mine, far) /\ Steady(X, J, Len(L.RX) + 1)
    <3>1. Loose(J, mine, far) /\ Steady(X, J, Len(X.RX) + 1)
      <4> HIDE DEF J
      <4> QED BY <1>4, <2>1, DeliverMoves DEF J
    <3> HIDE DEF J
    <3> QED BY <1>4, <3>1
  <2> HIDE DEF J, p, q
  <2>3. /\ L.sent \in Nat /\ X.sent \in Nat /\ J.sent \in Nat
        /\ Len(L.RX) \in Nat /\ Len(X.RX) \in Nat /\ Len(J.RX) \in Nat
    BY <1>4, <2>2, LooseIs
  <2>4. L.sent <= J.sent /\ Len(L.RX) <= Len(J.RX)
    BY <1>4, <2>2, <2>3 DEF Steady, Grows
  <2>5. ASSUME NEW n \in Nat
        PROVE  /\ Got(L, n) /\ 0 <= n => Got(J, n)
               /\ Acked(L) <= n /\ 0 <= n => Acked(J) <= n
    BY <1>2, <1>4, <2>2 DEF Steady, Grows
  <2>6. /\ J.CIRCUITID = L.CIRCUITID /\ J.FARID = L.FARID /\ (L.L4STATE = 2 => J.queued = L.queued)
        /\ J.L4STATE = L.L4STATE /\ J.DISCPENDING = L.DISCPENDING
    BY <1>4, <2>2 DEF Steady, Grows
  <2> QED BY <2>2, <2>4, <2>5, <2>6 DEF Steady, Grows, J
<1>5. CASE p = 1
  <2> DEFINE X == [L EXCEPT !.L4RESEQ_Q = Tail(q)]
             Y == [L EXCEPT !.L4RESEQ_Q = Tail(q), !.corrupt = L.corrupt]
  <2>1. K = Deliver(X, q[1].m)
    BY <1>5 DEF TakeSaved
  <2>2. q # << >> /\ 1 \in 1..Len(q)
    <3> HIDE DEF q, p
    <3> QED BY <1>1, <1>5
  <2>3. Items(Tail(q)) \subseteq Items(q) /\ Tail(q) \in Seq(Msgs)
    <3> HIDE DEF q
    <3> QED BY <1>1, <2>2, ItemsOf
  <2>4. X = Y
    <3> HIDE DEF q
    <3> QED BY <1>1 DEF Sane, Entries
  <2>5. Loose(Y, mine, far) /\ Steady(L, Y, 0)
    <3>1. \A t \in Seq(Msgs) : Items(t) \subseteq Items(L.L4RESEQ_Q) =>
            LET Z == [L EXCEPT !.L4RESEQ_Q = t, !.corrupt = L.corrupt] IN
            Loose(Z, mine, far) /\ Steady(L, Z, 0)
      BY <1>1, ResetMoves
    <3> QED BY <2>3, <3>1
  <2>6. X.RX = L.RX
    <3> HIDE DEF q
    <3> QED BY <1>1 DEF Sane, Entries
  <2>7. q[1].m \in Nat /\ Due(X, q[1].m) /\ p # 0
    <3> HIDE DEF q, p, X
    <3> QED BY <1>2, <1>3, <1>5, <2>2, <2>6 DEF Due
  <2> HIDE DEF X, Y, K, q, p
  <2> QED BY <1>4, <2>1, <2>4, <2>5, <2>6, <2>7 DEF K
<1>6. CASE p > 1 /\ p < Len(q)
  <2> DEFINE X == [L EXCEPT !.corrupt = TRUE]
             Y == [L EXCEPT !.L4RESEQ_Q = L.L4RESEQ_Q, !.corrupt = TRUE]
  <2>1. K = Deliver(X, q[p + 1].m)
    BY <1>6 DEF TakeSaved
  <2>2. p + 1 \in 1..Len(q) /\ p # 0
    <3> HIDE DEF q, p
    <3> QED BY <1>1, <1>6
  <2>3. X = Y /\ X.RX = L.RX /\ \A k : Due(X, k)
    BY <1>1 DEF Sane, Entries, Due
  <2>4. Loose(Y, mine, far) /\ Steady(L, Y, 0)
    BY <1>1, ResetMoves
  <2> HIDE DEF X, Y, K, q, p
  <2> QED BY <1>3, <1>4, <2>1, <2>2, <2>3, <2>4 DEF K
<1>7. CASE ~(p = 1) /\ ~(p > 1 /\ p < Len(q))
  <2>1. TakeSaved(L) = L
    BY <1>7 DEF TakeSaved
  <2>2. Steady(L, L, 0)
    BY <1>1, LooseIs DEF Steady, Grows
  <2> QED BY <2>1, <2>2
<1> QED
  BY <1>5, <1>6, <1>7

\* The whole search.
LEMMA CheckMoves ==
    ASSUME NEW mine, NEW far \in 0..Half, NEW L, Loose(L, mine, far), L.L4STATE # 0
    PROVE  Loose(CheckReseq(L), mine, far) /\ Steady(L, CheckReseq(L), 0)
<1> DEFINE St == {K \in Sane : Loose(K, mine, far) /\ Steady(L, K, 0)}
<1>1. L \in Sane /\ L.L4RESEQ_Q \in Seq(Msgs)
  BY LooseIs
<1>2. L \in St
  <2>1. Steady(L, L, 0)
    BY LooseIs DEF Steady, Grows
  <2> QED BY <1>1, <2>1
<1>3. ASSUME NEW K \in St PROVE TakeSaved(K) \in St
  <2>1. Loose(K, mine, far) /\ Steady(L, K, 0) /\ K.L4STATE # 0
    BY DEF Steady
  <2>2. Loose(TakeSaved(K), mine, far) /\ Steady(K, TakeSaved(K), 0)
    BY <2>1, TakeMoves
  <2>3. TakeSaved(K) \in Sane /\ Steady(L, TakeSaved(K), 0)
    BY <2>1, <2>2, LooseIs, SteadyThen
  <2> QED BY <2>2, <2>3
<1>4. CheckReseq(L) \in St
  <2> HIDE DEF St
  <2> QED BY <1>1, <1>2, <1>3, CheckKeeps
<1> QED
  BY <1>4

\* One saved frame that is due is taken, and nothing is left.
LEMMA CheckTakesOne ==
    ASSUME NEW mine, NEW far \in 0..Half, NEW L, Loose(L, mine, far), L.L4STATE # 0,
           ~L.corrupt, Len(L.L4RESEQ_Q) <= 1,
           \A k \in 1..Len(L.L4RESEQ_Q) : L.L4RESEQ_Q[k].tx = L.RXSEQNO
    PROVE  Tight(CheckReseq(L))
<1> DEFINE q == L.L4RESEQ_Q
<1>1. L \in Sane /\ q \in Seq(Msgs) /\ Len(q) \in {0, 1}
  <2>1. L \in Sane /\ q \in Seq(Msgs) /\ Len(q) \in Nat
    BY LooseIs
  <2>2. \A x \in Nat : x <= 1 => x \in {0, 1}
    OBVIOUS
  <2> QED BY <2>1, <2>2
<1>2. PICK h \in [0..Len(q) -> Sane] :
         /\ h[0] = L /\ CheckReseq(L) = h[Len(q)]
         /\ \A k \in 0..(Len(q) - 1) : h[k + 1] = TakeSaved(h[k])
  BY <1>1, TakeIsSane, CheckSteps
<1>3. CASE Len(q) = 0
  <2>1. CheckReseq(L) = L
    BY <1>2, <1>3
  <2> QED BY <1>3, <2>1 DEF Tight
<1>4. CASE Len(q) = 1
  <2>1. CheckReseq(L) = TakeSaved(L)
    <3>1. 0 \in 0..(Len(q) - 1) /\ 0 + 1 = 1
      BY <1>4
    <3> HIDE DEF q
    <3>2. h[0 + 1] = TakeSaved(h[0])
      BY <1>2, <3>1
    <3> QED BY <1>2, <1>4, <3>1, <3>2
  <2>2. FirstDue(L) = 1
    <3>1. 1 \in 1..Len(q) /\ q[1].tx = L.RXSEQNO
      BY <1>4
    <3> QED BY <1>1, <1>4, <3>1, FirstDueIs
  <2> DEFINE X == [L EXCEPT !.L4RESEQ_Q = Tail(q)]
  <2>3. TakeSaved(L) = Deliver(X, q[1].m)
    BY <2>2 DEF TakeSaved
  <2>4. X.L4RESEQ_Q = Tail(q) /\ X.corrupt = L.corrupt
    <3> HIDE DEF q
    <3> QED BY <1>1 DEF Sane, Entries
  <2>5. Deliver(X, q[1].m).L4RESEQ_Q = X.L4RESEQ_Q /\ Deliver(X, q[1].m).corrupt = X.corrupt
    <3>1. Tail(q) \in Seq(Msgs)
      BY <1>1, <1>4
    <3>2. X \in Sane
      <4> HIDE DEF q
      <4> QED BY <1>1, <3>1 DEF Sane, Entries
    <3> HIDE DEF X, q
    <3> QED BY <3>2 DEF Deliver, Sane, Entries
  <2>6. Len(Tail(q)) = 0
    BY <1>1, <1>4
  <2> HIDE DEF X, q
  <2> DEFINE R == CheckReseq(L)
  <2>7. R.L4RESEQ_Q = Tail(q) /\ R.corrupt = L.corrupt
    BY <2>1, <2>3, <2>4, <2>5
  <2> HIDE DEF R
  <2>8. Len(R.L4RESEQ_Q) = 0 /\ ~R.corrupt
    BY <2>6, <2>7
  <2>9. Tight(R)
    <3>1. \A k \in 1..0 : FALSE
      OBVIOUS
    <3> QED BY <2>8, <3>1 DEF Tight
  <2> QED BY <2>9 DEF R
<1> QED
  BY <1>1, <1>3, <1>4

\* What was said stands when the entry takes data.
LEMMA SaidStill ==
    ASSUME NEW L, NEW K, NEW J, NEW d, NEW p \in Seq(Msgs),
           Said(L, K, p), Steady(K, J, d),
           K.sent \in Nat, J.sent \in Nat, Len(K.RX) \in Nat, Len(J.RX) \in Nat
    PROVE  Said(L, J, p)
<1>1. ASSUME NEW f \in Items(p)
      PROVE  /\ f.type \in {"INFO", "IACK", "DREQ", "CREQ"}
             /\ f.type = "CREQ" => f.id = L.CIRCUITID /\ L.L4STATE = 2 /\ J.L4STATE = 2
             /\ IsAck(f) => f.id = J.FARID /\ f.rx <= Len(J.RX)
             /\ f.type = "INFO" => f.m = f.tx + 1 /\ f.m <= J.sent
  <2>1. f \in Msgs /\ f.rx \in Nat /\ f.m \in Nat
    BY ItemsOf DEF Msgs
  <2> QED BY <2>1 DEF Said, Grows, Steady
<1> QED
  BY <1>1 DEF Said

\* Saving an early frame: it is within a window of what has come in.
LEMMA SaveMoves ==
    ASSUME NEW mine, NEW far \in 0..Half, NEW L, Entry(L, mine, far), L.L4STATE # 0,
           NEW f \in Msgs, f.m = f.tx + 1, f.m <= far, f.tx > L.RXSEQNO,
           f.m <= Len(L.RX) + L4WINDOW + 1
    PROVE  Entry(Save(L, f), mine, far) /\ Steady(L, Save(L, f), f.m)
<1> DEFINE q == L.L4RESEQ_Q
           K == [L EXCEPT !.L4RESEQ_Q = Append(q, f)]
<1>1. /\ Loose(L, mine, far) /\ L \in Sane /\ q \in Seq(Msgs) /\ Len(L.RX) \in Nat /\ L.sent \in Nat
      /\ f.m \in Nat /\ f.tx \in Nat /\ Len(q) \in Nat /\ L.RXSEQNO = Len(L.RX)
  <2>1. \A x \in SeqNo : x \in Nat
    BY ModulusIsNat DEF SeqNo
  <2> QED BY <2>1, LooseIs DEF Entry, Msgs
<1>2. CASE \E k \in DOMAIN q : q[k].tx = f.tx
  <2>1. Save(L, f) = L
    BY <1>2 DEF Save
  <2>2. Steady(L, L, f.m)
    BY <1>1 DEF Steady, Grows
  <2> QED BY <2>1, <2>2
<1>3. CASE ~ \E k \in DOMAIN q : q[k].tx = f.tx
  <2>1. Save(L, f) = K
    BY <1>3 DEF Save
  <2>2. /\ Len(Append(q, f)) = Len(q) + 1 /\ Append(q, f)[Len(q) + 1] = f
        /\ Append(q, f) \in Seq(Msgs)
        /\ \A k \in 1..Len(q) : Append(q, f)[k] = q[k]
    <3> HIDE DEF q
    <3> QED BY <1>1
  <2>3. /\ K.RXSEQNO = L.RXSEQNO /\ K.RX = L.RX
        /\ K.L4STATE = L.L4STATE /\ K.CIRCUITID = L.CIRCUITID /\ K.FARID = L.FARID
        /\ K.TXSEQNO = L.TXSEQNO /\ K.L4WS = L.L4WS /\ K.L4HOLD_Q = L.L4HOLD_Q
        /\ K.L4RESEQ_Q = Append(q, f) /\ K.queued = L.queued /\ K.sent = L.sent
        /\ K.corrupt = L.corrupt /\ K.DISCPENDING = L.DISCPENDING /\ K \in Sane
    <3> HIDE DEF q
    <3> QED BY <1>1, <2>2 DEF Sane, Entries
  <2>4. Acked(K) = Acked(L)
    <3> HIDE DEF K, q
    <3> QED BY <2>3 DEF Acked
  <2>5. ASSUME NEW n \in Nat, Got(L, n), f.m <= n PROVE Got(K, n)
    <3>1. ASSUME NEW k \in 1..Len(Append(q, f))
          PROVE  Append(q, f)[k].m = Append(q, f)[k].tx + 1 /\ Append(q, f)[k].m <= n
      <4>1. CASE k \in 1..Len(q)
        <5>1. q[k].m = q[k].tx + 1 /\ q[k].m <= n
          BY <2>5, <4>1 DEF Got
        <5> HIDE DEF q
        <5> QED BY <2>2, <4>1, <5>1
      <4>2. CASE k = Len(q) + 1
        <5> HIDE DEF q
        <5> QED BY <2>2, <2>5, <4>2
      <4>3. k \in 1..Len(q) \/ k = Len(q) + 1
        <5> HIDE DEF q
        <5> QED BY <1>1, <2>2
      <4> QED BY <4>1, <4>2, <4>3
    <3> HIDE DEF K, q
    <3> QED BY <2>3, <2>5, <3>1 DEF Got
  <2>6. HeldOK(K) /\ InSeq(K) /\ Got(K, far)
    <3>1. Got(L, far) /\ far \in Nat
      BY <1>1 DEF Loose
    <3> HIDE DEF K, q
    <3> QED BY <1>1, <2>3, <2>4, <2>5, <3>1 DEF Loose, HeldOK, InSeq
  <2>7. Loose(K, mine, far)
    <3> HIDE DEF K, q
    <3> QED BY <1>1, <2>3, <2>4, <2>6 DEF Loose
  <2>8. ASSUME L4WINDOW = 1 PROVE Tight(K)
    <3>1. ~L.corrupt /\ Len(q) <= 1 /\ \A k \in 1..Len(q) : q[k].tx = L.RXSEQNO + 1
      BY <2>8 DEF Entry, Tight
    <3>2. f.tx = L.RXSEQNO + 1
      <4>1. f.tx + 1 <= L.RXSEQNO + 2 /\ f.tx > L.RXSEQNO /\ L.RXSEQNO \in Nat /\ f.tx \in Nat
        BY <1>1, <2>8
      <4> QED BY <4>1
    <3>3. Len(q) = 0
      <4>1. DOMAIN q = 1..Len(q)
        <5> HIDE DEF q
        <5> QED BY <1>1
      <4> HIDE DEF q
      <4>2. Len(q) # 1
        BY <1>3, <3>1, <3>2, <4>1
      <4>3. \A x \in Nat : x <= 1 /\ x # 1 => x = 0
        OBVIOUS
      <4> QED BY <1>1, <3>1, <4>2, <4>3
    <3> HIDE DEF K, q
    <3> QED BY <2>2, <2>3, <3>1, <3>2, <3>3 DEF Tight
  <2>9. Grows(L, K, f.m, 0)
    <3> HIDE DEF K, q
    <3> QED BY <1>1, <2>3, <2>4, <2>5 DEF Grows
  <2> HIDE DEF K
  <2> QED BY <2>1, <2>3, <2>7, <2>8, <2>9 DEF Steady, Entry
<1> QED
  BY <1>2, <1>3

\* ACKFRAMES and then taking the data.
LEMMA AdvancesThen ==
    ASSUME NEW mine, NEW far, NEW L, NEW r, NEW d \in Nat, NEW a \in Nat,
           Entry(L, mine, far), Advances(L, r, mine, far, 0, a),
           NEW K, Entry(K, mine, far), Steady(r.link, K, d)
    PROVE  Advances(L, [link |-> K, out |-> r.out], mine, far, d, a)
<1>1. /\ r \in Results /\ Entry(r.link, mine, far) /\ Grows(L, r.link, 0, a)
      /\ Said(L, r.link, r.out) /\ r.out \in Seq(Msgs)
  BY DEF Advances, Results
<1>2. Grows(L, r.link, d, a) /\ Grows(r.link, K, d, a)
  BY <1>1 DEF Grows, Steady
<1>3. Grows(L, K, d, a)
  BY <1>1, <1>2, EntryIs, GrowsThen
<1>4. Said(L, K, r.out)
  BY <1>1, EntryIs, SaidStill
<1>5. [link |-> K, out |-> r.out] \in Results
  BY <1>1, EntryIs DEF Results
<1> QED
  BY <1>3, <1>4, <1>5 DEF Advances

\* Two routines that both say something.
LEMMA AdvancesBoth ==
    ASSUME NEW mine, NEW far, NEW L, NEW p, NEW q, NEW d, NEW a,
           Entry(L, mine, far), Advances(L, p, mine, far, d, a),
           Advances(p.link, q, mine, far, d, a), q.link.L4STATE = p.link.L4STATE
    PROVE  Advances(L, [link |-> q.link, out |-> p.out \o q.out], mine, far, d, a)
<1>1. /\ p \in Results /\ Entry(p.link, mine, far) /\ Grows(L, p.link, d, a)
      /\ Said(L, p.link, p.out) /\ p.out \in Seq(Msgs)
      /\ q \in Results /\ Entry(q.link, mine, far) /\ Grows(p.link, q.link, d, a)
      /\ Said(p.link, q.link, q.out) /\ q.out \in Seq(Msgs)
  BY DEF Advances, Results
<1>2. /\ L.sent \in Nat /\ p.link.sent \in Nat /\ q.link.sent \in Nat
      /\ Len(L.RX) \in Nat /\ Len(p.link.RX) \in Nat /\ Len(q.link.RX) \in Nat
  BY <1>1, EntryIs
<1>3. Grows(L, q.link, d, a)
  BY <1>1, <1>2, GrowsThen
<1>4. Said(L, q.link, p.out \o q.out)
  BY <1>1, <1>2, SaidThen
<1>5. [link |-> q.link, out |-> p.out \o q.out] \in Results
  <2>1. p.out \o q.out \in Seq(Msgs) /\ q.link \in Sane
    BY <1>1, EntryIs
  <2> QED BY <2>1 DEF Results
<1> QED
  BY <1>1, <1>3, <1>4, <1>5 DEF Advances

\* A routine that took no data is one that took some.
LEMMA MovesMore ==
    ASSUME NEW mine, NEW far, NEW L, NEW r, NEW d \in Nat, NEW a \in Nat,
           Moves(L, r, mine, far, 0, a)
    PROVE  Moves(L, r, mine, far, d, a)
  BY DEF Moves, Advances, Grows

\* FRAMEFORUS with an INFO.
LEMMA INFOMoves ==
    ASSUME NEW mine \in 0..Half, NEW far \in 0..Half, NEW L, Entry(L, mine, far), L.L4STATE # 0,
           NEW f \in Msgs, f.rx <= L.sent, f.m = f.tx + 1, f.m <= far,
           f.m <= Len(L.RX) + L4WINDOW + 1, NEW busy \in BOOLEAN
    PROVE  /\ Moves(L, RecvINFO(L, f, busy), mine, far, f.m, f.rx)
           /\ Calm(L, RecvINFO(L, f, busy).link)
<1> DEFINE acked == ACKFRAMES(L, f)
           K == acked.link
           d == FramesMissing(K, f.tx)
           J == [K EXCEPT !.nak = TRUE]
           N == SENDL4IACK(J, busy)
           R == RecvINFO(L, f, busy)
<1>0. f.rx \in Nat /\ f.m \in Nat /\ f.tx \in Nat
  <2>1. \A x \in SeqNo : x \in Nat
    BY ModulusIsNat DEF SeqNo
  <2> QED BY <2>1 DEF Msgs
<1>1. Moves(L, acked, mine, far, 0, f.rx) /\ Calm(L, K)
  BY AckMoves
<1>2. CASE L.L4STATE = 2
  <2>1. R = Silent(L)
    BY <1>2 DEF RecvINFO
  <2>2. Same(L, L) /\ Calm(L, L) /\ Silent(L).link = L /\ L \in Sane
    BY EntryIs DEF Same, Keeps, Calm, Silent
  <2>3. Silent(L) \in Results
    BY <2>2, SilentIsResult
  <2> HIDE DEF R
  <2> QED BY <2>1, <2>2, <2>3, SilentMoves DEF R, Moves
<1>3. CASE L.L4STATE # 2 /\ (K.DISCPENDING \/ K.L4STATE # 5)
  <2>1. R = acked
    BY <1>3 DEF RecvINFO
  <2> HIDE DEF R, acked
  <2> QED BY <1>0, <1>1, <2>1, MovesMore DEF R
<1>4. ASSUME L.L4STATE # 2, ~(K.DISCPENDING \/ K.L4STATE # 5)
      PROVE  /\ Advances(L, acked, mine, far, 0, f.rx) /\ Entry(K, mine, far) /\ K.L4STATE = 5
             /\ Len(L.RX) <= Len(K.RX) /\ ~Closing(K) /\ d = f.tx - K.RXSEQNO
             /\ K.RXSEQNO = Len(K.RX) /\ Len(K.RX) \in Nat /\ K \in Sane
             /\ acked \in Results
  <2> HIDE DEF acked
  <2>1. K.L4STATE = 5 /\ ~Closing(K)
    BY <1>4 DEF Closing
  <2>2. ~Clears(acked)
    BY <2>1 DEF Clears, FreeEntry
  <2>3. Advances(L, acked, mine, far, 0, f.rx)
    BY <1>1, <2>2 DEF Moves
  <2>4. Entry(K, mine, far) /\ Grows(L, K, 0, f.rx) /\ acked \in Results
    BY <2>3 DEF Advances
  <2>5. Len(L.RX) <= Len(K.RX) /\ K.RXSEQNO = Len(K.RX) /\ Len(K.RX) \in Nat /\ K \in Sane
        /\ Len(K.RX) <= far
    BY <2>4, LooseIs DEF Grows, Entry
  <2>6. d = f.tx - K.RXSEQNO
    <3>1. ~(f.tx - K.RXSEQNO > Half)
      <4>1. f.tx + 1 <= far /\ far <= Half /\ far \in Nat /\ Half \in Nat /\ K.RXSEQNO \in Nat
        BY <2>5, ModulusIsNat
      <4> HIDE DEF K
      <4> QED BY <1>0, <4>1
    <3> QED BY <3>1 DEF FramesMissing
  <2> HIDE DEF K, d
  <2> QED BY <2>1, <2>3, <2>4, <2>5, <2>6
<1>5. CASE L.L4STATE # 2 /\ ~(K.DISCPENDING \/ K.L4STATE # 5) /\ d < 0
  <2> DEFINE X == [K EXCEPT !.L4ACKREQ = TRUE]
  <2>1. R = [acked EXCEPT !.link.L4ACKREQ = TRUE]
    BY <1>5 DEF RecvINFO
  <2>2. R = [link |-> X, out |-> acked.out]
    <3>0. \A Q \in Results : \A y : [Q EXCEPT !.link = y] = [link |-> y, out |-> Q.out]
      BY DEF Results
    <3>00. \A Q : [Q EXCEPT !.link.L4ACKREQ = TRUE] =
                 [Q EXCEPT !.link = [Q.link EXCEPT !.L4ACKREQ = TRUE]]
      OBVIOUS
    <3>1. \A Q \in Results : [Q EXCEPT !.link.L4ACKREQ = TRUE] =
                              [link |-> [Q.link EXCEPT !.L4ACKREQ = TRUE], out |-> Q.out]
      BY <3>0, <3>00
    <3> HIDE DEF acked, R
    <3> QED BY <1>4, <1>5, <2>1, <3>1
  <2>3. X \in Sane /\ Same(K, X) /\ X.DISCPENDING = K.DISCPENDING
    <3> HIDE DEF acked
    <3> QED BY <1>4, <1>5 DEF Sane, Entries, Same, Keeps
  <2>4. Entry(X, mine, far) /\ Steady(K, X, f.m)
    <3> HIDE DEF acked, X
    <3> QED BY <1>4, <1>5, <2>3, SameKeeps DEF Same, Steady
  <2>5. Calm(L, X)
    <3> HIDE DEF X
    <3> QED BY <1>4, <1>5, <2>4 DEF Steady, Closing, Calm
  <2> HIDE DEF acked, X, R, d
  <2>6. Advances(L, R, mine, far, f.m, f.rx)
    BY <1>0, <1>4, <1>5, <2>2, <2>4, AdvancesThen
  <2> QED BY <2>2, <2>5, <2>6 DEF Moves, Advances, R
<1>6. CASE L.L4STATE # 2 /\ ~(K.DISCPENDING \/ K.L4STATE # 5) /\ d = 0
  <2> DEFINE D == Deliver(K, f.m)
             X == CheckReseq(D)
  <2>1. R = [acked EXCEPT !.link = X]
    BY <1>6 DEF RecvINFO
  <2>2. R = [link |-> X, out |-> acked.out]
    <3>1. \A Q \in Results : \A y : [Q EXCEPT !.link = y] = [link |-> y, out |-> Q.out]
      BY DEF Results
    <3> HIDE DEF acked, R, X
    <3> QED BY <1>4, <1>6, <2>1, <3>1
  <2>3. f.m = Len(K.RX) + 1 /\ Len(K.RX) + 1 <= far
    <3>1. /\ d = f.tx - K.RXSEQNO /\ d = 0 /\ K.RXSEQNO = Len(K.RX) /\ Len(K.RX) \in Nat
      BY <1>4, <1>6
    <3> HIDE DEF K, d
    <3> QED BY <1>0, <3>1
  <2>4. /\ Loose(D, mine, far) /\ Steady(K, D, f.m) /\ D.RXSEQNO = K.RXSEQNO + 1
        /\ D.L4RESEQ_Q = K.L4RESEQ_Q /\ (Clean(K) => Clean(D))
    <3>1. Loose(K, mine, far) /\ K.L4STATE # 0
      <4> HIDE DEF K
      <4> QED BY <1>4, <1>6 DEF Entry
    <3>2. /\ Loose(D, mine, far) /\ Steady(K, D, Len(K.RX) + 1) /\ D.RXSEQNO = K.RXSEQNO + 1
          /\ D.L4RESEQ_Q = K.L4RESEQ_Q /\ (Clean(K) => Clean(D))
      <4> DEFINE m == f.m
      <4>1. m \in Nat /\ Due(K, m) /\ Len(K.RX) + 1 <= far
        BY <1>0, <2>3 DEF Due
      <4> HIDE DEF K, d, m
      <4>2. /\ Loose(Deliver(K, m), mine, far)
            /\ Steady(K, Deliver(K, m), Len(K.RX) + 1)
            /\ Deliver(K, m).RXSEQNO = K.RXSEQNO + 1
            /\ Deliver(K, m).L4RESEQ_Q = K.L4RESEQ_Q
            /\ Clean(K) => Clean(Deliver(K, m))
        BY <3>1, <4>1, DeliverMoves, Zenon
      <4> QED BY <4>2 DEF m
    <3> HIDE DEF K, D
    <3> QED BY <2>3, <3>2
  <2>5. Loose(X, mine, far) /\ Steady(D, X, 0)
    <3>1. D.L4STATE # 0
      <4> HIDE DEF D, acked
      <4> QED BY <1>4, <1>6, <2>4 DEF Steady
    <3> HIDE DEF D
    <3> QED BY <2>4, <3>1, CheckMoves
  <2>6. Steady(K, X, f.m)
    <3>1. Steady(D, X, f.m) /\ Loose(K, mine, far)
      <4> HIDE DEF D, X, acked
      <4> QED BY <1>0, <1>4, <1>6, <2>5 DEF Steady, Grows, Entry
    <3> HIDE DEF D, X, acked
    <3> QED BY <2>4, <2>5, <3>1, SteadyThen
  <2>7. ASSUME L4WINDOW = 1 PROVE Tight(X)
    <3>1. Tight(K)
      <4> HIDE DEF acked
      <4> QED BY <1>4, <1>6, <2>7 DEF Entry
    <3>2. /\ ~D.corrupt /\ Len(D.L4RESEQ_Q) <= 1 /\ D.L4STATE # 0
          /\ \A k \in 1..Len(D.L4RESEQ_Q) : D.L4RESEQ_Q[k].tx = D.RXSEQNO
      <4> HIDE DEF acked, D
      <4> QED BY <1>4, <1>6, <2>4, <3>1 DEF Tight, Steady, Clean
    <3> HIDE DEF D
    <3> QED BY <2>4, <3>2, CheckTakesOne
  <2>8. Entry(X, mine, far)
    <3> HIDE DEF X
    <3> QED BY <2>5, <2>7 DEF Entry
  <2>9. Calm(L, X)
    <3> HIDE DEF X, acked
    <3> QED BY <1>4, <1>6, <2>6 DEF Steady, Closing, Calm
  <2> HIDE DEF acked, X, R, d
  <2>10. Advances(L, R, mine, far, f.m, f.rx)
    BY <1>0, <1>4, <1>6, <2>2, <2>6, <2>8, AdvancesThen
  <2> QED BY <2>2, <2>9, <2>10 DEF Moves, Advances, R
<1>7. CASE L.L4STATE # 2 /\ ~(K.DISCPENDING \/ K.L4STATE # 5) /\ ~(d < 0) /\ ~(d = 0)
  <2> DEFINE P == [link |-> J, out |-> acked.out]
             X == Save(N.link, f)
  <2>1. R = [link |-> X, out |-> acked.out \o N.out]
    BY <1>7 DEF RecvINFO
  <2>2. J \in Sane /\ Same(K, J) /\ J.DISCPENDING = K.DISCPENDING
    <3> HIDE DEF acked
    <3> QED BY <1>4, <1>7 DEF Sane, Entries, Same, Keeps
  <2>3. Entry(J, mine, far) /\ Steady(K, J, 0) /\ J.L4STATE = 5
    <3> HIDE DEF acked, J
    <3> QED BY <1>4, <1>7, <2>2, SameKeeps DEF Same, Steady
  <2>4. Advances(L, P, mine, far, 0, f.rx)
    <3> HIDE DEF acked, J
    <3> QED BY <1>0, <1>4, <1>7, <2>3, AdvancesThen
  <2>5. /\ Advances(J, N, mine, far, 0, f.rx) /\ Same(J, N.link) /\ Calm(J, N.link)
    <3> HIDE DEF acked, J
    <3> QED BY <2>3, IackMoves
  <2>6. Advances(L, [link |-> N.link, out |-> acked.out \o N.out], mine, far, 0, f.rx)
    <3>1. P.link = J /\ P.out = acked.out
      OBVIOUS
    <3> HIDE DEF acked, J, N, P
    <3> QED BY <2>4, <2>5, <3>1, AdvancesBoth DEF Same
  <2>7. Entry(N.link, mine, far) /\ N.link.L4STATE = 5 /\ N.link.RX = K.RX /\ N.link.RXSEQNO = K.RXSEQNO
    <3> HIDE DEF acked, J, N
    <3> QED BY <2>2, <2>3, <2>5 DEF Same, Keeps, Advances
  <2>8. f.tx > N.link.RXSEQNO /\ f.m <= Len(N.link.RX) + L4WINDOW + 1
    <3>1. Len(L.RX) \in Nat /\ L4WINDOW \in Nat
      BY EntryIs, ModulusIsNat
    <3>2. /\ d = f.tx - K.RXSEQNO /\ K.RXSEQNO = Len(K.RX) /\ Len(K.RX) \in Nat
          /\ Len(L.RX) <= Len(K.RX)
      <4> HIDE DEF acked, d
      <4> QED BY <1>4, <1>7
    <3>3. ~(d < 0) /\ d # 0
      BY <1>7
    <3>4. f.m \in Int /\ f.tx \in Int /\ f.m <= Len(L.RX) + L4WINDOW + 1
      BY <1>0
    <3> HIDE DEF acked, d, N, J
    <3>5. N.link.RXSEQNO = Len(K.RX) /\ Len(N.link.RX) = Len(K.RX)
      BY <2>7, <3>2
    <3>6. f.tx > Len(K.RX)
      BY <3>2, <3>3, <3>4
    <3>7. f.m <= Len(K.RX) + L4WINDOW + 1
      BY <3>1, <3>2, <3>4
    <3> QED BY <3>5, <3>6, <3>7
  <2>9. Entry(X, mine, far) /\ Steady(N.link, X, f.m)
    <3> DEFINE Y == N.link
    <3>1. Entry(Y, mine, far) /\ Y.L4STATE # 0 /\ f.tx > Y.RXSEQNO /\ f.m <= Len(Y.RX) + L4WINDOW + 1
      BY <2>7, <2>8
    <3> HIDE DEF Y
    <3>2. Entry(Save(Y, f), mine, far) /\ Steady(Y, Save(Y, f), f.m)
      BY <3>1, SaveMoves
    <3> QED BY <3>2 DEF Y
  <2>10. Calm(L, X)
    <3> HIDE DEF acked, J, N, X
    <3>1. ~Closing(J)
      BY <1>4, <1>7, <2>2, <2>3 DEF Closing
    <3> QED BY <2>5, <2>9, <3>1 DEF Steady, Closing, Calm
  <2>11. Advances(L, R, mine, far, f.m, f.rx)
    <3> DEFINE T == [link |-> N.link, out |-> acked.out \o N.out]
    <3>1. T.link = N.link /\ T.out = acked.out \o N.out
      OBVIOUS
    <3> HIDE DEF T, acked, J, N, X, R
    <3>2. Advances(L, T, mine, far, 0, f.rx)
      BY <2>6 DEF T
    <3>3. Advances(L, [link |-> X, out |-> T.out], mine, far, f.m, f.rx)
      BY <1>0, <2>9, <3>1, <3>2, AdvancesThen
    <3> QED BY <2>1, <3>1, <3>3
  <2> HIDE DEF acked, X, R, d
  <2> QED BY <2>1, <2>10, <2>11 DEF Moves, Advances, R
<1> QED
  <2> HIDE DEF acked, d, R
  <2> QED BY <1>2, <1>3, <1>5, <1>6, <1>7 DEF R
-----------------------------------------------------------------------------
\* FRAMEFORUS with a DREQ, and with a DACK.
LEMMA DREQMoves ==
    ASSUME NEW mine, NEW far, NEW L, Entry(L, mine, far), NEW d, NEW a
    PROVE  /\ Moves(L, RecvDREQ(L), mine, far, d, a)
           /\ Calm(L, RecvDREQ(L).link)
<1>1. RecvDREQ(L) \in Results
  BY EntryIs, DREQIsResult
<1>2. Clears(RecvDREQ(L))
  BY ItemsOf DEF Clears, RecvDREQ, CLEARSESSIONENTRY, Control, Msg
<1>3. RecvDREQ(L).link = FreeEntry
  BY <1>2 DEF Clears
<1> QED
  BY <1>1, <1>2, <1>3 DEF Moves, Calm, Closing, FreeEntry

\* A free entry is not closing.
LEMMA ClearIsCalm == \A L : Calm(L, Silent(CLEARSESSIONENTRY).link)
  BY DEF Calm, Closing, Silent, CLEARSESSIONENTRY, FreeEntry

\* A session that is closed has nothing to close at the other end before it is up.
LEMMA CloseMoves ==
    ASSUME NEW mine, NEW far, NEW L, Entry(L, mine, far), L.L4STATE # 0, NEW d, NEW a
    PROVE  /\ Moves(L, CLOSECURRENTSESSION(L), mine, far, d, a)
           /\ L.L4STATE = 2 /\ L.queued = 0 => Calm(L, CLOSECURRENTSESSION(L).link)
<1> DEFINE C == [L EXCEPT !.partner = FALSE]
           D == [C EXCEPT !.DISCPENDING = TRUE]
<1>1. L \in Sane
  BY EntryIs
<1>2. C \in Sane /\ Same(L, C)
  BY <1>1 DEF Sane, Entries, Same, Keeps
<1>3. D \in Sane /\ Same(C, D)
  <2> HIDE DEF C
  <2> QED BY <1>2 DEF Sane, Entries, Same, Keeps
<1>4. Same(L, D)
  <2> HIDE DEF C, D
  <2> QED BY <1>2, <1>3 DEF Same, Keeps
<1>5. Entry(C, mine, far) /\ Grows(L, C, d, a) /\ C.L4STATE = L.L4STATE
  <2> HIDE DEF C, D
  <2> QED BY <1>2, SameKeeps DEF Same
<1>6. CLOSECURRENTSESSION(L) = IF L.L4HOLD_Q # << >> \/ ~TX_QEmpty(L) THEN Silent(D)
                               ELSE SENDL4DISC(C)
  BY DEF CLOSECURRENTSESSION
<1> HIDE DEF C, D
<1>7. Moves(L, Silent(D), mine, far, d, a)
  BY <1>3, <1>4, SilentMoves, SilentIsResult DEF Moves
<1>8. Moves(L, SENDL4DISC(C), mine, far, d, a)
  <2>1. Moves(C, SENDL4DISC(C), mine, far, d, a)
    BY <1>5, DiscMoves
  <2> QED BY <1>5, <2>1, MovesThen
<1>9. ASSUME L.L4STATE = 2, L.queued = 0 PROVE Calm(L, CLOSECURRENTSESSION(L).link)
  <2>1. L.L4HOLD_Q = << >> /\ TX_QEmpty(L)
    <3>1. L.sent = 0 /\ Len(L.L4HOLD_Q) = 0 /\ L.L4HOLD_Q \in Seq(Msgs)
      <4>1. L.sent \in Nat /\ L.sent <= L.queued /\ L.L4HOLD_Q \in Seq(Msgs)
            /\ Len(L.L4HOLD_Q) <= L.sent /\ Len(L.L4HOLD_Q) \in Nat
        BY <1>1, EntryIs, Fields DEF Entry, Loose, HeldOK
      <4>2. \A x \in Nat : x <= 0 => x = 0
        OBVIOUS
      <4> QED BY <1>9, <4>1, <4>2
    <3>2. L.L4HOLD_Q = << >>
      BY <3>1
    <3> QED BY <1>9, <3>1, <3>2 DEF TX_QEmpty
  <2>2. CLOSECURRENTSESSION(L) = Silent(CLEARSESSIONENTRY)
    BY <1>5, <1>6, <1>9, <2>1 DEF SENDL4DISC
  <2> QED BY <2>2, ClearIsCalm
<1> QED
  BY <1>6, <1>7, <1>8, <1>9

\* Counting a try.
LEMMA RetriedIs ==
    ASSUME NEW L \in Sane
    PROVE  Retried(L) \in Sane /\ Same(L, Retried(L)) /\ Calm(L, Retried(L))
<1>1. \A n \in Nat : LET K == [L EXCEPT !.L4TIMER = FALSE, !.L4RETRIES = n] IN
        K \in Sane /\ Same(L, K) /\ Calm(L, K)
  BY DEF Sane, Entries, Same, Keeps, Calm, Closing
<1>2. L.L4RETRIES + 1 \in Nat
  BY Fields
<1>3. Retried(L) = [L EXCEPT !.L4TIMER = FALSE, !.L4RETRIES = L.L4RETRIES + 1]
  BY DEF Retried
<1> QED
  BY <1>1, <1>2, <1>3

\* Nothing new is said when the timer runs down.
LEMMA TimeoutMoves ==
    ASSUME NEW mine, NEW far, NEW L, Entry(L, mine, far), L.L4STATE # 0
    PROVE  /\ Moves(L, L4TIMEOUT(Retried(L)), mine, far, 0, 0)
           /\ Calm(L, L4TIMEOUT(Retried(L)).link)
<1> DEFINE K == Retried(L)
           R == L4TIMEOUT(K)
<1>1. L \in Sane /\ K \in Sane /\ Same(L, K) /\ Calm(L, K)
      /\ R \in Results
  BY EntryIs, RetriedIs, TimeoutIsResult
<1> HIDE DEF K
<1>2. Entry(K, mine, far) /\ Grows(L, K, 0, 0) /\ K.L4STATE = L.L4STATE /\ Calm(L, K)
  BY <1>1, SameKeeps DEF Same, Calm, Closing
<1>3. CASE K.L4RETRIES > L4N2
  BY <1>3, ClearMoves, ClearIsCalm DEF L4TIMEOUT, K
<1>4. CASE ~(K.L4RETRIES > L4N2) /\ K.L4STATE = 2
  <2> DEFINE J == [K EXCEPT !.L4TIMER = TRUE]
             f == Control("CREQ", K.CIRCUITID)
  <2>1. R = [link |-> J, out |-> << f >>]
    BY <1>4 DEF L4TIMEOUT, SENDL4CONNECT
  <2>2. J \in Sane /\ Same(K, J) /\ J.DISCPENDING = K.DISCPENDING
    BY <1>1 DEF Sane, Entries, Same, Keeps
  <2>3. f.type = "CREQ" /\ f.id = K.CIRCUITID
    BY DEF Control, Msg
  <2> HIDE DEF J, f, R
  <2>4. Entry(J, mine, far) /\ Grows(K, J, 0, 0) /\ Calm(L, J)
    BY <1>2, <2>2, SameKeeps DEF Same, Calm, Closing
  <2>5. Said(K, J, << f >>)
    BY <1>4, <2>2, <2>3, ItemsOf DEF Said, IsAck, Same
  <2>6. Moves(K, R, mine, far, 0, 0)
    BY <1>1, <2>1, <2>4, <2>5 DEF Moves, Advances
  <2> QED BY <1>2, <2>1, <2>4, <2>6, MovesThen DEF R, K
<1>5. CASE ~(K.L4RETRIES > L4N2) /\ K.L4STATE = 4
  <2>1. R = SENDL4DISC(K)
    BY <1>5 DEF L4TIMEOUT
  <2>2. Calm(L, R.link)
    BY <1>2, <1>5 DEF Calm, Closing
  <2> HIDE DEF R
  <2> QED BY <1>2, <2>1, <2>2, DiscMoves, MovesThen DEF R, K
<1>6. CASE ~(K.L4RETRIES > L4N2) /\ K.L4STATE # 2 /\ K.L4STATE # 4
  <2> DEFINE J == [K EXCEPT !.choked = FALSE]
             q == K.L4HOLD_Q
  <2>1. R = [link |-> J, out |-> q]
    BY <1>6 DEF L4TIMEOUT
  <2>2. J \in Sane /\ Same(K, J)
    BY <1>1 DEF Sane, Entries, Same, Keeps
  <2>3. J.L4STATE = K.L4STATE /\ J.DISCPENDING = K.DISCPENDING
    BY <1>1 DEF Sane, Entries
  <2>4. Calm(L, J)
    <3> HIDE DEF J
    <3> QED BY <1>2, <2>3 DEF Calm, Closing
  <2> HIDE DEF J, R
  <2>5. Entry(J, mine, far) /\ Grows(K, J, 0, 0)
    BY <1>2, <2>2, SameKeeps
  <2>6. Said(K, J, q)
    <3>1. ASSUME NEW g \in Items(q)
          PROVE  /\ g.type = "INFO" /\ g.id = J.FARID /\ g.rx <= Len(J.RX)
                 /\ g.m = g.tx + 1 /\ g.m <= J.sent
      <4>1. PICK k \in 1..Len(K.L4HOLD_Q) : g = K.L4HOLD_Q[k]
        BY DEF Items
      <4>2. /\ g.type = "INFO" /\ g.id = K.FARID /\ g.rx <= Len(K.RX)
            /\ g.m = Acked(K) + k /\ g.tx = Acked(K) + k - 1
        BY <1>2, <4>1 DEF Entry, Loose, HeldOK
      <4>3. Acked(K) \in Nat /\ Acked(K) + Len(K.L4HOLD_Q) = K.sent /\ Len(K.L4HOLD_Q) \in Nat
        BY <1>2, EntryIs
      <4>4. g.m = g.tx + 1 /\ g.m <= K.sent
        BY <4>1, <4>2, <4>3
      <4> QED BY <2>2, <4>2, <4>4 DEF Same, Keeps
    <3> QED BY <3>1 DEF Said
  <2>7. Moves(K, R, mine, far, 0, 0)
    <3> HIDE DEF q
    <3> QED BY <1>1, <2>1, <2>5, <2>6 DEF Moves, Advances
  <2> QED BY <1>2, <2>1, <2>4, <2>7, MovesThen DEF R, K
<1> QED
  BY <1>3, <1>4, <1>5, <1>6
\* The delayed acknowledgement, and the one that ends a choke.
LEMMA SendAckMoves ==
    ASSUME NEW mine, NEW far, NEW L, Entry(L, mine, far), L.L4STATE # 0, NEW busy \in BOOLEAN
    PROVE  LET K == [L EXCEPT !.L4ACKREQ = FALSE] IN
           /\ Moves(L, SENDL4IACK(K, busy), mine, far, 0, 0)
           /\ Calm(L, SENDL4IACK(K, busy).link)
<1> DEFINE K == [L EXCEPT !.L4ACKREQ = FALSE]
<1>1. L \in Sane
  BY EntryIs
<1>2. K \in Sane /\ Same(L, K) /\ Calm(L, K)
  BY <1>1 DEF Sane, Entries, Same, Keeps, Calm, Closing
<1> HIDE DEF K
<1>3. Entry(K, mine, far) /\ Grows(L, K, 0, 0) /\ K.L4STATE = L.L4STATE
  BY <1>2, SameKeeps DEF Same
<1>4. Moves(K, SENDL4IACK(K, busy), mine, far, 0, 0) /\ Calm(K, SENDL4IACK(K, busy).link)
  BY <1>3, IackMoves DEF Moves, Advances
<1>5. Moves(L, SENDL4IACK(K, busy), mine, far, 0, 0)
  BY <1>3, <1>4, MovesThen
<1>6. Calm(L, SENDL4IACK(K, busy).link)
  BY <1>2, <1>4 DEF Calm
<1> QED
  BY <1>5, <1>6 DEF K

\* The end of a choke.
LEMMA FreeAgainMoves ==
    ASSUME NEW mine, NEW far, NEW L, Entry(L, mine, far), L.L4STATE # 0
    PROVE  /\ Moves(L, Silent(FreeAgain(L)), mine, far, 0, 0)
           /\ Calm(L, Silent(FreeAgain(L)).link)
<1>1. L \in Sane
  BY EntryIs
<1>2. FreeAgain(L) \in Sane /\ Same(L, FreeAgain(L)) /\ Calm(L, FreeAgain(L))
  BY <1>1 DEF FreeAgain, Sane, Entries, Same, Keeps, Calm, Closing
<1>3. Silent(FreeAgain(L)) \in Results /\ Silent(FreeAgain(L)).link = FreeAgain(L)
  BY <1>2, SilentIsResult DEF Silent
<1> QED
  BY <1>2, <1>3, SilentMoves DEF Moves

\* The session above has queued more.
LEMMA QueueMoves ==
    ASSUME NEW mine, NEW far, NEW L, Entry(L, mine, far), L.L4STATE = 5,
           NEW n \in Nat, L.queued <= n, n <= mine
    PROVE  LET r == Silent([L EXCEPT !.queued = n]) IN
           Moves(L, r, mine, far, 0, 0) /\ Calm(L, r.link)
<1> DEFINE K == [L EXCEPT !.queued = n]
<1>1. L \in Sane /\ Len(L.RX) \in Nat /\ L.sent \in Nat /\ L.queued \in Nat /\ L.sent <= L.queued
  BY EntryIs
<1>2. /\ K.RXSEQNO = L.RXSEQNO /\ K.RX = L.RX
      /\ K.L4STATE = L.L4STATE /\ K.CIRCUITID = L.CIRCUITID /\ K.FARID = L.FARID
      /\ K.TXSEQNO = L.TXSEQNO /\ K.L4WS = L.L4WS /\ K.L4HOLD_Q = L.L4HOLD_Q
      /\ K.L4RESEQ_Q = L.L4RESEQ_Q /\ K.queued = n /\ K.sent = L.sent
      /\ K.corrupt = L.corrupt /\ K.DISCPENDING = L.DISCPENDING
  BY <1>1 DEF Sane, Entries
<1>3. K \in Sane
  <2>1. K \in Entries
    BY <1>1 DEF Sane, Entries
  <2> HIDE DEF K
  <2> QED BY <1>1, <1>2, <2>1 DEF Sane
<1> HIDE DEF K
<1>4. Acked(K) = Acked(L) /\ \A k : Got(L, k) => Got(K, k)
  BY <1>2 DEF Acked, Got
<1>5. Entry(K, mine, far)
  <2>1. HeldOK(K) /\ InSeq(K) /\ Got(K, far)
    BY <1>2, <1>4 DEF Entry, Loose, HeldOK, InSeq
  <2>2. L4WINDOW = 1 => Tight(K)
    BY <1>2 DEF Entry, Tight
  <2> QED BY <1>2, <1>3, <1>4, <2>1, <2>2 DEF Entry, Loose
<1>6. Grows(L, K, 0, 0)
  BY <1>1, <1>2, <1>4 DEF Grows
<1>7. Calm(L, K)
  BY <1>2 DEF Calm, Closing
<1>8. Silent(K).link = K /\ Silent(K).out = << >> /\ Silent(K) \in Results
  BY <1>3, SilentIsResult DEF Silent
<1> QED
  <2> QED BY <1>5, <1>6, <1>7, <1>8, SaidNothing DEF Moves, Advances, K
-----------------------------------------------------------------------------
\* q2 is what is left of q when messages were taken from its front, messages of
\* fs were added behind it and some may have been lost.
Flow(q2, q, fs) ==
    /\ Items(q2) \subseteq Items(q) \cup fs
    /\ \A i, j \in 1..Len(q2) : i < j =>
          \/ q2[j] \in fs
          \/ \E k, l \in 1..Len(q) : k < l /\ q2[i] = q[k] /\ q2[j] = q[l]

\* Nothing taken, nothing added.
LEMMA FlowSame == \A q, fs : Flow(q, q, fs)
  BY DEF Flow, Items

\* The next message is taken, or lost.
LEMMA FlowTail ==
    ASSUME NEW q \in Seq(Msgs), q # << >>, NEW fs
    PROVE  Flow(Tail(q), q, fs)
<1>1. /\ Len(Tail(q)) = Len(q) - 1 /\ Len(q) \in Nat
      /\ \A k \in 1..Len(Tail(q)) : Tail(q)[k] = q[k + 1] /\ k + 1 \in 1..Len(q)
  OBVIOUS
<1>2. Items(Tail(q)) \subseteq Items(q)
  BY ItemsOf
<1>3. ASSUME NEW i \in 1..Len(Tail(q)), NEW j \in 1..Len(Tail(q)), i < j
      PROVE  \E k, l \in 1..Len(q) : k < l /\ Tail(q)[i] = q[k] /\ Tail(q)[j] = q[l]
  <2>1. i + 1 < j + 1 /\ i + 1 \in 1..Len(q) /\ j + 1 \in 1..Len(q)
    BY <1>1, <1>3
  <2> QED BY <1>1, <2>1
<1> QED
  BY <1>2, <1>3 DEF Flow

\* Messages are added and some of them lost.
LEMMA FlowClip ==
    ASSUME use \in Uses, NEW q \in Seq(Msgs), NEW out \in Seq(Msgs)
    PROVE  Flow(Clip(q \o out), q, Items(out))
<1> DEFINE w == q \o out
           q2 == Clip(w)
<1>1. /\ w \in Seq(Msgs) /\ Len(w) = Len(q) + Len(out) /\ Len(q) \in Nat /\ Len(out) \in Nat
      /\ \A k \in 1..Len(q) : w[k] = q[k]
      /\ \A k \in 1..Len(w) : k > Len(q) => w[k] = out[k - Len(q)] /\ k - Len(q) \in 1..Len(out)
  OBVIOUS
<1>2. /\ q2 \in Seq(Msgs) /\ Len(q2) <= Len(w) /\ Len(q2) \in Nat
      /\ \A k \in 1..Len(q2) : q2[k] = w[k]
  <2> HIDE DEF w
  <2>1. q2 \in Seq(Msgs) /\ Len(q2) <= Len(w) /\ \A k \in 1..Len(q2) : q2[k] = w[k]
    BY <1>1, ClipIs
  <2> QED BY <2>1
<1> HIDE DEF w, q2
\* Each message that is left was on q or is new.
<1>3. ASSUME NEW k \in 1..Len(q2)
      PROVE  (k \in 1..Len(q) /\ q2[k] = q[k]) \/ (k > Len(q) /\ q2[k] \in Items(out))
  <2>1. k \in 1..Len(w) /\ q2[k] = w[k]
    BY <1>1, <1>2
  <2>2. CASE k <= Len(q)
    BY <1>1, <2>1, <2>2
  <2>3. CASE k > Len(q)
    <3>1. w[k] = out[k - Len(q)] /\ k - Len(q) \in 1..Len(out)
      BY <1>1, <2>1, <2>3
    <3> QED BY <2>1, <2>3, <3>1 DEF Items
  <2> QED BY <1>1, <2>2, <2>3
<1>4. Items(q2) \subseteq Items(q) \cup Items(out)
  <2>1. ASSUME NEW k \in 1..Len(q2) PROVE q2[k] \in Items(q) \cup Items(out)
    BY <1>3 DEF Items
  <2> QED BY <2>1 DEF Items
<1>5. ASSUME NEW i \in 1..Len(q2), NEW j \in 1..Len(q2), i < j
      PROVE  \/ q2[j] \in Items(out)
             \/ \E k, l \in 1..Len(q) : k < l /\ q2[i] = q[k] /\ q2[j] = q[l]
  <2>1. CASE j > Len(q) /\ q2[j] \in Items(out)
    BY <2>1
  <2>2. CASE j \in 1..Len(q) /\ q2[j] = q[j]
    <3>1. i \in 1..Len(q) /\ ~(i > Len(q))
      BY <1>1, <1>5, <2>2
    <3>2. q2[i] = q[i]
      BY <1>3, <3>1
    <3> QED BY <1>5, <2>2, <3>1, <3>2
  <2> QED BY <1>3, <2>1, <2>2
<1> QED
  BY <1>4, <1>5 DEF Flow, q2, w
-----------------------------------------------------------------------------
\* The fields of a message.
LEMMA ItemIs ==
    ASSUME NEW q \in Seq(Msgs), NEW f \in Items(q)
    PROVE  f.rx \in Nat /\ f.m \in Nat /\ f.tx \in Nat /\ f.id \in Nat /\ f \in Msgs
<1>1. \A x \in SeqNo : x \in Nat
  BY ModulusIsNat DEF SeqNo
<1>2. f \in Msgs
  BY ItemsOf
<1> QED
  BY <1>1, <1>2 DEF Msgs

\* What is below a number is below a greater one.
LEMMA GotMore ==
    ASSUME NEW mine, NEW far, NEW L, Entry(L, mine, far), NEW m \in Nat, NEW n \in Nat, m <= n,
           Got(L, m)
    PROVE  Got(L, n)
<1>1. Len(L.RX) \in Nat /\ L.L4RESEQ_Q \in Seq(Msgs)
  BY EntryIs, Fields
<1>2. ASSUME NEW k \in 1..Len(L.L4RESEQ_Q)
      PROVE  L.L4RESEQ_Q[k].m = L.L4RESEQ_Q[k].tx + 1 /\ L.L4RESEQ_Q[k].m <= n
  <2>1. L.L4RESEQ_Q[k] \in Msgs
    BY <1>1
  <2>2. L.L4RESEQ_Q[k].m \in Nat
    BY <2>1 DEF Msgs
  <2>3. L.L4RESEQ_Q[k].m = L.L4RESEQ_Q[k].tx + 1 /\ L.L4RESEQ_Q[k].m <= m
    BY DEF Got
  <2> QED BY <2>2, <2>3
<1>3. Len(L.RX) <= n
  BY <1>1 DEF Got
<1> QED
  BY <1>2, <1>3 DEF Got

\* What an end says on a circuit fits in with the other end.
LEMMA SaidFits ==
    ASSUME NEW mine, NEW far, NEW L, NEW K, Entry(K, mine, far), NEW out \in Seq(Msgs),
           Said(L, K, out), NEW M, M.sent \in Nat, Len(M.RX) \in Nat,
           Got(K, M.sent), Acked(K) <= Len(M.RX), NEW f \in Items(out)
    PROVE  /\ IsAck(f) => f.rx <= M.sent
           /\ f.type = "INFO" => f.m <= Len(M.RX) + L4WINDOW + 1
<1>1. f.rx \in Nat /\ f.m \in Nat
  BY ItemIs
<1>2. IsAck(f) => f.rx <= Len(K.RX) /\ Len(K.RX) \in Nat /\ Len(K.RX) <= M.sent
  BY EntryIs DEF Said, Got
<1>3. f.type = "INFO" => f.m <= K.sent
  BY DEF Said
<1>4. /\ Acked(K) \in Nat /\ Acked(K) + Len(K.L4HOLD_Q) = K.sent /\ Len(K.L4HOLD_Q) \in Nat
      /\ Len(K.L4HOLD_Q) <= L4WINDOW + 1 /\ K.sent \in Nat /\ L4WINDOW \in Nat
  BY EntryIs, ModulusIsNat DEF Entry, Loose, HeldOK
<1> DEFINE h == Len(K.L4HOLD_Q)
           n == Len(M.RX)
           c == Acked(K)
<1>5. K.sent <= n + L4WINDOW + 1
  <2>1. c \in Nat /\ c + h = K.sent /\ h \in Nat /\ h <= L4WINDOW + 1 /\ L4WINDOW \in Nat
        /\ n \in Nat /\ c <= n
    BY <1>4
  <2> HIDE DEF h, n, c
  <2> QED BY <2>1
<1>6. \A x, y, z \in Int : x <= y /\ y <= z => x <= z
  OBVIOUS
<1>7. f.type = "INFO" => f.m <= n + L4WINDOW + 1
  <2>1. n + L4WINDOW + 1 \in Int
    <3> HIDE DEF n
    <3>1. n \in Nat
      BY DEF n
    <3> QED BY <1>4, <3>1
  <2> HIDE DEF n, h, c
  <2> QED BY <1>1, <1>3, <1>4, <1>5, <1>6, <2>1
<1>8. IsAck(f) => f.rx <= M.sent
  BY <1>1, <1>2, <1>6
<1> QED
  BY <1>7, <1>8

\* An entry with nothing in it, in any state.
LEMMA EmptyIs ==
    ASSUME NEW mine \in 0..Half, NEW far \in 0..Half
    PROVE  Entry(FreeEntry, mine, far)
<1> DEFINE L == FreeEntry
<1>1. /\ L \in Sane /\ L.L4HOLD_Q = << >> /\ L.L4RESEQ_Q = << >> /\ L.RX = << >>
      /\ L.sent = 0 /\ L.queued = 0 /\ L.TXSEQNO = 0 /\ L.L4WS = 0 /\ L.RXSEQNO = 0
      /\ L.corrupt = FALSE
  BY FreeIsSane DEF FreeEntry
<1>2. mine \in Nat /\ far \in Nat /\ L4WINDOW \in Nat
  BY ModulusIsNat
<1>3. L.L4STATE = 0 => L = FreeEntry
  OBVIOUS
<1> HIDE DEF L
<1>4. Len(L.L4HOLD_Q) = 0 /\ Len(L.L4RESEQ_Q) = 0 /\ Len(L.RX) = 0
  BY <1>1
<1>5. Acked(L) = 0
  <2>1. 0 - 0 = 0
    OBVIOUS
  <2> QED BY <1>1, <1>4, <2>1 DEF Acked
<1>6. HeldOK(L)
  BY <1>1, <1>2, <1>4 DEF HeldOK
<1>7. Got(L, far) /\ InSeq(L) /\ Tight(L)
  BY <1>1, <1>2, <1>4 DEF Got, InSeq, Tight
<1>8. Loose(L, mine, far)
  BY <1>1, <1>2, <1>3, <1>4, <1>5, <1>6, <1>7 DEF Loose
<1> QED
  BY <1>7, <1>8 DEF Entry, L

\* A new entry has nothing in it either.
LEMMA NewIs ==
    ASSUME NEW mine \in 0..Half, NEW far \in 0..Half,
           NEW state \in {2, 5}, NEW id \in Nat, NEW to \in Nat
    PROVE  LET L == NewEntry(state, id, to) IN
           /\ Entry(L, mine, far) /\ Got(L, 0) /\ Acked(L) = 0 /\ L.queued = 0 /\ ~L.DISCPENDING
           /\ L.L4STATE = state /\ L.CIRCUITID = id /\ L.FARID = to
<1> DEFINE L == NewEntry(state, id, to)
<1>1. /\ L \in Sane /\ L.L4HOLD_Q = << >> /\ L.L4RESEQ_Q = << >> /\ L.RX = << >>
      /\ L.sent = 0 /\ L.queued = 0 /\ L.TXSEQNO = 0 /\ L.L4WS = 0 /\ L.RXSEQNO = 0
      /\ L.corrupt = FALSE /\ L.L4STATE = state /\ L.CIRCUITID = id /\ L.FARID = to
      /\ L.DISCPENDING = FALSE
  BY NewIsSane DEF NewEntry, FreeEntry
<1>2. mine \in Nat /\ far \in Nat /\ L4WINDOW \in Nat
  BY ModulusIsNat
<1> HIDE DEF L
<1>3. Len(L.L4HOLD_Q) = 0 /\ Len(L.L4RESEQ_Q) = 0 /\ Len(L.RX) = 0
  BY <1>1
<1>4. Acked(L) = 0
  <2>1. 0 - 0 = 0
    OBVIOUS
  <2> QED BY <1>1, <1>3, <2>1 DEF Acked
<1>5. HeldOK(L)
  BY <1>1, <1>2, <1>3 DEF HeldOK
<1>6. Got(L, far) /\ Got(L, 0) /\ InSeq(L) /\ Tight(L)
  BY <1>1, <1>2, <1>3 DEF Got, InSeq, Tight
<1>7. Loose(L, mine, far)
  BY <1>1, <1>2, <1>3, <1>4, <1>5, <1>6 DEF Loose
<1> QED
  BY <1>1, <1>4, <1>6, <1>7 DEF Entry, L

\* The calling end does something.
LEMMA CallerStep ==
    ASSUME NEW mc \in 0..Half, NEW me \in 0..Half, NEW N, NEW c, NEW e,
           NEW qc \in Seq(Msgs), NEW qe \in Seq(Msgs), NEW qc2 \in Seq(Msgs), NEW qe2 \in Seq(Msgs),
           Sys(c, e, qc, qe, N, mc, me), c.L4STATE # 0,
           NEW d \in Nat, NEW a \in Nat, NEW r, Moves(c, r, mc, me, d, a),
           Flow(qc2, qc, {}), Flow(qe2, qe, Items(r.out)),
           Linked(c, e) => d <= e.sent /\ a <= Len(e.RX),
           c.L4STATE = 2 => d = 0,
           \/ Calm(c, r.link)
           \/ Items(qc2) = {} /\ Items(qe) = {} /\ c.L4STATE # 2
    PROVE  Sys(r.link, e, qc2, qe2, N, mc, me)
<1> DEFINE b == r.link
<1>1. Items(qc2) \subseteq Items(qc) /\ Items(qe2) \subseteq Items(qe) \cup Items(r.out)
  BY DEF Flow
<1>2. /\ N \in Nat \ {0} /\ Entry(c, mc, me) /\ Entry(e, me, mc) /\ CallerIds(c, N) /\ CalleeIds(e, N)
      /\ ToCaller(c, qc, N, me) /\ ToCallee(c, e, qe, N, mc)
      /\ LinkedOK(c, e, qc, qe) /\ ApartOK(c, e) /\ InSetup(c, e, qc)
  BY DEF Sys
<1>3. r.out \in Seq(Msgs) /\ r \in Results
  BY DEF Moves, Results
<1>4. /\ e.sent \in Nat /\ Len(e.RX) \in Nat /\ c.sent \in Nat /\ Len(c.RX) \in Nat
      /\ Acked(c) \in Nat /\ Acked(e) \in Nat
  BY <1>2, EntryIs
<1>5. CASE Clears(r)
  <2>1. b = FreeEntry /\ b.L4STATE = 0 /\ \A f \in Items(r.out) : f.type = "DACK"
    BY <1>5 DEF Clears, FreeEntry
  <2>2. Entry(b, mc, me)
    BY <2>1, EmptyIs
  <2>3. CallerIds(b, N)
    BY <2>1 DEF CallerIds
  <2>4. ToCaller(b, qc2, N, me)
    BY <1>1, <1>2, <2>1 DEF ToCaller
  <2>5. ToCallee(b, e, qe2, N, mc)
    <3>1. ASSUME NEW f \in Items(qe2)
          PROVE  /\ f.type # "CACK"
                 /\ f.type = "CREQ" => f.id = 1
                 /\ f.type = "INFO" => f.m = f.tx + 1 /\ f.m <= mc
                 /\ IsAck(f) => f.id < N
                 /\ e.L4STATE # 0 /\ f.id = e.CIRCUITID =>
                       /\ IsAck(f) => f.rx <= e.sent
                       /\ f.type = "INFO" => f.m <= Len(e.RX) + L4WINDOW + 1
      <4>1. CASE f \in Items(qe)
        BY <1>2, <4>1 DEF ToCallee
      <4>2. CASE f \in Items(r.out)
        BY <2>1, <4>2 DEF IsAck
      <4> QED BY <1>1, <4>1, <4>2
    <3> QED BY <2>1, <3>1 DEF ToCallee
  <2>6. LinkedOK(b, e, qc2, qe2) /\ ApartOK(b, e) /\ InSetup(b, e, qc2)
    BY <2>1 DEF LinkedOK, Linked, ApartOK, Apart, InSetup
  <2> HIDE DEF b
  <2> QED BY <1>2, <2>2, <2>3, <2>4, <2>5, <2>6 DEF Sys, b
<1>6. CASE Advances(c, r, mc, me, d, a)
  <2>1. Entry(b, mc, me) /\ Grows(c, b, d, a) /\ Said(c, b, r.out)
    BY <1>6 DEF Advances
  <2> HIDE DEF b
  <2>2. /\ b.CIRCUITID = c.CIRCUITID /\ b.FARID = c.FARID
        /\ b.L4STATE # 0 /\ (b.L4STATE = 2 => c.L4STATE = 2 /\ b.queued = c.queued)
        /\ b.L4STATE = c.L4STATE \/ (b.L4STATE = 4 /\ c.L4STATE \in {4, 5})
        /\ c.sent <= b.sent /\ Len(c.RX) <= Len(b.RX)
    BY <2>1 DEF Grows
  <2>3. b.sent \in Nat /\ Len(b.RX) \in Nat /\ Acked(b) \in Nat
    BY <2>1, EntryIs
  \* The two ends of one circuit.
  <2>4. ASSUME Linked(b, e)
        PROVE  /\ Linked(c, e) /\ Got(b, e.sent) /\ Acked(b) <= Len(e.RX)
               /\ EndOK(c, e, Items(qc)) /\ EndOK(e, c, For(e, qe))
    <3>1. Linked(c, e)
      BY <2>2, <2>4 DEF Linked
    <3>2. EndOK(c, e, Items(qc)) /\ EndOK(e, c, For(e, qe))
      BY <1>2, <3>1 DEF LinkedOK
    <3>3. d <= e.sent /\ a <= Len(e.RX)
      BY <3>1
    <3> QED BY <1>4, <2>1, <3>1, <3>2, <3>3 DEF EndOK, Grows
  <2>5. CallerIds(b, N)
    <3>1. b.CIRCUITID = 1 /\ b.FARID < N
      BY <1>2, <2>2 DEF CallerIds
    <3>2. ASSUME b.L4STATE = 2
          PROVE  b.FARID = NoId /\ b.queued = 0 /\ Got(b, 0) /\ ~b.DISCPENDING
      <4>1. c.L4STATE = 2 /\ c.FARID = NoId /\ c.queued = 0 /\ Got(c, 0) /\ ~c.DISCPENDING /\ d = 0
        BY <1>2, <2>2, <3>2 DEF CallerIds
      <4>2. Got(b, 0)
        BY <2>1, <4>1 DEF Grows
      <4>3. ~Closing(b)
        BY <4>1 DEF Calm, Closing, b
      <4> QED BY <2>2, <3>2, <4>1, <4>2, <4>3 DEF Closing
    <3>3. b.L4STATE \in {4, 5} => b.FARID # NoId
      BY <1>2, <2>2 DEF CallerIds
    <3> QED BY <3>1, <3>2, <3>3 DEF CallerIds
  <2>6. ToCaller(b, qc2, N, me)
    <3>1. ASSUME NEW f \in Items(qc2)
          PROVE  /\ f.type # "CREQ"
                 /\ f.type = "CACK" => f.rx < N /\ (f.busy \/ f.rx # NoId)
                 /\ f.type = "INFO" => f.m = f.tx + 1 /\ f.m <= me
                 /\ IsAck(f) => f.rx <= b.sent
                 /\ f.type = "INFO" => f.m <= Len(b.RX) + L4WINDOW + 1
                 /\ f.type = "CACK" => ~Closing(b)
      <4>1. f \in Items(qc) /\ f.rx \in Nat /\ f.m \in Nat
        BY <1>1, ItemIs
      <4>2. /\ f.type # "CREQ"
            /\ f.type = "CACK" => f.rx < N /\ (f.busy \/ f.rx # NoId)
            /\ f.type = "INFO" => f.m = f.tx + 1 /\ f.m <= me
            /\ IsAck(f) => f.rx <= c.sent
            /\ f.type = "INFO" => f.m <= Len(c.RX) + L4WINDOW + 1
            /\ f.type = "CACK" => ~Closing(c)
        BY <1>2, <4>1 DEF ToCaller
      <4>3. f.type = "CACK" => ~Closing(b)
        <5>1. Calm(c, b)
          BY DEF b
        <5> QED BY <4>2, <5>1 DEF Calm
      <4>4. IsAck(f) => f.rx <= b.sent
        <5> DEFINE x == c.sent
                   y == b.sent
        <5>1. x \in Nat /\ y \in Nat /\ x <= y
          BY <1>4, <2>2, <2>3
        <5>2. (IsAck(f) => f.rx <= x) /\ f.rx \in Nat
          BY <4>1, <4>2
        <5> HIDE DEF x, y
        <5>3. IsAck(f) => f.rx <= y
          BY <5>1, <5>2
        <5> QED BY <5>3 DEF y
      <4>5. f.type = "INFO" => f.m <= Len(b.RX) + L4WINDOW + 1
        <5> DEFINE x == Len(c.RX)
                   y == Len(b.RX)
        <5>1. f.type = "INFO" => f.m <= x + L4WINDOW + 1
          BY <4>2
        <5>2. x \in Nat /\ y \in Nat /\ x <= y /\ L4WINDOW \in Nat
          BY <1>4, <2>2, <2>3, ModulusIsNat
        <5> HIDE DEF x, y
        <5>3. f.type = "INFO" => f.m <= y + L4WINDOW + 1
          BY <4>1, <5>1, <5>2
        <5> QED BY <5>3 DEF y
      <4> QED BY <4>2, <4>3, <4>4, <4>5
    <3> QED BY <3>1 DEF ToCaller
  <2>7. ToCallee(b, e, qe2, N, mc)
    <3>1. ASSUME NEW f \in Items(qe)
          PROVE  /\ f.type # "CACK"
                 /\ f.type = "CREQ" => f.id = 1 /\ ~Closing(b)
                 /\ f.type = "INFO" => f.m = f.tx + 1 /\ f.m <= mc
                 /\ IsAck(f) => f.id < N /\ f.id \in {NoId, b.FARID}
                 /\ e.L4STATE # 0 /\ f.id = e.CIRCUITID =>
                       /\ IsAck(f) => f.rx <= e.sent
                       /\ f.type = "INFO" => f.m <= Len(e.RX) + L4WINDOW + 1
      <4>1. f.type = "CREQ" => ~Closing(c) /\ Calm(c, b)
        BY <1>2 DEF ToCallee, b
      <4>2. f.type = "CREQ" => ~Closing(b)
        BY <4>1 DEF Calm
      <4> QED BY <1>2, <2>2, <4>2 DEF ToCallee
    <3>2. ASSUME NEW f \in Items(r.out)
          PROVE  /\ f.type # "CACK"
                 /\ f.type = "CREQ" => f.id = 1 /\ ~Closing(b)
                 /\ f.type = "INFO" => f.m = f.tx + 1 /\ f.m <= mc
                 /\ IsAck(f) => f.id < N /\ f.id \in {NoId, b.FARID}
                 /\ e.L4STATE # 0 /\ f.id = e.CIRCUITID =>
                       /\ IsAck(f) => f.rx <= e.sent
                       /\ f.type = "INFO" => f.m <= Len(e.RX) + L4WINDOW + 1
      <4>1. f.rx \in Nat /\ f.m \in Nat
        BY <1>3, ItemIs
      <4>2. f.type # "CACK"
        BY <2>1 DEF Said
      <4>3. ASSUME f.type = "CREQ" PROVE f.id = 1 /\ ~Closing(b)
        <5>1. f.id = c.CIRCUITID /\ b.L4STATE = 2
          BY <2>1, <4>3 DEF Said
        <5> QED BY <1>2, <2>5, <5>1 DEF CallerIds, Closing
      <4>4. f.type = "INFO" => f.m = f.tx + 1 /\ f.m <= mc
        <5>1. f.type = "INFO" => f.m = f.tx + 1 /\ f.m <= b.sent
          BY <2>1 DEF Said
        <5>2. b.sent <= b.queued /\ b.queued \in Nat
          BY <2>1, EntryIs
        <5>3. b.queued <= mc
          BY <2>1 DEF Entry, Loose
        <5>4. mc \in Nat
          BY ModulusIsNat
        <5> QED BY <2>3, <4>1, <5>1, <5>2, <5>3, <5>4
      <4>5. IsAck(f) => f.id = b.FARID /\ f.id < N
        BY <2>1, <2>5, <2>2 DEF Said, CallerIds
      <4>6. ASSUME e.L4STATE # 0, f.id = e.CIRCUITID, IsAck(f)
            PROVE  /\ f.rx <= e.sent
                   /\ f.type = "INFO" => f.m <= Len(e.RX) + L4WINDOW + 1
        <5>1. Linked(b, e)
          BY <2>2, <4>5, <4>6 DEF Linked
        <5>2. Got(b, e.sent) /\ Acked(b) <= Len(e.RX)
          BY <2>4, <5>1
        <5> QED BY <1>3, <1>4, <2>1, <4>6, <5>2, SaidFits
      <4>7. f.type = "INFO" => IsAck(f)
        BY DEF IsAck
      <4> QED BY <4>2, <4>3, <4>4, <4>5, <4>6, <4>7
    <3>3. \A f \in Items(qe2) : f \in Items(qe) \/ f \in Items(r.out)
      BY <1>1
    <3> QED BY <3>1, <3>2, <3>3 DEF ToCallee
  <2>8. LinkedOK(b, e, qc2, qe2)
    <3> SUFFICES ASSUME Linked(b, e)
                 PROVE  EndOK(b, e, Items(qc2)) /\ EndOK(e, b, For(e, qe2))
      BY DEF LinkedOK
    <3>1. /\ Got(b, e.sent) /\ Acked(b) <= Len(e.RX)
          /\ EndOK(c, e, Items(qc)) /\ EndOK(e, c, For(e, qe))
      BY <2>4
    <3>2. EndOK(b, e, Items(qc2))
      BY <1>1, <3>1 DEF EndOK
    <3>3. Got(e, b.sent)
      <4>1. Got(e, c.sent)
        BY <3>1 DEF EndOK
      <4> QED BY <1>2, <1>4, <2>2, <2>3, <4>1, GotMore
    <3>4. Acked(e) <= Len(b.RX)
      BY <1>4, <2>2, <2>3, <3>1 DEF EndOK
    <3>5. ASSUME NEW f \in For(e, qe2)
          PROVE  /\ IsAck(f) => f.rx <= Len(b.RX)
                 /\ f.type = "INFO" => f.m <= b.sent
      <4>1. CASE f \in Items(qe)
        <5>1. f \in For(e, qe) /\ f.rx \in Nat /\ f.m \in Nat
          BY <4>1, ItemIs DEF For
        <5>2. /\ IsAck(f) => f.rx <= Len(c.RX)
              /\ f.type = "INFO" => f.m <= c.sent
          BY <3>1, <5>1 DEF EndOK
        <5>3. \A x, y, z \in Nat : x <= y /\ y <= z => x <= z
          OBVIOUS
        <5>4. f.type = "INFO" => f.m <= b.sent
          BY <1>4, <2>2, <2>3, <5>1, <5>2, <5>3
        <5>6. /\ Len(c.RX) \in Nat /\ Len(b.RX) \in Nat
              /\ Len(c.RX) <= Len(b.RX)
          BY <1>4, <2>2, <2>3
        <5>5. IsAck(f) => f.rx <= Len(b.RX)
          <6> DEFINE x == Len(c.RX)
                     y == Len(b.RX)
          <6>1. (IsAck(f) => f.rx <= x) /\ x \in Nat /\ y \in Nat /\ x <= y
            BY <5>2, <5>6
          <6> HIDE DEF x, y
          <6>2. IsAck(f) => f.rx <= y
            BY <5>1, <5>3, <6>1
          <6> QED BY <6>2 DEF y
        <5> QED BY <5>4, <5>5
      <4>2. CASE f \in Items(r.out)
        <5>1. Said(c, b, r.out)
          BY <2>1
        <5>2. IsAck(f) => f.rx <= Len(b.RX)
          BY <4>2, <5>1 DEF Said
        <5>3. f.type = "INFO" => f.m <= b.sent
          BY <4>2, <5>1 DEF Said
        <5> QED BY <5>2, <5>3
      <4>3. f \in Items(qe) \/ f \in Items(r.out)
        BY <1>1 DEF For
      <4> QED BY <4>1, <4>2, <4>3
    <3> QED BY <3>2, <3>3, <3>4, <3>5 DEF EndOK
  <2>9. ApartOK(b, e)
    BY <1>2, <2>2 DEF ApartOK, Apart
  <2>10. InSetup(b, e, qc2)
    <3> SUFFICES ASSUME b.L4STATE = 2, e.L4STATE # 0, NEW i \in 1..Len(qc2), NEW j \in 1..Len(qc2),
                        i < j, qc2[i].type = "CACK", ~qc2[i].busy, qc2[i].rx = e.CIRCUITID,
                        qc2[j].type = "INFO"
                 PROVE  qc2[j].m <= e.sent
      BY DEF InSetup
    <3>1. PICK k, l \in 1..Len(qc) : k < l /\ qc2[i] = qc[k] /\ qc2[j] = qc[l]
      BY DEF Flow
    <3> QED BY <1>2, <2>2, <3>1 DEF InSetup
  <2> QED BY <1>2, <2>1, <2>5, <2>6, <2>7, <2>8, <2>9, <2>10 DEF Sys, b
<1> QED
  BY <1>5, <1>6 DEF Moves
\* The called end does something.
LEMMA CalleeStep ==
    ASSUME NEW mc \in 0..Half, NEW me \in 0..Half, NEW N, NEW c, NEW e,
           NEW qc \in Seq(Msgs), NEW qe \in Seq(Msgs), NEW qc2 \in Seq(Msgs), NEW qe2 \in Seq(Msgs),
           Sys(c, e, qc, qe, N, mc, me), e.L4STATE # 0,
           NEW d \in Nat, NEW a \in Nat, NEW r, Moves(e, r, me, mc, d, a),
           Flow(qe2, qe, {}), Flow(qc2, qc, Items(r.out)),
           Linked(c, e) => d <= c.sent /\ a <= Len(c.RX),
           Apart(c, e) => d = 0 /\ a = 0
    PROVE  Sys(c, r.link, qc2, qe2, N, mc, me)
<1> DEFINE b == r.link
<1>1. Items(qe2) \subseteq Items(qe) /\ Items(qc2) \subseteq Items(qc) \cup Items(r.out)
  BY DEF Flow
<1>2. /\ N \in Nat \ {0} /\ Entry(c, mc, me) /\ Entry(e, me, mc) /\ CallerIds(c, N) /\ CalleeIds(e, N)
      /\ ToCaller(c, qc, N, me) /\ ToCallee(c, e, qe, N, mc)
      /\ LinkedOK(c, e, qc, qe) /\ ApartOK(c, e) /\ InSetup(c, e, qc)
  BY DEF Sys
<1>3. r.out \in Seq(Msgs) /\ r \in Results
  BY DEF Moves, Results
<1>4. /\ e.sent \in Nat /\ Len(e.RX) \in Nat /\ c.sent \in Nat /\ Len(c.RX) \in Nat
      /\ Acked(c) \in Nat /\ Acked(e) \in Nat
  BY <1>2, EntryIs
<1>5. CASE Clears(r)
  <2>1. b = FreeEntry /\ b.L4STATE = 0 /\ \A f \in Items(r.out) : f.type = "DACK"
    BY <1>5 DEF Clears, FreeEntry
  <2>2. Entry(b, me, mc)
    BY <2>1, EmptyIs
  <2>3. CalleeIds(b, N)
    BY <2>1 DEF CalleeIds
  <2>4. ToCallee(c, b, qe2, N, mc)
    BY <1>1, <1>2, <2>1 DEF ToCallee
  <2>5. ToCaller(c, qc2, N, me)
    <3>1. \A f \in Items(qc2) : f \in Items(qc) \/ f.type = "DACK"
      BY <1>1, <2>1
    <3> QED BY <1>2, <3>1 DEF ToCaller, IsAck
  <2>6. LinkedOK(c, b, qc2, qe2) /\ ApartOK(c, b) /\ InSetup(c, b, qc2)
    BY <2>1 DEF LinkedOK, Linked, ApartOK, Apart, InSetup
  <2> HIDE DEF b
  <2> QED BY <1>2, <2>2, <2>3, <2>4, <2>5, <2>6 DEF Sys, b
<1>6. CASE Advances(e, r, me, mc, d, a)
  <2>1. Entry(b, me, mc) /\ Grows(e, b, d, a) /\ Said(e, b, r.out)
    BY <1>6 DEF Advances
  <2> HIDE DEF b
  <2>2. /\ b.CIRCUITID = e.CIRCUITID /\ b.FARID = e.FARID
        /\ b.L4STATE # 0 /\ b.L4STATE # 2 /\ e.L4STATE # 2
        /\ e.sent <= b.sent /\ Len(e.RX) <= Len(b.RX)
    BY <1>2, <2>1 DEF Grows, CalleeIds
  <2>3. b.sent \in Nat /\ Len(b.RX) \in Nat /\ Acked(b) \in Nat
    BY <2>1, EntryIs
  <2>4. \A x, y, z \in Nat : x <= y /\ y <= z => x <= z
    OBVIOUS
  \* Whatever the calling end knows of the circuit, b fits in with it.
  <2>5. ASSUME Apart(c, e) PROVE Got(b, 0) /\ Acked(b) <= 0
    <3>1. Got(e, 0) /\ Acked(e) <= 0 /\ d = 0 /\ a = 0
      BY <1>2, <2>5 DEF ApartOK
    <3> QED BY <2>1, <3>1 DEF Grows
  <2>6. ASSUME Linked(c, e)
        PROVE  /\ Got(b, c.sent) /\ Acked(b) <= Len(c.RX)
               /\ EndOK(c, e, Items(qc)) /\ EndOK(e, c, For(e, qe))
    <3>1. EndOK(c, e, Items(qc)) /\ EndOK(e, c, For(e, qe))
      BY <1>2, <2>6 DEF LinkedOK
    <3>2. d <= c.sent /\ a <= Len(c.RX)
      BY <2>6
    <3>3. Got(e, c.sent) /\ Acked(e) <= Len(c.RX)
      BY <3>1 DEF EndOK
    <3> QED BY <1>4, <2>1, <3>1, <3>2, <3>3 DEF Grows
  <2>7. ASSUME c.L4STATE # 0 PROVE Got(b, c.sent) /\ Acked(b) <= Len(c.RX)
    <3>1. CASE Linked(c, e)
      BY <2>6, <3>1
    <3>2. CASE Apart(c, e)
      <4>1. Got(b, 0) /\ Acked(b) = 0
        BY <2>3, <2>5, <3>2
      <4> QED BY <1>4, <2>1, <4>1, GotMore
    <3> QED BY <2>7, <3>1, <3>2 DEF Linked, Apart
  <2>8. CalleeIds(b, N)
    BY <1>2, <2>2 DEF CalleeIds
  <2>9. ToCaller(c, qc2, N, me)
    <3>1. ASSUME NEW f \in Items(r.out)
          PROVE  /\ f.type # "CREQ" /\ f.type # "CACK"
                 /\ f.type = "INFO" => f.m = f.tx + 1 /\ f.m <= me
                 /\ c.L4STATE # 0 => /\ IsAck(f) => f.rx <= c.sent
                                     /\ f.type = "INFO" => f.m <= Len(c.RX) + L4WINDOW + 1
      <4>1. f.rx \in Nat /\ f.m \in Nat
        BY <1>3, ItemIs
      <4>2. f.type # "CREQ" /\ f.type # "CACK"
        BY <2>1, <2>2 DEF Said
      <4>3. f.type = "INFO" => f.m = f.tx + 1 /\ f.m <= me
        <5>1. f.type = "INFO" => f.m = f.tx + 1 /\ f.m <= b.sent
          BY <2>1 DEF Said
        <5>2. b.sent <= b.queued /\ b.queued \in Nat
          BY <2>1, EntryIs
        <5>3. b.queued <= me
          BY <2>1 DEF Entry, Loose
        <5>4. me \in Nat
          BY ModulusIsNat
        <5> QED BY <2>3, <4>1, <5>1, <5>2, <5>3, <5>4
      <4>4. ASSUME c.L4STATE # 0
            PROVE  /\ IsAck(f) => f.rx <= c.sent
                   /\ f.type = "INFO" => f.m <= Len(c.RX) + L4WINDOW + 1
        <5>1. Got(b, c.sent) /\ Acked(b) <= Len(c.RX)
          BY <2>7, <4>4
        <5> QED BY <1>3, <1>4, <2>1, <5>1, SaidFits
      <4> QED BY <4>2, <4>3, <4>4
    <3>2. \A f \in Items(qc2) : f \in Items(qc) \/ f \in Items(r.out)
      BY <1>1
    <3> QED BY <1>2, <3>1, <3>2 DEF ToCaller
  <2>10. ToCallee(c, b, qe2, N, mc)
    <3>1. ASSUME NEW f \in Items(qe2), f.id = b.CIRCUITID
          PROVE  /\ IsAck(f) => f.rx <= b.sent
                 /\ f.type = "INFO" => f.m <= Len(b.RX) + L4WINDOW + 1
      <4>1. f \in Items(qe) /\ f.rx \in Nat /\ f.m \in Nat
        BY <1>1, ItemIs
      <4>2. /\ IsAck(f) => f.rx <= e.sent
            /\ f.type = "INFO" => f.m <= Len(e.RX) + L4WINDOW + 1
        BY <1>2, <2>2, <3>1, <4>1 DEF ToCallee
      <4>3. f.type = "INFO" => f.m <= Len(b.RX) + L4WINDOW + 1
        <5> DEFINE x == Len(e.RX)
                   y == Len(b.RX)
        <5>1. f.type = "INFO" => f.m <= x + L4WINDOW + 1
          BY <4>2
        <5>2. x \in Nat /\ y \in Nat /\ x <= y /\ L4WINDOW \in Nat
          BY <1>4, <2>2, <2>3, ModulusIsNat
        <5> HIDE DEF x, y
        <5>3. f.type = "INFO" => f.m <= y + L4WINDOW + 1
          BY <4>1, <5>1, <5>2
        <5> QED BY <5>3 DEF y
      <4>4. IsAck(f) => f.rx <= b.sent
        BY <1>4, <2>2, <2>3, <2>4, <4>1, <4>2
      <4> QED BY <4>3, <4>4
    <3>2. \A f \in Items(qe2) : f \in Items(qe)
      BY <1>1
    <3> QED BY <1>2, <3>1, <3>2 DEF ToCallee
  <2>11. LinkedOK(c, b, qc2, qe2)
    <3> SUFFICES ASSUME Linked(c, b)
                 PROVE  EndOK(c, b, Items(qc2)) /\ EndOK(b, c, For(b, qe2))
      BY DEF LinkedOK
    <3>1. Linked(c, e)
      BY <2>2 DEF Linked
    <3>2. /\ Got(b, c.sent) /\ Acked(b) <= Len(c.RX)
          /\ EndOK(c, e, Items(qc)) /\ EndOK(e, c, For(e, qe))
      BY <2>6, <3>1
    <3>3. EndOK(b, c, For(b, qe2))
      <4>1. For(b, qe2) \subseteq For(e, qe)
        BY <1>1, <2>2 DEF For
      <4> QED BY <3>2, <4>1 DEF EndOK
    <3>4. Got(c, b.sent)
      <4>1. Got(c, e.sent)
        BY <3>2 DEF EndOK
      <4> QED BY <1>2, <1>4, <2>2, <2>3, <4>1, GotMore
    <3>5. Acked(c) <= Len(b.RX)
      BY <1>4, <2>2, <2>3, <2>4, <3>2 DEF EndOK
    <3>6. ASSUME NEW f \in Items(qc2)
          PROVE  /\ IsAck(f) => f.rx <= Len(b.RX)
                 /\ f.type = "INFO" => f.m <= b.sent
      <4>1. CASE f \in Items(qc)
        <5>1. f.rx \in Nat /\ f.m \in Nat
          BY <4>1, ItemIs
        <5>2. /\ IsAck(f) => f.rx <= Len(e.RX)
              /\ f.type = "INFO" => f.m <= e.sent
          BY <3>2, <4>1 DEF EndOK
        <5>3. f.type = "INFO" => f.m <= b.sent
          BY <1>4, <2>2, <2>3, <2>4, <5>1, <5>2
        <5>4. IsAck(f) => f.rx <= Len(b.RX)
          BY <1>4, <2>2, <2>3, <2>4, <5>1, <5>2
        <5> QED BY <5>3, <5>4
      <4>2. CASE f \in Items(r.out)
        <5>1. Said(e, b, r.out)
          BY <2>1
        <5>2. IsAck(f) => f.rx <= Len(b.RX)
          BY <4>2, <5>1 DEF Said
        <5>3. f.type = "INFO" => f.m <= b.sent
          BY <4>2, <5>1 DEF Said
        <5> QED BY <5>2, <5>3
      <4> QED BY <1>1, <4>1, <4>2
    <3> QED BY <3>3, <3>4, <3>5, <3>6 DEF EndOK
  <2>12. ApartOK(c, b)
    BY <2>2, <2>5 DEF ApartOK, Apart
  <2>13. InSetup(c, b, qc2)
    <3> SUFFICES ASSUME c.L4STATE = 2, b.L4STATE # 0, NEW i \in 1..Len(qc2), NEW j \in 1..Len(qc2),
                        i < j, qc2[i].type = "CACK", ~qc2[i].busy, qc2[i].rx = b.CIRCUITID,
                        qc2[j].type = "INFO"
                 PROVE  qc2[j].m <= b.sent
      BY DEF InSetup
    <3>1. CASE qc2[j] \in Items(r.out)
      BY <2>1, <3>1 DEF Said
    <3>2. CASE \E k, l \in 1..Len(qc) : k < l /\ qc2[i] = qc[k] /\ qc2[j] = qc[l]
      <4>1. PICK k, l \in 1..Len(qc) : k < l /\ qc2[i] = qc[k] /\ qc2[j] = qc[l]
        BY <3>2
      <4>2. qc[l].m <= e.sent
        BY <1>2, <2>2, <4>1 DEF InSetup
      <4>3. qc[l].m \in Nat
        BY ItemIs DEF Items
      <4> QED BY <1>4, <2>2, <2>3, <2>4, <4>1, <4>2, <4>3
    <3> QED BY <3>1, <3>2 DEF Flow
  <2> QED BY <1>2, <2>1, <2>8, <2>9, <2>10, <2>11, <2>12, <2>13 DEF Sys, b
<1> QED
  BY <1>5, <1>6 DEF Moves
\* Neither entry changes, and what is said has no data and acknowledges none.
LEMMA QuietStep ==
    ASSUME NEW mc, NEW me, NEW N, NEW c, NEW e,
           NEW qc \in Seq(Msgs), NEW qe \in Seq(Msgs), NEW qc2 \in Seq(Msgs), NEW qe2 \in Seq(Msgs),
           Sys(c, e, qc, qe, N, mc, me), NEW fc, NEW fe, Flow(qc2, qc, fc), Flow(qe2, qe, fe),
           \A f \in fc : /\ f.type \notin {"CREQ", "INFO", "IACK"}
                         /\ f.type = "CACK" => /\ f.rx < N /\ (f.busy \/ f.rx # NoId)
                                               /\ c.L4STATE # 0 => ~Closing(c),
           \A f \in fe : f.type \notin {"CACK", "CREQ", "INFO", "IACK"}
    PROVE  Sys(c, e, qc2, qe2, N, mc, me)
<1>1. Items(qe2) \subseteq Items(qe) \cup fe /\ Items(qc2) \subseteq Items(qc) \cup fc
  BY DEF Flow
<1>2. /\ N \in Nat \ {0} /\ Entry(c, mc, me) /\ Entry(e, me, mc) /\ CallerIds(c, N) /\ CalleeIds(e, N)
      /\ ToCaller(c, qc, N, me) /\ ToCallee(c, e, qe, N, mc)
      /\ LinkedOK(c, e, qc, qe) /\ ApartOK(c, e) /\ InSetup(c, e, qc)
  BY DEF Sys
<1>3. \A f \in fc \cup fe : ~IsAck(f) /\ f.type # "INFO" /\ f.type # "CREQ"
  BY DEF IsAck
<1>4. ToCaller(c, qc2, N, me)
  <2>1. \A f \in Items(qc2) : f \in Items(qc) \/ f \in fc
    BY <1>1
  <2> QED BY <1>2, <1>3, <2>1 DEF ToCaller
<1>5. ToCallee(c, e, qe2, N, mc)
  <2>1. \A f \in Items(qe2) : f \in Items(qe) \/ f \in fe
    BY <1>1
  <2> QED BY <1>2, <1>3, <2>1 DEF ToCallee
<1>6. LinkedOK(c, e, qc2, qe2)
  <2> SUFFICES ASSUME Linked(c, e)
               PROVE  EndOK(c, e, Items(qc2)) /\ EndOK(e, c, For(e, qe2))
    BY DEF LinkedOK
  <2>1. EndOK(c, e, Items(qc)) /\ EndOK(e, c, For(e, qe))
    BY <1>2 DEF LinkedOK
  <2>2. For(e, qe2) \subseteq For(e, qe) \cup fe
    BY <1>1 DEF For
  <2>3. EndOK(c, e, Items(qc2))
    BY <1>1, <1>3, <2>1 DEF EndOK
  <2>4. EndOK(e, c, For(e, qe2))
    BY <1>3, <2>1, <2>2 DEF EndOK
  <2> QED BY <2>3, <2>4
<1>7. InSetup(c, e, qc2)
  <2> SUFFICES ASSUME c.L4STATE = 2, e.L4STATE # 0, NEW i \in 1..Len(qc2), NEW j \in 1..Len(qc2),
                      i < j, qc2[i].type = "CACK", ~qc2[i].busy, qc2[i].rx = e.CIRCUITID,
                      qc2[j].type = "INFO"
               PROVE  qc2[j].m <= e.sent
    BY DEF InSetup
  <2>1. PICK k, l \in 1..Len(qc) : k < l /\ qc2[i] = qc[k] /\ qc2[j] = qc[l]
    BY <1>3 DEF Flow
  <2> QED BY <1>2, <2>1 DEF InSetup
<1> QED
  BY <1>2, <1>4, <1>5, <1>6, <1>7 DEF Sys

\* CONNECTREQUEST takes an entry: until its CACK arrives the two ends are apart.
LEMMA TakenStep ==
    ASSUME NEW mc \in 0..Half, NEW me \in 0..Half, NEW N, NEW c, NEW e,
           NEW qc \in Seq(Msgs), NEW qe \in Seq(Msgs), NEW qc2 \in Seq(Msgs), NEW qe2 \in Seq(Msgs),
           Sys(c, e, qc, qe, N, mc, me), e.L4STATE = 0, c.L4STATE # 0 => ~Closing(c),
           Flow(qc2, qc, {CACK(NewEntry(5, N, 1))}), Flow(qe2, qe, {})
    PROVE  Sys(c, NewEntry(5, N, 1), qc2, qe2, N + 1, mc, me)
<1> DEFINE b == NewEntry(5, N, 1)
           g == CACK(b)
<1>1. /\ N \in Nat \ {0} /\ Entry(c, mc, me) /\ CallerIds(c, N)
      /\ ToCaller(c, qc, N, me) /\ ToCallee(c, e, qe, N, mc)
  BY DEF Sys
<1>2. /\ Entry(b, me, mc) /\ Got(b, 0) /\ Acked(b) = 0 /\ b.L4STATE = 5 /\ b.CIRCUITID = N
      /\ b.FARID = 1
  BY <1>1, NewIs
<1>3. g.type = "CACK" /\ g.rx = N /\ g.busy = FALSE
  BY <1>2 DEF CACK, Msg
<1> HIDE DEF b, g
<1>4. Items(qe2) \subseteq Items(qe) /\ Items(qc2) \subseteq Items(qc) \cup {g}
  BY DEF Flow, g, b
<1>5. \A x \in Nat : x < N => x < N + 1 /\ x # N
  BY <1>1
<1>6. CallerIds(c, N + 1)
  <2>1. c.FARID \in Nat
    BY <1>1, EntryIs, Fields
  <2> QED BY <1>1, <1>5, <2>1 DEF CallerIds
<1>7. CalleeIds(b, N + 1)
  BY <1>1, <1>2 DEF CalleeIds
<1>8. ToCaller(c, qc2, N + 1, me)
  <2>1. ASSUME NEW f \in Items(qc)
        PROVE  f.type = "CACK" => f.rx < N + 1
    BY <1>1, <1>5, ItemIs DEF ToCaller
  <2>2. g.rx < N + 1 /\ g.rx # NoId
    BY <1>1, <1>3 DEF NoId
  <2>3. \A f \in Items(qc2) : f \in Items(qc) \/ f = g
    BY <1>4
  <2> QED BY <1>1, <1>3, <2>1, <2>2, <2>3 DEF ToCaller, IsAck
<1>9. ToCallee(c, b, qe2, N + 1, mc)
  <2>1. ASSUME NEW f \in Items(qe2)
        PROVE  f \in Items(qe) /\ (IsAck(f) => f.id < N + 1 /\ f.id # N)
    BY <1>1, <1>4, <1>5, ItemIs DEF ToCallee
  <2>2. \A f : f.type = "INFO" => IsAck(f)
    BY DEF IsAck
  <2> QED BY <1>1, <1>2, <2>1, <2>2 DEF ToCallee
<1>10. LinkedOK(c, b, qc2, qe2)
  <2>1. c.FARID \in Nat
    BY <1>1, EntryIs, Fields
  <2> QED BY <1>1, <1>2, <1>5, <2>1 DEF LinkedOK, Linked, CallerIds
<1>11. ApartOK(c, b)
  BY <1>2 DEF ApartOK
<1>12. InSetup(c, b, qc2)
  <2> SUFFICES ASSUME NEW i \in 1..Len(qc2), NEW j \in 1..Len(qc2),
                      i < j, qc2[i].type = "CACK", qc2[i].rx = N, qc2[j].type = "INFO"
               PROVE  FALSE
    BY <1>2 DEF InSetup
  <2>1. qc2[j] # g
    BY <1>3
  <2>2. PICK k, l \in 1..Len(qc) : k < l /\ qc2[i] = qc[k] /\ qc2[j] = qc[l]
    BY <2>1 DEF Flow, g, b
  <2>3. qc[k] \in Items(qc) /\ qc[k].type = "CACK" /\ qc[k].rx = N
    BY <2>2 DEF Items
  <2> QED BY <1>1, <1>5, <2>3, ItemIs DEF ToCaller
<1> QED
  BY <1>1, <1>2, <1>6, <1>7, <1>8, <1>9, <1>10, <1>11, <1>12 DEF Sys, b

\* The answer of a call arrives.
LEMMA AnswerStep ==
    ASSUME NEW mc \in 0..Half, NEW me \in 0..Half, NEW N, NEW c, NEW e,
           NEW qc \in Seq(Msgs), NEW qe \in Seq(Msgs), NEW qc2 \in Seq(Msgs), NEW qe2 \in Seq(Msgs),
           Sys(c, e, qc, qe, N, mc, me), c.L4STATE = 2, qc # << >>,
           NEW f \in Msgs, f = Head(qc), f.type = "CACK", ~f.busy,
           qc2 = Tail(qc), Flow(qe2, qe, {})
    PROVE  Sys(RecvCACK(c, f).link, e, qc2, qe2, N, mc, me)
<1> DEFINE b == [c EXCEPT !.L4STATE = 5, !.FARID = f.rx, !.L4TIMER = FALSE, !.L4RETRIES = 0]
<1>1. RecvCACK(c, f).link = b
  BY DEF RecvCACK, Silent
<1>2. /\ N \in Nat \ {0} /\ Entry(c, mc, me) /\ Entry(e, me, mc) /\ CallerIds(c, N) /\ CalleeIds(e, N)
      /\ ToCaller(c, qc, N, me) /\ ToCallee(c, e, qe, N, mc)
      /\ ApartOK(c, e) /\ InSetup(c, e, qc)
  BY DEF Sys
<1>3. f \in Items(qc) /\ f.rx \in Nat /\ f = qc[1] /\ Len(qc) \in Nat /\ 1 \in 1..Len(qc)
  <2>1. Len(qc) \in Nat /\ 1 \in 1..Len(qc) /\ f = qc[1]
    OBVIOUS
  <2> QED BY <2>1 DEF Items, Msgs
<1>4. f.rx < N /\ f.rx # NoId /\ ~Closing(c)
  BY <1>2, <1>3 DEF ToCaller
<1>5. c \in Sane
  BY <1>2, EntryIs
<1>6. b \in Sane
  <2>1. RecvCACK(c, f) \in Results
    BY <1>5, CACKIsResult
  <2>2. \A r \in Results : r.link \in Sane
    BY DEF Results
  <2> HIDE DEF b
  <2> QED BY <1>1, <2>1, <2>2
<1>7. /\ b.CIRCUITID = c.CIRCUITID /\ b.FARID = f.rx /\ b.L4STATE = 5
      /\ b.TXSEQNO = c.TXSEQNO /\ b.L4WS = c.L4WS /\ b.RXSEQNO = c.RXSEQNO
      /\ b.L4HOLD_Q = c.L4HOLD_Q /\ b.L4RESEQ_Q = c.L4RESEQ_Q
      /\ b.queued = c.queued /\ b.sent = c.sent /\ b.RX = c.RX /\ b.corrupt = c.corrupt
      /\ b.DISCPENDING = c.DISCPENDING
  BY <1>5 DEF Sane, Entries
<1> HIDE DEF b
<1>8. c.CIRCUITID = 1 /\ c.FARID = NoId /\ c.queued = 0 /\ Got(c, 0)
  BY <1>2 DEF CallerIds
<1>9. /\ c.sent = 0 /\ Len(c.L4HOLD_Q) = 0 /\ Acked(c) = 0 /\ Len(c.RX) = 0
      /\ e.sent \in Nat /\ Len(e.RX) \in Nat /\ Acked(e) \in Nat
  <2>1. /\ c.sent \in Nat /\ c.sent <= c.queued /\ Acked(c) \in Nat /\ Acked(c) <= c.sent
        /\ Acked(c) + Len(c.L4HOLD_Q) = c.sent /\ Len(c.L4HOLD_Q) \in Nat /\ Len(c.RX) \in Nat
        /\ Len(c.RX) <= 0
    BY <1>2, <1>8, EntryIs DEF Got
  <2>2. \A x \in Nat : x <= 0 => x = 0
    OBVIOUS
  <2>3. c.sent = 0
    BY <1>8, <2>1, <2>2
  <2>4. Acked(c) = 0
    BY <2>1, <2>2, <2>3
  <2>5. Len(c.L4HOLD_Q) = 0
    BY <2>1, <2>3, <2>4
  <2>6. Len(c.RX) = 0
    BY <2>1, <2>2
  <2> QED BY <1>2, <2>3, <2>4, <2>5, <2>6, EntryIs
<1>10. Acked(b) = Acked(c) /\ \A n : Got(c, n) => Got(b, n)
  BY <1>7 DEF Acked, Got
<1>11. Entry(b, mc, me)
  <2>1. HeldOK(b)
    <3>1. Len(b.L4HOLD_Q) = 0 /\ b.sent = 0 /\ L4WINDOW \in Nat
      BY <1>7, <1>9, ModulusIsNat
    <3> QED BY <3>1 DEF HeldOK
  <2>2. InSeq(b) /\ Got(b, me)
    BY <1>2, <1>7, <1>10 DEF Entry, Loose, InSeq
  <2>3. L4WINDOW = 1 => Tight(b)
    BY <1>2, <1>7 DEF Entry, Tight
  <2> QED BY <1>2, <1>6, <1>7, <1>10, <2>1, <2>2, <2>3 DEF Entry, Loose
<1>12. CallerIds(b, N)
  BY <1>4, <1>7, <1>8 DEF CallerIds
<1>13. Items(qc2) \subseteq Items(qc) /\ Items(qe2) \subseteq Items(qe)
  BY ItemsOf DEF Flow
<1>14. Closing(b) = Closing(c)
  BY <1>7 DEF Closing
<1>15. ToCaller(b, qc2, N, me)
  <2>1. \A g \in Items(qc2) : g \in Items(qc)
    BY <1>13
  <2> QED BY <1>2, <1>4, <1>7, <1>14, <2>1 DEF ToCaller
<1>16. ToCallee(b, e, qe2, N, mc)
  <2>1. \A g \in Items(qe2) : g \in Items(qe)
    BY <1>13
  <2> QED BY <1>2, <1>4, <1>8, <1>14, <2>1 DEF ToCallee
<1>17. ASSUME e.L4STATE # 0
       PROVE  Got(e, 0) /\ Acked(e) = 0 /\ e.CIRCUITID # NoId
  <2>1. e.CIRCUITID # NoId
    BY <1>2, <1>17 DEF CalleeIds, NoId
  <2>2. Apart(c, e)
    BY <1>8, <1>17, <2>1 DEF Apart
  <2> QED BY <1>2, <1>9, <2>1, <2>2 DEF ApartOK
<1>18. LinkedOK(b, e, qc2, qe2)
  <2> SUFFICES ASSUME Linked(b, e)
               PROVE  EndOK(b, e, Items(qc2)) /\ EndOK(e, b, For(e, qe2))
    BY DEF LinkedOK
  <2>1. e.L4STATE # 0 /\ e.CIRCUITID = f.rx
    BY <1>7 DEF Linked
  <2>2. Got(b, e.sent) /\ Acked(b) <= Len(e.RX)
    <3>1. Got(b, 0)
      BY <1>8, <1>10
    <3> QED BY <1>9, <1>10, <1>11, <3>1, GotMore
  <2>3. ASSUME NEW g \in Items(qc2)
        PROVE  /\ IsAck(g) => g.rx <= Len(e.RX)
               /\ g.type = "INFO" => g.m <= e.sent
    <3>1. PICK k \in 1..Len(qc2) : g = qc2[k]
      BY DEF Items
    <3>2. k + 1 \in 1..Len(qc) /\ g = qc[k + 1] /\ 1 < k + 1
      BY <3>1
    <3>3. g \in Items(qc) /\ g.rx \in Nat
      BY <1>13, ItemIs
    <3>4. g.type = "INFO" => g.m <= e.sent
      BY <1>2, <1>3, <2>1, <3>2 DEF InSetup
    <3>5. IsAck(g) => g.rx <= 0
      BY <1>2, <1>9, <3>3 DEF ToCaller
    <3>6. \A x, y \in Nat : x <= 0 => x <= y
      OBVIOUS
    <3> QED BY <1>9, <3>3, <3>4, <3>5, <3>6
  <2>4. Got(e, b.sent) /\ Acked(e) <= Len(b.RX)
    BY <1>7, <1>9, <1>17, <2>1
  <2>5. ASSUME NEW g \in For(e, qe2) PROVE ~IsAck(g) /\ g.type # "INFO"
    <3>1. g \in Items(qe) /\ g.id = e.CIRCUITID
      BY <1>13 DEF For
    <3> QED BY <1>2, <1>8, <1>17, <2>1, <3>1 DEF ToCallee, IsAck
  <2> QED BY <2>2, <2>3, <2>4, <2>5 DEF EndOK
<1>19. ApartOK(b, e)
  BY <1>9, <1>17 DEF ApartOK, Apart
<1>20. InSetup(b, e, qc2)
  BY <1>7 DEF InSetup
<1> QED
  BY <1>1, <1>2, <1>11, <1>12, <1>15, <1>16, <1>18, <1>19, <1>20 DEF Sys
-----------------------------------------------------------------------------
(* From the two entries and the two queues to the variables.               *)

\* No more data than half the sequence numbers, and the caller does not close.
Covered == \A u \in Uses : (\A s \in Node : u.msgs[s] <= Half) /\ Caller \notin u.closers

\* The two nodes.
LEMMA BothEnds == /\ Caller \in Node /\ Callee \in Node /\ Callee # Caller
                  /\ Other(Caller) = Callee /\ Other(Callee) = Caller
                  /\ Node = {Caller, Callee}
<1>1. Caller \in Node /\ Callee \in Node /\ Callee # Caller /\ Node = {Caller, Callee}
  BY OtherIs, CallerAssumption DEF Callee
<1>2. Other(Callee) \in Node /\ Other(Callee) # Callee
  BY <1>1, OtherIs
<1> QED
  BY <1>1, <1>2 DEF Callee

\* No session queues more than half the modulus.
LEMMA MuchIs ==
    ASSUME Covered, TInv
    PROVE  \A s \in Node : use.msgs[s] \in 0..Half
<1>1. use \in Uses /\ use.msgs \in [Node -> Nat]
  BY UseIs DEF TInv, TypeOK
<1>2. \A s \in Node : use.msgs[s] \in Nat /\ use.msgs[s] <= Half
  BY <1>1 DEF Covered
<1> QED
  BY <1>2, ModulusIsNat

\* An end sends something of its own.
LEMMA SendsFlow ==
    ASSUME TInv, NEW s \in Node, NEW r \in Results, Sends(s, r)
    PROVE  /\ sess' = [sess EXCEPT ![s] = r.link] /\ UNCHANGED << NEXTID, restarted, use >>
           /\ Flow(net'[s], net[s], {}) /\ Flow(net'[Other(s)], net[Other(s)], Items(r.out))
           /\ net'[s] = net[s]
<1> DEFINE t == Other(s)
<1>1. t \in Node /\ t # s /\ use \in Uses /\ r.out \in Seq(Msgs)
      /\ net[t] \in Seq(Msgs) /\ net[s] \in Seq(Msgs)
  BY OtherIs DEF TInv, TypeOK, Results
<1>2. net' = [net EXCEPT ![t] = Clip(net[t] \o r.out)]
  BY DEF Sends
<1> HIDE DEF t
<1>3. net'[s] = net[s] /\ net'[t] = Clip(net[t] \o r.out)
  BY <1>1, <1>2 DEF TInv, TypeOK
<1>4. Flow(net'[t], net[t], Items(r.out))
  BY <1>1, <1>3, FlowClip
<1> QED
  BY <1>3, <1>4, FlowSame DEF Sends, t

\* An end takes the next message and says something about it.
LEMMA AnswersFlow ==
    ASSUME TInv, NEW s \in Node, net[s] # << >>, NEW r \in Results, Answers(s, r)
    PROVE  /\ sess' = [sess EXCEPT ![s] = r.link] /\ UNCHANGED << restarted, use >>
           /\ Flow(net'[s], net[s], {}) /\ Flow(net'[Other(s)], net[Other(s)], Items(r.out))
           /\ net'[s] = Tail(net[s])
<1> DEFINE t == Other(s)
<1>1. t \in Node /\ t # s /\ use \in Uses /\ r.out \in Seq(Msgs)
      /\ net[t] \in Seq(Msgs) /\ net[s] \in Seq(Msgs)
  BY OtherIs DEF TInv, TypeOK, Results
<1>2. net' = [[net EXCEPT ![s] = Tail(net[s])] EXCEPT ![t] = Clip(net[t] \o r.out)]
  BY <1>1 DEF Answers, TInv, TypeOK
<1> HIDE DEF t
<1>3. net'[s] = Tail(net[s]) /\ net'[t] = Clip(net[t] \o r.out)
  BY <1>1, <1>2 DEF TInv, TypeOK
<1>4. Flow(net'[t], net[t], Items(r.out)) /\ Flow(net'[s], net[s], {})
  BY <1>1, <1>3, FlowClip, FlowTail
<1> QED
  BY <1>3, <1>4 DEF Answers, t

\* An end carried out a routine.
Acts(s, r) ==
    /\ sess' = [sess EXCEPT ![s] = r.link] /\ UNCHANGED << NEXTID, use >>
    /\ Flow(net'[s], net[s], {}) /\ Flow(net'[Other(s)], net[Other(s)], Items(r.out))

\* CallerStep, of the variables.
LEMMA CallerActs ==
    ASSUME IInv, TInv', Covered, NEW r, Acts(Caller, r), sess[Caller].L4STATE # 0,
           NEW d \in Nat, NEW a \in Nat,
           Moves(sess[Caller], r, use.msgs[Caller], use.msgs[Callee], d, a),
           Linked(sess[Caller], sess[Callee]) =>
               d <= sess[Callee].sent /\ a <= Len(sess[Callee].RX),
           sess[Caller].L4STATE = 2 => d = 0,
           \/ Calm(sess[Caller], r.link)
           \/ Items(net'[Caller]) = {} /\ Items(net[Callee]) = {} /\ sess[Caller].L4STATE # 2
    PROVE  State'
<1>1. use.msgs[Caller] \in 0..Half /\ use.msgs[Callee] \in 0..Half
  BY MuchIs, BothEnds DEF IInv
<1>2. /\ net[Caller] \in Seq(Msgs) /\ net[Callee] \in Seq(Msgs)
      /\ net'[Caller] \in Seq(Msgs) /\ net'[Callee] \in Seq(Msgs)
  BY BothEnds DEF IInv, TInv, TypeOK
<1>3. sess'[Caller] = r.link /\ sess'[Callee] = sess[Callee] /\ UNCHANGED << NEXTID, use >>
  BY BothEnds DEF Acts, IInv, TInv, TypeOK
<1>4. Flow(net'[Caller], net[Caller], {}) /\ Flow(net'[Callee], net[Callee], Items(r.out))
  BY BothEnds DEF Acts
<1>5. Sys(sess[Caller], sess[Callee], net[Caller], net[Callee], NEXTID[Callee],
          use.msgs[Caller], use.msgs[Callee])
  BY DEF IInv, State
<1>6. Sys(r.link, sess[Callee], net'[Caller], net'[Callee], NEXTID[Callee],
          use.msgs[Caller], use.msgs[Callee])
  BY <1>1, <1>2, <1>4, <1>5, CallerStep
<1> QED
  BY <1>3, <1>6 DEF State

\* CalleeStep, of the variables.
LEMMA CalleeActs ==
    ASSUME IInv, TInv', Covered, NEW r, Acts(Callee, r), sess[Callee].L4STATE # 0,
           NEW d \in Nat, NEW a \in Nat,
           Moves(sess[Callee], r, use.msgs[Callee], use.msgs[Caller], d, a),
           Linked(sess[Caller], sess[Callee]) =>
               d <= sess[Caller].sent /\ a <= Len(sess[Caller].RX),
           Apart(sess[Caller], sess[Callee]) => d = 0 /\ a = 0
    PROVE  State'
<1>1. use.msgs[Caller] \in 0..Half /\ use.msgs[Callee] \in 0..Half
  BY MuchIs, BothEnds DEF IInv
<1>2. /\ net[Caller] \in Seq(Msgs) /\ net[Callee] \in Seq(Msgs)
      /\ net'[Caller] \in Seq(Msgs) /\ net'[Callee] \in Seq(Msgs)
  BY BothEnds DEF IInv, TInv, TypeOK
<1>3. sess'[Callee] = r.link /\ sess'[Caller] = sess[Caller] /\ UNCHANGED << NEXTID, use >>
  BY BothEnds DEF Acts, IInv, TInv, TypeOK
<1>4. Flow(net'[Callee], net[Callee], {}) /\ Flow(net'[Caller], net[Caller], Items(r.out))
  BY BothEnds DEF Acts
<1>5. Sys(sess[Caller], sess[Callee], net[Caller], net[Callee], NEXTID[Callee],
          use.msgs[Caller], use.msgs[Callee])
  BY DEF IInv, State
<1>6. Sys(sess[Caller], r.link, net'[Caller], net'[Callee], NEXTID[Callee],
          use.msgs[Caller], use.msgs[Callee])
  BY <1>1, <1>2, <1>4, <1>5, CalleeStep
<1> QED
  BY <1>3, <1>6 DEF State

\* A message is taken or lost and neither entry changes.
LEMMA NobodyActs ==
    ASSUME IInv, TInv', UNCHANGED << sess, NEXTID, use >>, NEW fc, NEW fe,
           Flow(net'[Caller], net[Caller], fc), Flow(net'[Callee], net[Callee], fe),
           \A f \in fc : /\ f.type \notin {"CREQ", "INFO", "IACK"}
                         /\ f.type = "CACK" => /\ f.rx < NEXTID[Callee] /\ (f.busy \/ f.rx # NoId)
                                               /\ sess[Caller].L4STATE # 0 => ~Closing(sess[Caller]),
           \A f \in fe : f.type \notin {"CACK", "CREQ", "INFO", "IACK"}
    PROVE  State'
<1>1. /\ net[Caller] \in Seq(Msgs) /\ net[Callee] \in Seq(Msgs)
      /\ net'[Caller] \in Seq(Msgs) /\ net'[Callee] \in Seq(Msgs)
  BY BothEnds DEF IInv, TInv, TypeOK
<1>2. Sys(sess[Caller], sess[Callee], net[Caller], net[Callee], NEXTID[Callee],
          use.msgs[Caller], use.msgs[Callee])
  BY DEF IInv, State
<1>3. Sys(sess[Caller], sess[Callee], net'[Caller], net'[Callee], NEXTID[Callee],
          use.msgs[Caller], use.msgs[Callee])
  BY <1>1, <1>2, QuietStep
<1> QED
  BY <1>3 DEF State
-----------------------------------------------------------------------------
(* One lemma for each action.                                              *)

\* The parts of the invariant.
LEMMA EndsAre ==
    ASSUME IInv
    PROVE  /\ CallerIds(sess[Caller], NEXTID[Callee]) /\ CalleeIds(sess[Callee], NEXTID[Callee])
           /\ ToCaller(sess[Caller], net[Caller], NEXTID[Callee], use.msgs[Callee])
           /\ ToCallee(sess[Caller], sess[Callee], net[Callee], NEXTID[Callee], use.msgs[Caller])
           /\ LinkedOK(sess[Caller], sess[Callee], net[Caller], net[Callee])
           /\ ApartOK(sess[Caller], sess[Callee])
           /\ \A s \in Node : Entry(sess[s], use.msgs[s], use.msgs[Other(s)])
           /\ \A s \in Node : sess[s].L4STATE = 0 => sess[s] = FreeEntry
           /\ NEXTID[Callee] \in Nat \ {0}
<1>1. /\ CallerIds(sess[Caller], NEXTID[Callee]) /\ CalleeIds(sess[Callee], NEXTID[Callee])
      /\ ToCaller(sess[Caller], net[Caller], NEXTID[Callee], use.msgs[Callee])
      /\ ToCallee(sess[Caller], sess[Callee], net[Callee], NEXTID[Callee], use.msgs[Caller])
      /\ LinkedOK(sess[Caller], sess[Callee], net[Caller], net[Callee])
      /\ ApartOK(sess[Caller], sess[Callee])
      /\ Entry(sess[Caller], use.msgs[Caller], use.msgs[Callee])
      /\ Entry(sess[Callee], use.msgs[Callee], use.msgs[Caller])
      /\ NEXTID[Callee] \in Nat \ {0}
  BY DEF IInv, State, Sys
<1>2. \A s \in Node : Entry(sess[s], use.msgs[s], use.msgs[Other(s)])
  BY <1>1, BothEnds
<1>3. \A s \in Node : sess[s].L4STATE = 0 => sess[s] = FreeEntry
  BY <1>2 DEF Entry, Loose
<1> QED
  BY <1>1, <1>2, <1>3

\* Sends carries out a routine.
LEMMA SendsAct ==
    ASSUME TInv, NEW s \in Node, NEW r \in Results, Sends(s, r)
    PROVE  Acts(s, r) /\ net'[s] = net[s]
  BY SendsFlow DEF Acts

\* So does Answers.
LEMMA AnswersAct ==
    ASSUME TInv, NEW s \in Node, net[s] # << >>, NEW r \in Results, Answers(s, r),
           UNCHANGED NEXTID
    PROVE  Acts(s, r)
  BY AnswersFlow DEF Acts

\* A step in which no data and no acknowledgement comes in.
LEMMA OwnActs ==
    ASSUME IInv, TInv', Covered, NEW s \in Node, NEW r, Acts(s, r), sess[s].L4STATE # 0,
           Moves(sess[s], r, use.msgs[s], use.msgs[Other(s)], 0, 0),
           \/ Calm(sess[s], r.link) \/ s = Callee
           \/ Items(net'[s]) = {} /\ Items(net[Other(s)]) = {} /\ sess[s].L4STATE # 2
    PROVE  State'
<1>1. \A t \in Node : sess[t].sent \in Nat /\ Len(sess[t].RX) \in Nat
  BY EndsAre, EntryIs
<1>2. \A x \in Nat : 0 <= x
  OBVIOUS
<1>3. CASE s = Caller
  BY <1>1, <1>2, <1>3, BothEnds, CallerActs
<1>4. CASE s = Callee
  BY <1>1, <1>2, <1>4, BothEnds, CalleeActs
<1> QED
  BY <1>3, <1>4, BothEnds

\* QueueMessages.
LEMMA QueueKeeps ==
    ASSUME IInv, TInv', Covered, NEW s \in Node, QueueMessages(s) PROVE State'
<1> DEFINE n == sess[s].queued + use.batch
           r == Silent([sess[s] EXCEPT !.queued = n])
<1>1. Entry(sess[s], use.msgs[s], use.msgs[Other(s)]) /\ sess[s].queued \in Nat
  BY EndsAre, EntryIs
<1>2. n \in Nat /\ sess[s].queued <= n /\ n <= use.msgs[s] /\ sess[s].L4STATE = 5
  BY <1>1, UseIs DEF IInv, TInv, TypeOK, QueueMessages
<1>3. Moves(sess[s], r, use.msgs[s], use.msgs[Other(s)], 0, 0) /\ Calm(sess[s], r.link)
  <2> HIDE DEF n
  <2> QED BY <1>1, <1>2, QueueMoves
<1>4. r.link = [sess[s] EXCEPT !.queued = n] /\ r.out = << >>
  BY DEF Silent
<1>5. Acts(s, r)
  <2>1. sess' = [sess EXCEPT ![s] = r.link] /\ UNCHANGED << NEXTID, use, net >>
    BY <1>4 DEF QueueMessages, IInv, TInv
  <2> HIDE DEF r
  <2> QED BY <2>1, FlowSame DEF Acts
<1> HIDE DEF n, r
<1> QED
  BY <1>2, <1>3, <1>5, OwnActs

\* CloseSession, of the called end only.
LEMMA CloseKeeps ==
    ASSUME IInv, TInv', Covered, NEW s \in Node, CloseSession(s) PROVE State'
<1> DEFINE r == CLOSECURRENTSESSION(sess[s])
<1>1. s = Callee
  BY BothEnds DEF Covered, CloseSession, IInv, TInv, TypeOK
<1>2. Entry(sess[s], use.msgs[s], use.msgs[Other(s)]) /\ sess[s] \in Sane
  BY EndsAre, EntryIs
<1>3. sess[s].L4STATE # 0
  <2>1. sess[s].partner
    BY DEF CloseSession
  <2> QED BY <2>1, EndsAre DEF FreeEntry
<1>4. Moves(sess[s], r, use.msgs[s], use.msgs[Other(s)], 0, 0)
  BY <1>2, <1>3, CloseMoves
<1>5. Acts(s, r)
  BY <1>2, CloseIsResult, SendsAct DEF CloseSession, IInv
<1> HIDE DEF r
<1> QED
  BY <1>1, <1>3, <1>4, <1>5, OwnActs

\* SendPass.
LEMMA PassKeeps ==
    ASSUME IInv, TInv', Covered, NEW s \in Node, SendPass(s) PROVE State'
<1>1. PICK busy \in BusyChoice(s) : Sends(s, L4BG(sess[s], busy))
  BY DEF SendPass
<1> DEFINE r == L4BG(sess[s], busy)
<1>2. busy \in BOOLEAN /\ sess[s].L4STATE # 0
  BY BusyIs DEF SendPass, CanSend
<1>3. Entry(sess[s], use.msgs[s], use.msgs[Other(s)]) /\ sess[s] \in Sane /\ use.msgs[s] \in 0..Half
  BY EndsAre, EntryIs, MuchIs DEF IInv
<1>4. r \in Results
  BY <1>2, <1>3, BGIsResult
<1>5. Moves(sess[s], r, use.msgs[s], use.msgs[Other(s)], 0, 0) /\ Calm(sess[s], r.link)
  BY <1>2, <1>3, <1>4, BGMoves DEF Moves
<1>6. Acts(s, r)
  BY <1>1, <1>4, SendsAct DEF IInv
<1> HIDE DEF r
<1> QED
  BY <1>2, <1>5, <1>6, OwnActs

\* RecvCREQ: a repeat, a new circuit, or a refusal.
LEMMA CREQKeeps ==
    ASSUME IInv, TInv', Covered, NEW s \in Node, RecvCREQ(s) PROVE State'
<1> DEFINE f == Head(net[s])
           N == NEXTID[Callee]
           e == sess[Callee]
           c == sess[Caller]
<1>1. net[s] # << >> /\ f \in Msgs /\ f.type = "CREQ" /\ f \in Items(net[s]) /\ TInv
  <2>1. net[s] # << >> /\ f \in Msgs /\ f.type = "CREQ"
    BY HeadIs DEF RecvCREQ, Hears, IInv
  <2>2. net[s] \in Seq(Msgs)
    BY DEF IInv, TInv, TypeOK
  <2>3. f \in Items(net[s])
    BY <2>1, <2>2 DEF Items
  <2> HIDE DEF f
  <2> QED BY <2>1, <2>3 DEF IInv
<1> HIDE DEF f
<1>2. s = Callee
  BY <1>1, BothEnds, EndsAre DEF ToCaller
<1>3. f.id = 1 /\ (c.L4STATE # 0 => ~Closing(c))
  BY <1>1, <1>2, EndsAre DEF ToCallee
<1>4. /\ e \in Sane /\ N \in Nat \ {0}
      /\ CallerIds(c, N) /\ CalleeIds(e, N)
  BY BothEnds, EndsAre, EntryIs
<1>5. \A L \in Sane : [link |-> e, out |-> << CACK(L) >>] \in Results
  <2>1. \A L \in Sane : CACK(L) \in Msgs
    <3>1. 0 \in SeqNo /\ "CACK" \in MsgTypes
      BY ModulusIsNat DEF SeqNo, MsgTypes
    <3>2. \A L \in Sane : L.FARID \in Nat /\ L.CIRCUITID \in Nat
      BY Fields
    <3> QED BY <3>1, <3>2, MsgIsMsg DEF CACK
  <2> HIDE DEF e
  <2> QED BY <1>4, <2>1, OneSent
\* The entry stays as it is and the answer is a CACK.
<1>6. ASSUME NEW g \in Msgs, Answers(s, [link |-> e, out |-> << g >>]), UNCHANGED NEXTID,
             g.type = "CACK", g.rx < N, g.busy \/ g.rx # NoId
      PROVE  State'
  <2>1. [link |-> e, out |-> << g >>] \in Results
    <3> HIDE DEF e
    <3> QED BY <1>4, OneSent
  <2> DEFINE r == [link |-> e, out |-> << g >>]
  <2>2. r.link = e /\ Items(r.out) = {g}
    BY ItemsOf
  <2> HIDE DEF r
  <2>3. /\ sess' = [sess EXCEPT ![s] = r.link] /\ UNCHANGED use
        /\ Flow(net'[s], net[s], {}) /\ Flow(net'[Other(s)], net[Other(s)], Items(r.out))
    BY <1>1, <1>6, <2>1, AnswersFlow DEF r
  <2>4. UNCHANGED << sess, NEXTID, use >>
    BY <1>2, <1>6, <2>2, <2>3 DEF IInv, TInv
  <2>5. Flow(net'[Callee], net[Callee], {}) /\ Flow(net'[Caller], net[Caller], {g})
    BY <1>2, <2>2, <2>3, BothEnds
  <2>6. \A h \in {g} : /\ h.type \notin {"CREQ", "INFO", "IACK"}
                       /\ h.type = "CACK" => /\ h.rx < N /\ (h.busy \/ h.rx # NoId)
                                             /\ c.L4STATE # 0 => ~Closing(c)
    BY <1>3, <1>6
  <2>7. \A h \in {} : h.type \notin {"CACK", "CREQ", "INFO", "IACK"}
    OBVIOUS
  <2> QED BY <2>4, <2>5, <2>6, <2>7, NobodyActs
<1>7. CASE /\ IsRepeatCREQ(s, f)
           /\ Answers(s, [link |-> e, out |-> << CACK(e) >>])
           /\ UNCHANGED NEXTID
  <2>1. e.L4STATE # 0
    BY <1>2, <1>7 DEF IsRepeatCREQ
  <2>2. CACK(e).type = "CACK" /\ CACK(e).rx = e.CIRCUITID
    BY DEF CACK, Msg
  <2>3. CACK(e) \in Msgs
    <3>1. 0 \in SeqNo /\ "CACK" \in MsgTypes
      BY ModulusIsNat DEF SeqNo, MsgTypes
    <3>2. e.FARID \in Nat /\ e.CIRCUITID \in Nat
      BY <1>4, Fields
    <3> QED BY <3>1, <3>2, MsgIsMsg DEF CACK
  <2>4. CACK(e).rx < N /\ CACK(e).rx # NoId
    BY <1>4, <2>1, <2>2 DEF CalleeIds, NoId
  <2> QED BY <1>6, <1>7, <2>2, <2>3, <2>4
<1>8. CASE /\ sess[s].L4STATE = 0
           /\ Answers(s, [link |-> NewEntry(5, NEXTID[s], f.id),
                          out |-> << CACK(NewEntry(5, NEXTID[s], f.id)) >>])
           /\ NEXTID' = [NEXTID EXCEPT ![s] = @ + 1]
  <2> DEFINE b == NewEntry(5, N, 1)
             r == [link |-> b, out |-> << CACK(b) >>]
  <2>1. b \in Sane
    BY <1>4, NewIsSane
  <2>2. r \in Results
    <3>1. 0 \in SeqNo /\ "CACK" \in MsgTypes
      BY ModulusIsNat DEF SeqNo, MsgTypes
    <3>2. b.FARID \in Nat /\ b.CIRCUITID \in Nat
      BY <2>1, Fields
    <3> HIDE DEF b
    <3>3. CACK(b) \in Msgs
      BY <3>1, <3>2, MsgIsMsg DEF CACK
    <3> QED BY <2>1, <3>3, OneSent
  <2>3. Answers(s, r)
    BY <1>2, <1>3, <1>8
  <2>4. r.link = b /\ Items(r.out) = {CACK(b)}
    BY ItemsOf
  <2> HIDE DEF r
  <2>5. /\ sess' = [sess EXCEPT ![s] = r.link] /\ UNCHANGED use
        /\ Flow(net'[s], net[s], {}) /\ Flow(net'[Other(s)], net[Other(s)], Items(r.out))
    BY <1>1, <2>2, <2>3, AnswersFlow
  <2>6. Flow(net'[Callee], net[Callee], {}) /\ Flow(net'[Caller], net[Caller], {CACK(b)})
    BY <1>2, <2>4, <2>5, BothEnds
  <2>7. sess'[Callee] = b /\ sess'[Caller] = c /\ NEXTID'[Callee] = N + 1 /\ use' = use
    BY <1>2, <1>8, <2>4, <2>5, BothEnds DEF IInv, TInv, TypeOK
  <2>8. use.msgs[Caller] \in 0..Half /\ use.msgs[Callee] \in 0..Half
    BY MuchIs, BothEnds DEF IInv
  <2>9. /\ net[Caller] \in Seq(Msgs) /\ net[Callee] \in Seq(Msgs)
        /\ net'[Caller] \in Seq(Msgs) /\ net'[Callee] \in Seq(Msgs)
    BY BothEnds DEF IInv, TInv, TypeOK
  <2>10. Sys(c, e, net[Caller], net[Callee], N, use.msgs[Caller], use.msgs[Callee])
    BY DEF IInv, State
  <2>11. e.L4STATE = 0
    BY <1>2, <1>8
  <2>12. Sys(c, b, net'[Caller], net'[Callee], N + 1, use.msgs[Caller], use.msgs[Callee])
    <3> HIDE DEF c, e, N
    <3> QED BY <1>3, <2>6, <2>8, <2>9, <2>10, <2>11, TakenStep
  <2> QED BY <2>7, <2>12 DEF State
<1>9. CASE /\ Answers(s, [link |-> e, out |-> << Msg("CACK", f.id, 0, 0, TRUE, FALSE, 0) >>])
           /\ UNCHANGED NEXTID
  <2> DEFINE g == Msg("CACK", f.id, 0, 0, TRUE, FALSE, 0)
  <2>1. g.type = "CACK" /\ g.rx = 0 /\ g.busy = TRUE
    BY DEF Msg
  <2>2. g \in Msgs
    <3>1. 0 \in SeqNo /\ "CACK" \in MsgTypes /\ f.id \in Nat
      BY <1>3, ModulusIsNat DEF SeqNo, MsgTypes
    <3> QED BY <3>1, MsgIsMsg
  <2>3. 0 < N
    BY <1>4
  <2> HIDE DEF g
  <2> QED BY <1>6, <1>9, <2>1, <2>2, <2>3 DEF g
<1> QED
  BY <1>2, <1>7, <1>8, <1>9 DEF RecvCREQ, f
\* The next message for the session of s.
LEMMA NextIs ==
    ASSUME IInv, NEW s \in Node, NEW types, RecvForSession(s, types)
    PROVE  LET f == Head(net[s]) IN
           /\ net[s] # << >> /\ f \in Msgs /\ f \in Items(net[s]) /\ f.type \in types
           /\ f.rx \in Nat /\ f.m \in Nat
           /\ sess[s].L4STATE # 0 /\ sess[s].CIRCUITID = f.id /\ sess[s] \in Sane
           /\ UNCHANGED NEXTID
           /\ \E busy \in BOOLEAN : Answers(s, Handle(sess[s], f, busy))
<1> DEFINE f == Head(net[s])
<1>1. net[s] # << >> /\ f \in Msgs /\ f.type \in types /\ sess[s] \in Sane
  BY HeadIs DEF RecvForSession, Hears, IInv
<1>2. net[s] \in Seq(Msgs)
  BY DEF IInv, TInv, TypeOK
<1>3. f \in Items(net[s])
  BY <1>1, <1>2 DEF Items
<1>4. f.rx \in Nat /\ f.m \in Nat
  BY <1>2, <1>3, ItemIs
<1>5. sess[s].L4STATE # 0 /\ sess[s].CIRCUITID = f.id /\ UNCHANGED NEXTID
  BY DEF RecvForSession, IsForSession
<1>6. \E busy \in BOOLEAN : Answers(s, Handle(sess[s], f, busy))
  BY BusyIs DEF RecvForSession
<1> QED
  BY <1>1, <1>3, <1>4, <1>5, <1>6

\* Data for the calling end.
LEMMA CallerData ==
    ASSUME IInv, TInv', Covered, RecvData(Caller) PROVE State'
<1> DEFINE f == Head(net[Caller])
           c == sess[Caller]
           e == sess[Callee]
           mc == use.msgs[Caller]
           me == use.msgs[Callee]
<1>1. /\ Caller \in Node /\ net[Caller] # << >> /\ f \in Msgs /\ f \in Items(net[Caller])
      /\ f.type \in {"INFO", "IACK"}
      /\ f.rx \in Nat /\ f.m \in Nat /\ c.L4STATE # 0 /\ c \in Sane /\ UNCHANGED NEXTID
  BY BothEnds, NextIs DEF RecvData
<1>2. PICK busy \in BOOLEAN : Answers(Caller, Handle(c, f, busy))
  BY BothEnds, NextIs DEF RecvData
<1>3. Entry(c, mc, me) /\ mc \in 0..Half /\ me \in 0..Half
  BY BothEnds, EndsAre, MuchIs DEF IInv
<1> DEFINE r == Handle(c, f, busy)
<1> HIDE DEF f
<1>4. /\ f.rx <= c.sent
      /\ f.type = "INFO" => f.m = f.tx + 1 /\ f.m <= me /\ f.m <= Len(c.RX) + L4WINDOW + 1
  BY <1>1, EndsAre DEF ToCaller, IsAck
<1>5. Linked(c, e) => f.rx <= Len(e.RX) /\ (f.type = "INFO" => f.m <= e.sent)
  BY <1>1, EndsAre DEF LinkedOK, EndOK, IsAck
<1>6. e.sent \in Nat /\ Len(e.RX) \in Nat
  BY BothEnds, EndsAre, EntryIs
<1>7. r \in Results
  <2> HIDE DEF c
  <2> QED BY <1>1, HandleIsResult
<1>8. Acts(Caller, r)
  BY <1>1, <1>2, <1>7, AnswersAct DEF IInv
<1> HIDE DEF r
<1>9. \A x \in Nat : 0 <= x
  OBVIOUS
<1>10. CASE f.type = "IACK"
  <2>1. r = ACKFRAMES(c, f)
    BY <1>10 DEF r, Handle
  <2>2. Moves(c, r, mc, me, 0, f.rx) /\ Calm(c, r.link)
    <3> HIDE DEF c, mc, me
    <3> QED BY <1>1, <1>3, <1>4, <2>1, AckMoves
  <2> QED BY <1>1, <1>5, <1>6, <1>8, <1>9, <2>2, CallerActs
<1>11. CASE f.type = "INFO" /\ c.L4STATE # 2
  <2>1. r = RecvINFO(c, f, busy)
    BY <1>11 DEF r, Handle
  <2>2. Moves(c, r, mc, me, f.m, f.rx) /\ Calm(c, r.link)
    <3> HIDE DEF c, mc, me
    <3> QED BY <1>1, <1>3, <1>4, <1>11, <2>1, INFOMoves
  <2> QED BY <1>1, <1>5, <1>8, <1>11, <2>2, CallerActs
<1>12. CASE f.type = "INFO" /\ c.L4STATE = 2
  <2>1. r = Silent(c)
    BY <1>12 DEF r, Handle, RecvINFO
  <2>2. Same(c, c) /\ Calm(c, c) /\ Silent(c).link = c
    BY DEF Same, Keeps, Calm, Silent
  <2>3. Moves(c, r, mc, me, 0, 0) /\ Calm(c, r.link)
    <3> HIDE DEF c, mc, me
    <3> QED BY <1>1, <1>3, <1>7, <2>1, <2>2, SilentMoves DEF Moves
  <2> QED BY <1>1, <1>8, <2>3, OwnActs, BothEnds
<1> QED
  BY <1>1, <1>10, <1>11, <1>12

\* Data for the called end: never from a circuit it is not an end of.
LEMMA CalleeData ==
    ASSUME IInv, TInv', Covered, RecvData(Callee) PROVE State'
<1> DEFINE f == Head(net[Callee])
           c == sess[Caller]
           e == sess[Callee]
           mc == use.msgs[Caller]
           me == use.msgs[Callee]
<1>1. /\ Callee \in Node /\ net[Callee] # << >> /\ f \in Msgs /\ f \in Items(net[Callee])
      /\ f.type \in {"INFO", "IACK"}
      /\ f.rx \in Nat /\ f.m \in Nat /\ e.L4STATE # 0 /\ e \in Sane /\ UNCHANGED NEXTID
      /\ e.CIRCUITID = f.id
  BY BothEnds, NextIs DEF RecvData
<1>2. PICK busy \in BOOLEAN : Answers(Callee, Handle(e, f, busy))
  BY BothEnds, NextIs DEF RecvData
<1>3. Entry(e, me, mc) /\ mc \in 0..Half /\ me \in 0..Half
  BY BothEnds, EndsAre, MuchIs DEF IInv
<1> DEFINE r == Handle(e, f, busy)
<1> HIDE DEF f
<1>4. /\ f.rx <= e.sent
      /\ f.type = "INFO" => f.m = f.tx + 1 /\ f.m <= mc /\ f.m <= Len(e.RX) + L4WINDOW + 1
  BY <1>1, EndsAre DEF ToCallee, IsAck
<1>5. Linked(c, e) => f.rx <= Len(c.RX) /\ (f.type = "INFO" => f.m <= c.sent)
  <2>1. f \in For(e, net[Callee])
    BY <1>1 DEF For
  <2> QED BY <1>1, <2>1, EndsAre DEF LinkedOK, EndOK, IsAck
<1>6. ~Apart(c, e)
  <2> SUFFICES ASSUME Apart(c, e) PROVE FALSE
    OBVIOUS
  <2>1. f.id \in {NoId, c.FARID} /\ e.CIRCUITID # NoId
    BY <1>1, EndsAre DEF ToCallee, IsAck, Apart, CalleeIds, NoId
  <2> QED BY <1>1, <2>1 DEF Apart
<1>7. c.sent \in Nat /\ Len(c.RX) \in Nat
  BY BothEnds, EndsAre, EntryIs
<1>8. r \in Results
  <2> HIDE DEF e
  <2> QED BY <1>1, HandleIsResult
<1>9. Acts(Callee, r)
  BY <1>1, <1>2, <1>8, AnswersAct DEF IInv
<1> HIDE DEF r
<1>10. \A x \in Nat : 0 <= x
  OBVIOUS
<1>11. CASE f.type = "IACK"
  <2>1. r = ACKFRAMES(e, f)
    BY <1>11 DEF r, Handle
  <2>2. Moves(e, r, me, mc, 0, f.rx)
    <3> HIDE DEF e, mc, me
    <3> QED BY <1>1, <1>3, <1>4, <2>1, AckMoves
  <2> QED BY <1>1, <1>5, <1>6, <1>7, <1>9, <1>10, <2>2, CalleeActs
<1>12. CASE f.type = "INFO"
  <2>1. r = RecvINFO(e, f, busy)
    BY <1>12 DEF r, Handle
  <2>2. Moves(e, r, me, mc, f.m, f.rx)
    <3> HIDE DEF e, mc, me
    <3> QED BY <1>1, <1>3, <1>4, <1>12, <2>1, INFOMoves
  <2> QED BY <1>1, <1>5, <1>6, <1>9, <1>12, <2>2, CalleeActs
<1> QED
  BY <1>1, <1>11, <1>12

\* The answer of the call: refused, a repeat, or the circuit is up.
LEMMA CACKKeeps ==
    ASSUME IInv, TInv', Covered, NEW s \in Node, RecvConnect(s) PROVE State'
<1> DEFINE f == Head(net[s])
           c == sess[Caller]
           e == sess[Callee]
           r == RecvCACK(c, f)
<1>1. /\ net[s] # << >> /\ f \in Msgs /\ f \in Items(net[s]) /\ f.type = "CACK"
      /\ f.rx \in Nat /\ sess[s].L4STATE # 0 /\ sess[s] \in Sane /\ UNCHANGED NEXTID
  BY NextIs DEF RecvConnect
<1>2. s = Caller
  <2> HIDE DEF f
  <2> QED BY <1>1, BothEnds, EndsAre DEF ToCallee
<1>3. Answers(s, r)
  <2>1. PICK busy \in BOOLEAN : Answers(s, Handle(sess[s], f, busy))
    BY NextIs DEF RecvConnect
  <2> QED BY <1>1, <1>2, <2>1 DEF Handle
<1> HIDE DEF f
<1>4. c.L4STATE # 0 /\ ~Closing(c)
  BY <1>1, <1>2, EndsAre DEF ToCaller
<1>5. c.L4STATE \in {2, 5} /\ c \in Sane
  BY <1>1, <1>2, <1>4, Fields DEF Closing
<1>6. r \in Results
  <2> HIDE DEF c
  <2> QED BY <1>1, <1>5, CACKIsResult
<1>7. Acts(s, r)
  <2> HIDE DEF r
  <2> QED BY <1>1, <1>3, <1>6, AnswersAct DEF IInv
<1>8. Entry(c, use.msgs[Caller], use.msgs[Callee])
  BY BothEnds, EndsAre
<1>9. CASE f.busy
  <2>1. r = Silent(CLEARSESSIONENTRY)
    BY <1>9 DEF RecvCACK
  <2>2. Moves(c, r, use.msgs[Caller], use.msgs[Callee], 0, 0) /\ Calm(c, r.link)
    BY <2>1, ClearMoves, ClearIsCalm
  <2> HIDE DEF r
  <2> QED BY <1>2, <1>4, <1>7, <2>2, OwnActs, BothEnds
<1>10. CASE ~f.busy /\ c.L4STATE = 5
  <2>1. r = Silent(c)
    BY <1>10 DEF RecvCACK
  <2>2. Same(c, c) /\ Calm(c, c) /\ Silent(c).link = c
    BY DEF Same, Keeps, Calm, Silent
  <2>3. Moves(c, r, use.msgs[Caller], use.msgs[Callee], 0, 0) /\ Calm(c, r.link)
    <3> HIDE DEF c
    <3> QED BY <1>4, <1>5, <1>6, <1>8, <2>1, <2>2, SilentMoves DEF Moves
  <2> HIDE DEF r
  <2> QED BY <1>2, <1>4, <1>7, <2>3, OwnActs, BothEnds
<1>11. CASE ~f.busy /\ c.L4STATE = 2
  <2>1. r.out = << >>
    BY <1>11 DEF RecvCACK, Silent
  <2>2. Items(r.out) = {}
    BY <2>1, ItemsOf
  <2>3. /\ sess' = [sess EXCEPT ![s] = r.link] /\ UNCHANGED use
        /\ Flow(net'[Other(s)], net[Other(s)], Items(r.out)) /\ net'[s] = Tail(net[s])
    <3> HIDE DEF r
    <3> QED BY <1>1, <1>3, <1>6, AnswersFlow DEF IInv
  <2>4. /\ sess'[Caller] = r.link /\ sess'[Callee] = e /\ UNCHANGED << NEXTID, use >>
        /\ Flow(net'[Callee], net[Callee], {}) /\ net'[Caller] = Tail(net[Caller])
    <3> HIDE DEF r
    <3> QED BY <1>1, <1>2, <2>2, <2>3, BothEnds DEF IInv, TInv, TypeOK
  <2>5. use.msgs[Caller] \in 0..Half /\ use.msgs[Callee] \in 0..Half
    BY MuchIs, BothEnds DEF IInv
  <2>6. /\ net[Caller] \in Seq(Msgs) /\ net[Callee] \in Seq(Msgs)
        /\ net'[Caller] \in Seq(Msgs) /\ net'[Callee] \in Seq(Msgs)
    BY BothEnds DEF IInv, TInv, TypeOK
  <2>7. Sys(c, e, net[Caller], net[Callee], NEXTID[Callee], use.msgs[Caller], use.msgs[Callee])
    BY DEF IInv, State
  <2>8. net[Caller] # << >> /\ f = Head(net[Caller])
    BY <1>1, <1>2 DEF f
  <2>9. Sys(r.link, e, net'[Caller], net'[Callee], NEXTID[Callee],
            use.msgs[Caller], use.msgs[Callee])
    <3> HIDE DEF c, e
    <3> QED BY <1>1, <1>11, <2>4, <2>5, <2>6, <2>7, <2>8, AnswerStep
  <2> QED BY <2>4, <2>9 DEF State
<1> QED
  BY <1>5, <1>9, <1>10, <1>11

\* The other end wants to close, or has closed.
LEMMA DREQKeeps ==
    ASSUME IInv, TInv', Covered, NEW s \in Node, RecvClose(s) PROVE State'
<1> DEFINE f == Head(net[s])
<1>1. /\ net[s] # << >> /\ f \in Msgs /\ f.type \in {"DREQ", "DACK"}
      /\ sess[s].L4STATE # 0 /\ sess[s] \in Sane /\ UNCHANGED NEXTID
  BY NextIs DEF RecvClose
<1>2. PICK busy \in BOOLEAN : Answers(s, Handle(sess[s], f, busy))
  BY NextIs DEF RecvClose
<1> DEFINE r == Handle(sess[s], f, busy)
<1>3. r \in Results
  <2> HIDE DEF f
  <2> QED BY <1>1, HandleIsResult
<1>4. Acts(s, r)
  BY <1>1, <1>2, <1>3, AnswersAct DEF IInv
<1>5. r = RecvDREQ(sess[s]) \/ r = Silent(CLEARSESSIONENTRY)
  BY <1>1 DEF Handle
<1> HIDE DEF r
<1>6. Entry(sess[s], use.msgs[s], use.msgs[Other(s)])
  BY EndsAre
<1>7. Moves(sess[s], r, use.msgs[s], use.msgs[Other(s)], 0, 0) /\ Calm(sess[s], r.link)
  BY <1>5, <1>6, DREQMoves, ClearMoves, ClearIsCalm
<1> QED
  BY <1>1, <1>4, <1>7, OwnActs
\* A message for a session there is not.
LEMMA NoSessionKeeps ==
    ASSUME IInv, TInv', NEW s \in Node, RecvNoSession(s) PROVE State'
<1> DEFINE g == Control("RESET", Head(net[s]).id)
           r == [link |-> sess[s], out |-> << g >>]
<1>1. net[s] # << >> /\ sess[s] \in Sane /\ Head(net[s]).id \in Nat
  BY HeadIs DEF RecvNoSession, Hears, IInv
<1>2. g \in Msgs /\ g.type = "RESET"
  BY <1>1, ControlIsMsg DEF MsgTypes, Control, Msg
<1>3. Answers(s, r) /\ UNCHANGED NEXTID
  BY DEF RecvNoSession
<1> HIDE DEF g
<1>4. r \in Results /\ r.link = sess[s] /\ Items(r.out) = {g}
  BY <1>1, <1>2, OneSent, ItemsOf
<1> HIDE DEF r
<1>5. /\ sess' = [sess EXCEPT ![s] = r.link] /\ UNCHANGED use
      /\ Flow(net'[s], net[s], {}) /\ Flow(net'[Other(s)], net[Other(s)], {g})
  BY <1>1, <1>3, <1>4, AnswersFlow DEF IInv
<1>6. UNCHANGED << sess, NEXTID, use >>
  BY <1>3, <1>4, <1>5 DEF IInv, TInv
<1>7. \A h \in {g} : h.type = "RESET"
  BY <1>2
<1>8. CASE s = Caller
  BY <1>5, <1>6, <1>7, <1>8, BothEnds, NobodyActs
<1>9. CASE s = Callee
  BY <1>5, <1>6, <1>7, <1>9, BothEnds, NobodyActs
<1> QED
  BY <1>8, <1>9, BothEnds

\* RecvRESET.
LEMMA RESETKeeps ==
    ASSUME IInv, TInv', Covered, NEW s \in Node, RecvRESET(s) PROVE State'
<1> DEFINE known == sess[s].L4STATE # 0 /\ sess[s].FARID = Head(net[s]).id
           r == Silent(IF known THEN CLEARSESSIONENTRY ELSE sess[s])
<1>1. net[s] # << >> /\ sess[s] \in Sane
  BY HeadIs DEF RecvRESET, Hears, IInv
<1>2. Answers(s, r) /\ UNCHANGED NEXTID
  BY DEF RecvRESET
<1>3. r \in Results
  BY <1>1, SilentIsResult, FreeIsSane DEF CLEARSESSIONENTRY
<1>4. CASE known
  <2>1. r = Silent(CLEARSESSIONENTRY) /\ sess[s].L4STATE # 0
    BY <1>4
  <2> HIDE DEF r
  <2>2. Acts(s, r)
    BY <1>1, <1>2, <1>3, AnswersAct DEF IInv
  <2>3. Moves(sess[s], r, use.msgs[s], use.msgs[Other(s)], 0, 0) /\ Calm(sess[s], r.link)
    BY <2>1, ClearMoves, ClearIsCalm
  <2> QED BY <2>1, <2>2, <2>3, OwnActs
<1>5. CASE ~known
  <2>1. r.link = sess[s] /\ Items(r.out) = {}
    BY <1>5, ItemsOf DEF Silent
  <2> HIDE DEF r, known
  <2>2. /\ sess' = [sess EXCEPT ![s] = r.link] /\ UNCHANGED use
        /\ Flow(net'[s], net[s], {}) /\ Flow(net'[Other(s)], net[Other(s)], {})
    BY <1>1, <1>2, <1>3, <2>1, AnswersFlow DEF IInv
  <2>3. UNCHANGED << sess, NEXTID, use >>
    BY <1>2, <2>1, <2>2 DEF IInv, TInv
  <2>4. Flow(net'[Caller], net[Caller], {}) /\ Flow(net'[Callee], net[Callee], {})
    BY <2>2, BothEnds
  <2> QED BY <2>3, <2>4, NobodyActs
<1> QED
  BY <1>4, <1>5

\* LoseMessage.
LEMMA LoseKeeps ==
    ASSUME IInv, TInv', NEW s \in Node, LoseMessage(s) PROVE State'
<1>1. net' = [net EXCEPT ![s] = Tail(net[s])] /\ net[s] # << >> /\ UNCHANGED << sess, NEXTID, use >>
  BY DEF LoseMessage
<1>2. net \in [Node -> Seq(Msgs)]
  BY DEF IInv, TInv, TypeOK
<1>3. \A t \in Node : Flow(net'[t], net[t], {})
  <2>1. ASSUME NEW t \in Node, t = s PROVE Flow(net'[t], net[t], {})
    <3>1. net'[t] = Tail(net[t]) /\ net[t] # << >> /\ net[t] \in Seq(Msgs)
      BY <1>1, <1>2, <2>1
    <3> QED BY <3>1, FlowTail
  <2>2. ASSUME NEW t \in Node, t # s PROVE Flow(net'[t], net[t], {})
    <3>1. net'[t] = net[t]
      BY <1>1, <1>2, <2>2
    <3> QED BY <3>1, FlowSame
  <2> QED BY <2>1, <2>2
<1> QED
  BY <1>1, <1>3, BothEnds, NobodyActs

\* TimerExpires.
LEMMA TimerKeeps ==
    ASSUME IInv, TInv', Covered, NEW s \in Node, TimerExpires(s) PROVE State'
<1> DEFINE r == L4TIMEOUT(Retried(sess[s]))
<1>1. Entry(sess[s], use.msgs[s], use.msgs[Other(s)]) /\ sess[s] \in Sane
  BY EndsAre, EntryIs
<1>2. sess[s].L4STATE # 0
  <2>1. sess[s].L4TIMER
    BY DEF TimerExpires
  <2> QED BY <2>1, EndsAre DEF FreeEntry
<1>3. r \in Results /\ Sends(s, r)
  BY <1>1, TimeoutIsResult DEF TimerExpires
<1>4. Moves(sess[s], r, use.msgs[s], use.msgs[Other(s)], 0, 0) /\ Calm(sess[s], r.link)
  BY <1>1, <1>2, TimeoutMoves
<1> HIDE DEF r
<1>5. Acts(s, r)
  BY <1>3, SendsAct DEF IInv
<1> QED
  BY <1>2, <1>4, <1>5, OwnActs

\* SendAck.
LEMMA SendAckKeeps ==
    ASSUME IInv, TInv', Covered, NEW s \in Node, SendAck(s) PROVE State'
<1> DEFINE K == [sess[s] EXCEPT !.L4ACKREQ = FALSE]
<1>1. PICK busy \in BOOLEAN : Sends(s, SENDL4IACK(K, busy))
  BY BusyIs DEF SendAck
<1> DEFINE r == SENDL4IACK(K, busy)
<1>2. Entry(sess[s], use.msgs[s], use.msgs[Other(s)]) /\ sess[s] \in Sane
  BY EndsAre, EntryIs
<1>3. sess[s].L4STATE # 0
  <2>1. sess[s].L4ACKREQ
    BY DEF SendAck
  <2> QED BY <2>1, EndsAre DEF FreeEntry
<1>4. Moves(sess[s], r, use.msgs[s], use.msgs[Other(s)], 0, 0) /\ Calm(sess[s], r.link)
  BY <1>2, <1>3, SendAckMoves
<1>5. Sends(s, r)
  BY <1>1
<1> HIDE DEF r
<1>6. r \in Results
  BY <1>4 DEF Moves
<1>7. Acts(s, r)
  BY <1>5, <1>6, SendsAct DEF IInv
<1> QED
  BY <1>3, <1>4, <1>7, OwnActs

\* BusyOver.
LEMMA BusyOverKeeps ==
    ASSUME IInv, TInv', Covered, NEW s \in Node, BusyOver(s) PROVE State'
<1> DEFINE r == Silent(FreeAgain(sess[s]))
<1>1. Entry(sess[s], use.msgs[s], use.msgs[Other(s)])
  BY EndsAre
<1>2. sess[s].L4STATE # 0
  <2>1. sess[s].told
    BY DEF BusyOver
  <2> QED BY <2>1, EndsAre DEF FreeEntry
<1>3. Moves(sess[s], r, use.msgs[s], use.msgs[Other(s)], 0, 0) /\ Calm(sess[s], r.link)
  BY <1>1, <1>2, FreeAgainMoves
<1>4. Sends(s, r)
  BY DEF BusyOver
<1> HIDE DEF r
<1>5. r \in Results
  BY <1>3 DEF Moves
<1>6. Acts(s, r)
  BY <1>4, <1>5, SendsAct DEF IInv
<1> QED
  BY <1>2, <1>3, <1>6, OwnActs

\* The circuit is idle: what is on its way is nothing.
LEMMA KillKeeps ==
    ASSUME IInv, TInv', Covered, NEW s \in Node, KillTimer(s) PROVE State'
<1> DEFINE r == CLOSECURRENTSESSION(sess[s])
<1>1. Entry(sess[s], use.msgs[s], use.msgs[Other(s)]) /\ sess[s] \in Sane
  BY EndsAre, EntryIs
<1>2. sess[s].L4STATE # 0 /\ \A t \in Node : net[t] = << >>
  BY DEF KillTimer, Idle
<1>3. r \in Results /\ Sends(s, r)
  BY <1>1, CloseIsResult DEF KillTimer
<1>4. /\ Moves(sess[s], r, use.msgs[s], use.msgs[Other(s)], 0, 0)
      /\ sess[s].L4STATE = 2 /\ sess[s].queued = 0 => Calm(sess[s], r.link)
  BY <1>1, <1>2, CloseMoves
<1> HIDE DEF r
<1>5. Acts(s, r) /\ net'[s] = net[s]
  BY <1>3, SendsAct DEF IInv
<1>6. Items(net'[s]) = {} /\ Items(net[Other(s)]) = {}
  BY <1>2, <1>5, OtherIs, ItemsOf
<1>7. CASE s = Callee
  BY <1>2, <1>4, <1>5, <1>7, OwnActs
<1>8. CASE s = Caller
  <2>1. sess[s].L4STATE = 2 => sess[s].queued = 0
    BY <1>8, EndsAre DEF CallerIds
  <2> QED BY <1>2, <1>4, <1>5, <1>6, <2>1, OwnActs
<1> QED
  BY <1>7, <1>8, BothEnds

\* Restart.
LEMMA RestartKeeps ==
    ASSUME IInv, TInv', Covered, NEW s \in Node, Restart(s) PROVE State'
<1> DEFINE r == Silent(CLEARSESSIONENTRY)
<1>1. sess' = [sess EXCEPT ![s] = FreeEntry] /\ UNCHANGED << net, NEXTID, use >>
  BY DEF Restart
<1>2. CASE sess[s].L4STATE = 0
  <2>1. sess' = sess
    BY <1>1, <1>2, EndsAre DEF IInv, TInv
  <2>2. Flow(net'[Caller], net[Caller], {}) /\ Flow(net'[Callee], net[Callee], {})
    BY <1>1, FlowSame
  <2> QED BY <1>1, <2>1, <2>2, NobodyActs
<1>3. CASE sess[s].L4STATE # 0
  <2>1. Moves(sess[s], r, use.msgs[s], use.msgs[Other(s)], 0, 0) /\ Calm(sess[s], r.link)
    BY ClearMoves, ClearIsCalm
  <2>2. r.link = FreeEntry
    BY DEF Silent, CLEARSESSIONENTRY
  <2> HIDE DEF r
  <2>3. Acts(s, r)
    BY <1>1, <2>2, FlowSame DEF Acts
  <2> QED BY <1>3, <2>1, <2>3, OwnActs
<1> QED
  BY <1>2, <1>3
-----------------------------------------------------------------------------
\* The invariant holds at the start.
LEMMA InitState == Init /\ Covered => State
<1> SUFFICES ASSUME Init, Covered PROVE State
  OBVIOUS
<1> DEFINE c == sess[Caller]
           e == sess[Callee]
           L == NewEntry(2, 1, NoId)
           f == Control("CREQ", 1)
<1>1. TInv
  BY InitTyped
<1>2. use.msgs[Caller] \in 0..Half /\ use.msgs[Callee] \in 0..Half
  BY <1>1, MuchIs, BothEnds
<1>3. /\ c = [L EXCEPT !.L4TIMER = TRUE] /\ e = FreeEntry /\ net[Caller] = << >>
      /\ net[Callee] = << f >> /\ NEXTID[Callee] = 1
  BY BothEnds DEF Init, SENDL4CONNECT
<1>4. /\ Entry(L, use.msgs[Caller], use.msgs[Callee]) /\ Got(L, 0) /\ L.queued = 0
      /\ ~L.DISCPENDING /\ L.L4STATE = 2 /\ L.CIRCUITID = 1 /\ L.FARID = NoId /\ L \in Sane
  <2>1. NoId \in Nat
    BY DEF NoId
  <2>2. /\ Entry(L, use.msgs[Caller], use.msgs[Callee]) /\ Got(L, 0) /\ L.queued = 0
        /\ ~L.DISCPENDING /\ L.L4STATE = 2 /\ L.CIRCUITID = 1 /\ L.FARID = NoId
    BY <1>2, <2>1, NewIs
  <2> HIDE DEF L
  <2>3. L \in Sane
    BY <2>2, EntryIs
  <2> QED BY <2>2, <2>3
<1>5. c \in Sane /\ Same(L, c) /\ c.DISCPENDING = L.DISCPENDING
  BY <1>3, <1>4 DEF Sane, Entries, Same, Keeps
<1>6. Entry(e, use.msgs[Callee], use.msgs[Caller]) /\ e.L4STATE = 0
  <2>1. FreeEntry.L4STATE = 0
    BY DEF FreeEntry
  <2> QED BY <1>2, <1>3, <2>1, EmptyIs
<1>7. f.type = "CREQ" /\ f.id = 1
  BY DEF Control, Msg
<1>8. Items(net[Caller]) = {} /\ Items(net[Callee]) = {f}
  <2> HIDE DEF f
  <2> QED BY <1>3, ItemsOf
<1> HIDE DEF c, e, L, f
<1>9. Entry(c, use.msgs[Caller], use.msgs[Callee])
  BY <1>4, <1>5, SameKeeps
<1>10. Got(c, 0)
  BY <1>4, <1>5 DEF Same, Keeps, Got
<1>11. CallerIds(c, NEXTID[Callee]) /\ ~Closing(c)
  BY <1>3, <1>4, <1>5, <1>10 DEF CallerIds, Closing, Same, Keeps, NoId
<1>12. CalleeIds(e, NEXTID[Callee])
  BY <1>6 DEF CalleeIds
<1>13. ToCaller(c, net[Caller], NEXTID[Callee], use.msgs[Callee])
  BY <1>8 DEF ToCaller
<1>14. ToCallee(c, e, net[Callee], NEXTID[Callee], use.msgs[Caller])
  BY <1>6, <1>7, <1>8, <1>11 DEF ToCallee, IsAck
<1>15. LinkedOK(c, e, net[Caller], net[Callee]) /\ ApartOK(c, e) /\ InSetup(c, e, net[Caller])
  BY <1>6 DEF LinkedOK, Linked, ApartOK, Apart, InSetup
<1> QED
  BY <1>3, <1>6, <1>9, <1>11, <1>12, <1>13, <1>14, <1>15 DEF State, Sys, c, e

\* Every step keeps the invariant.
LEMMA NextState == IInv /\ Covered /\ TInv' /\ [Next]_vars => State'
<1> SUFFICES ASSUME IInv, Covered, TInv', [Next]_vars PROVE State'
  OBVIOUS
<1>1. CASE UNCHANGED vars
  <2>1. UNCHANGED << sess, NEXTID, use, net >>
    BY <1>1 DEF vars
  <2>2. Flow(net'[Caller], net[Caller], {}) /\ Flow(net'[Callee], net[Callee], {})
    BY <2>1, FlowSame
  <2> QED BY <2>1, <2>2, NobodyActs
<1>2. CASE Next
  <2>1. PICK s \in Node : QueueMessages(s) \/ CloseSession(s) \/ SendPass(s)
                           \/ Receive(s) \/ LoseMessage(s) \/ Timer(s) \/ Restart(s)
    BY <1>2 DEF Next
  <2>2. CASE Receive(s)
    <3>1. CASE RecvData(s)
      BY <3>1, BothEnds, CallerData, CalleeData
    <3> QED BY <2>2, <3>1, CREQKeeps, CACKKeeps, DREQKeeps, NoSessionKeeps, RESETKeeps DEF Receive
  <2>3. CASE Timer(s)
    BY <2>3, TimerKeeps, SendAckKeeps, BusyOverKeeps, KillKeeps DEF Timer
  <2> QED BY <2>1, <2>2, <2>3, QueueKeeps, CloseKeeps, PassKeeps, LoseKeeps, RestartKeeps
<1> QED
  BY <1>1, <1>2

\* So it always holds.
LEMMA Always == Covered => (Spec => []IInv)
<1> SUFFICES ASSUME Covered PROVE Spec => []IInv
  OBVIOUS
<1>1. Init => IInv
  BY InitTyped, InitState DEF IInv
<1>2. IInv /\ [Next]_vars => IInv'
  <2>1. IInv /\ [Next]_vars => TInv'
    BY NextTyped DEF IInv
  <2> QED BY <2>1, NextState DEF IInv
<1> QED
  BY <1>1, <1>2, PTL DEF Spec

\* The copies kept for a retry are the frames that are outstanding, in order, each
\* under its own number, no more than the window test of L4BG lets out: no release,
\* resend, choke or restart makes the hold queue and the window drift apart.
THEOREM HoldQueueIsOutstanding == ASSUME Covered PROVE Spec => []HoldInv
<1>1. ASSUME IInv, NEW s \in Node
      PROVE  LET L == sess[s] IN
             /\ Len(L.L4HOLD_Q) = Outstanding(L) /\ Len(L.L4HOLD_Q) <= L4WINDOW + 1
             /\ \A k \in DOMAIN L.L4HOLD_Q :
                   /\ L.L4HOLD_Q[k].tx = Plus(L.L4WS, k - 1)
                   /\ L.L4HOLD_Q[k].m = L.sent - Len(L.L4HOLD_Q) + k
  <2> DEFINE L == sess[s]
             h == Len(L.L4HOLD_Q)
             a == Acked(L)
  <2>1. Entry(L, use.msgs[s], use.msgs[Other(s)]) /\ use.msgs[s] \in 0..Half
    BY <1>1, EndsAre, MuchIs DEF IInv
  <2>2. /\ L.TXSEQNO = L.sent /\ L.L4WS = a /\ HeldOK(L) /\ L.queued <= use.msgs[s]
        /\ L.L4HOLD_Q \in Seq(Msgs)
    BY <2>1, EntryIs, Fields DEF Entry, Loose
  <2>3. /\ L.sent \in Nat /\ L.queued \in Nat /\ L.sent <= L.queued
        /\ a \in Nat /\ h \in Nat /\ a + h = L.sent
    BY <2>1, EntryIs
  <2>4. L.sent <= Half
    BY <2>1, <2>2, <2>3, ModulusIsNat
  <2>5. \A x \in Nat : x <= L.sent => x % Modulus = x
    BY <2>3, <2>4, NoWrapTo, ModulusIsNat
  <2>6. Outstanding(L) = h
    <3>1. L.TXSEQNO - L.L4WS = h /\ h <= L.sent
      <4> HIDE DEF h, a
      <4> QED BY <2>2, <2>3
    <3> QED BY <2>3, <2>5, <3>1 DEF Outstanding
  <2>7. h <= L4WINDOW + 1
    BY <2>2 DEF HeldOK
  <2>8. ASSUME NEW k \in 1..h
        PROVE  L.L4HOLD_Q[k].tx = Plus(L.L4WS, k - 1) /\ L.L4HOLD_Q[k].m = L.sent - h + k
    <3>1. L.L4HOLD_Q[k].m = a + k /\ L.L4HOLD_Q[k].tx = a + k - 1
      BY <2>2 DEF HeldOK
    <3> HIDE DEF h, a
    <3>2. a + (k - 1) \in Nat /\ a + (k - 1) <= L.sent /\ a + k - 1 = a + (k - 1)
          /\ L.sent - h + k = a + k
      BY <2>3
    <3>3. (a + (k - 1)) % Modulus = a + (k - 1)
      BY <2>5, <3>2
    <3> QED BY <2>2, <3>1, <3>2, <3>3 DEF Plus
  <2>9. DOMAIN L.L4HOLD_Q = 1..h
    BY <2>2
  <2> QED BY <2>6, <2>7, <2>8, <2>9
<1>2. IInv => HoldInv
  BY <1>1 DEF HoldInv
<1> QED
  BY <1>2, Always, PTL

\* ACKFRAMES never frees a frame that the other end has not received, whatever is
\* lost, resent or answered late: the promise that the run l4_oldack shows broken
\* for a session that queues more than Covered allows.
THEOREM AcknowledgedIsReceived == ASSUME Covered PROVE Spec => []AckedIsReceived
<1>1. ASSUME IInv, NEW s \in Node, Joined(s, Other(s))
      PROVE  sess[s].sent - Len(sess[s].L4HOLD_Q) <= Len(sess[Other(s)].RX)
  <2>1. Linked(sess[Caller], sess[Callee])
    BY <1>1, BothEnds DEF Joined, Linked
  <2>2. /\ Acked(sess[Caller]) <= Len(sess[Callee].RX)
        /\ Acked(sess[Callee]) <= Len(sess[Caller].RX)
    BY <1>1, <2>1, EndsAre DEF LinkedOK, EndOK
  <2> QED BY <2>2, BothEnds DEF Acked
<1>2. IInv => AckedIsReceived
  BY <1>1 DEF AckedIsReceived
<1> QED
  BY <1>2, Always, PTL

\* Whatever the window, what IFRM150 was handed is the data in its order, each once,
\* until the search of L4RESEQ_Q has handed on a buffer that is still on the queue.
THEOREM InOrderOrCorrupt ==
    ASSUME Covered
    PROVE  Spec => [](\A s \in Node : sess[s].corrupt \/ \A k \in DOMAIN sess[s].RX : sess[s].RX[k] = k)
<1>1. ASSUME IInv, NEW s \in Node
      PROVE  sess[s].corrupt \/ \A k \in DOMAIN sess[s].RX : sess[s].RX[k] = k
  <2>1. Entry(sess[s], use.msgs[s], use.msgs[Other(s)])
    BY <1>1, EndsAre
  <2>2. sess[s].RX \in Seq(Nat) /\ InSeq(sess[s])
    BY <2>1, EntryIs, Fields DEF Entry, Loose
  <2> QED BY <2>2 DEF InSeq
<1>2. IInv => \A s \in Node : sess[s].corrupt \/ \A k \in DOMAIN sess[s].RX : sess[s].RX[k] = k
  BY <1>1
<1> QED
  BY <1>2, Always, PTL

\* With a window of one that does not happen in a session of at most half the
\* modulus of messages, as Covered has it.
LEMMA WindowOneInOrder == ASSUME Covered, L4WINDOW = 1 PROVE Spec => []InOrder
<1>1. ASSUME IInv, NEW s \in Node
      PROVE  \A k \in DOMAIN sess[s].RX : sess[s].RX[k] = k
  <2>1. Entry(sess[s], use.msgs[s], use.msgs[Other(s)])
    BY <1>1, EndsAre
  <2>2. sess[s].RX \in Seq(Nat) /\ InSeq(sess[s]) /\ ~sess[s].corrupt
    BY <2>1, EntryIs, Fields DEF Entry, Loose, Tight
  <2> QED BY <2>2 DEF InSeq
<1>2. IInv => InOrder
  BY <1>1 DEF InOrder
<1> QED
  BY <1>2, Always, PTL
=============================================================================
