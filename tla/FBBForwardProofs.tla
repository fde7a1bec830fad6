-------------------------- MODULE FBBForwardProofs --------------------------
(***************************************************************************)
(* FBBForward for every set of BBSs, of messages and of networks: a        *)
(* message is marked as forwarded only when the partner has it (NoLoss),   *)
(* and what is stored is what was sent (Whole).  Neither holds by itself   *)
(* from step to step: an answer FS, and a new proposal that comes in place *)
(* of one, mean what they mean only because of what was proposed and what  *)
(* is on its way.  IInv says that: Links is the stage a session has        *)
(* reached, seen from both ends and both wires, and what one end may       *)
(* conclude once the other is gone; Exactness is the frames of a message   *)
(* and its checksum.                                                       *)
(***************************************************************************)
EXTENDS FBBForward, FoldProofs, SequenceTheorems

(***************************************************************************)
(* The types.                                                              *)
(***************************************************************************)
Refused == {"-", "="}
Wanted  == {"+", "!"}
Text    == Line("text")

Replies  == [reply : Refused \cup Wanted, from : Nat]
Headers  == [bid : Messages, FwdMsg : Nat]
Bids     == Messages \cup {NoBid}
Records  == [bid : Messages, status : {"N", "F"}, fbbs : SUBSET BBSs, forw : SUBSET BBSs,
             Defered : Nat, whole : BOOLEAN]
Restarts == [Call : BBSs, bid : Bids, length : Nat, whole : BOOLEAN, Count : Nat]

\* What is sent from one BBS to the other.
Items == [t : {"FA"}, x : Messages] \cup [t : {"FS"}, x : Seq(Replies)]
         \cup [t : {"head"}, x : Nat] \cup [t : {"data"}, x : BOOLEAN]
         \cup [t : {"F>", "FF", "FQ", "text", "eom"}, x : {0}]

\* What a BBS keeps.
Nodes == [MsgHddrPtr : Seq(Records), TempBIDs : SUBSET [bid : Messages, conn : BBSs],
          RestartData : Seq(Restarts), file : Seq(Restarts)]

\* What it keeps of its connection to a partner.
Streams == [Active : BOOLEAN, FBBHeaders : Seq(Headers), FBBMsgsSent : BOOLEAN,
            FBBReplyChars : Seq(Replies), InputMode : {"line", "binary"},
            TempMsg : [bid : Bids, length : Nat, whole : BOOLEAN],
            sumOK : BOOLEAN, DontSaveRestartData : BOOLEAN,
            closing : {"no", "flush", "fq", "disc"},
            NextMessagetoForward : Nat, LastForwardType : {"none", "P", "B"}]

\* The type invariant.
TypeOK == /\ net \in Networks
          /\ bbs \in [BBSs -> Nodes]
          /\ conn \in [BBSs -> [BBSs -> Streams]]
          /\ wire \in [BBSs -> [BBSs -> Seq(Items)]]

-----------------------------------------------------------------------------
\* n has message m.
Has(n, m) == \E i \in DOMAIN n.MsgHddrPtr : n.MsgHddrPtr[i].bid = m

\* The headers H are of n's own messages.
Own(n, H) == \A i \in DOMAIN H : /\ H[i].FwdMsg \in DOMAIN n.MsgHddrPtr
                                 /\ n.MsgHddrPtr[H[i].FwdMsg].bid = H[i].bid

\* On the wire w is core, with lines of text before and after it.
Carries(w, core) ==
    /\ \A i \in 1..Len(core) : core[i].t # "text"
    /\ \E s \in 0..(Len(w) - Len(core)) : \A i \in 1..Len(w) :
         w[i] = IF i > s /\ i <= s + Len(core) THEN core[i - s] ELSE Text

\* On the wire w are k messages, with lines of text before and after.
Load(w, k) ==
    \E e \in [1..k -> 1..Len(w)] :
       /\ \A j \in 1..k : w[e[j]].t = "eom" /\ (j > 1 => e[j - 1] < e[j])
       /\ \A i \in 1..Len(w) :
            /\ w[i].t = "eom" => \E j \in 1..k : e[j] = i
            /\ w[i].t # "text" => \E j \in 1..k : i <= e[j]

\* What may come first on w: nothing, or one of its items.
Fronts(w) == {<< >>} \cup {<< w[k] >> : k \in DOMAIN w}

\* c has no answers to give and receives no message.
Waits(c) == c.FBBReplyChars = << >> /\ c.InputMode = "line"

\* c has nothing to settle, either.
Free(c) == Waits(c) /\ c.FBBHeaders = << >> /\ ~c.FBBMsgsSent

\* r answers the proposals H, and what it says the BBS np has it has.
AnswersOK(np, H, r) == /\ Len(r) = Len(H)
                       /\ \A i \in 1..Len(H) : r[i].reply = "-" => Has(np, H[i].bid)

\* What a stream c to np proposed is settled, or will be when fs has come.
Settled(nb, np, c, fs) ==
    /\ Waits(c) /\ Own(nb, c.FBBHeaders)
    /\ \/ fs = << >> /\ ~c.FBBMsgsSent /\ c.FBBHeaders = << >>
       \/ /\ fs = << >> /\ c.FBBMsgsSent
          /\ \A i \in DOMAIN c.FBBHeaders : Has(np, c.FBBHeaders[i].bid)
       \/ /\ Len(fs) = 1 /\ fs[1].t = "FS" /\ ~c.FBBMsgsSent
          /\ AnswersOK(np, c.FBBHeaders, fs[1].x)
          /\ \A i \in DOMAIN fs[1].x : fs[1].x[i].reply \in Refused

\* Those of the first k proposals that the answers r ask for.
WantedOf(r, k) == {i \in 1..k : r[i].reply \in Wanted}

\* d, the stream of a BBS np, has the headers of those of H that r, of k, wants.
Notes(d, H, r, k) ==
    /\ Len(d.FBBHeaders) = Cardinality(WantedOf(r, k))
    /\ \A i \in WantedOf(r, k) : \E j \in DOMAIN d.FBBHeaders : d.FBBHeaders[j].bid = H[i].bid

\* The message d receives is the first of those it has still to get.
Receives(np, d) ==
    /\ d.FBBHeaders # << >>
    /\ \/ d.TempMsg.bid = d.FBBHeaders[1].bid
       \/ d.TempMsg.bid = NoBid /\ Has(np, d.FBBHeaders[1].bid)

\* What is still to come of the proposals H when k have been read.
Ask(H, k) == [i \in 1..(Len(H) - k + 1) |->
                IF i <= Len(H) - k THEN Item("FA", H[k + i].bid) ELSE Line("F>")]

\* d receives a message, and has not given it up.
Healthy(d) == d.InputMode = "binary" /\ d.closing # "flush"

(***************************************************************************)
(* The stages of a session.  c is the stream of the BBS nb whose turn it   *)
(* is to propose, d that of its partner np; u is on its way from nb to np, *)
(* v from np to nb.                                                        *)
(***************************************************************************)
\* Nothing but text is on its way.
Quiet(w) == Carries(w, << >>)

\* nb is to propose, and FF or FQ is on its way to it, or the end of its own last
\* block: an answer that wants nothing.
Turn(nb, np, c, d, u, v) ==
    /\ Quiet(u) /\ Free(d)
    /\ \E fs \in Fronts(v) : /\ Settled(nb, np, c, fs)
                             /\ \E x \in {"FF", "FQ"} : Carries(v, fs \o << Line(x) >>)

\* nb has proposed, and k of its proposals have been read.
Proposed(nb, np, c, d, u, v) ==
    /\ Own(nb, c.FBBHeaders) /\ c.FBBHeaders # << >> /\ Waits(c) /\ ~c.FBBMsgsSent
    /\ Quiet(v)
    /\ \/ \E fs \in Fronts(u) : /\ Settled(np, nb, d, fs)
                                /\ Carries(u, fs \o Ask(c.FBBHeaders, 0))
       \/ \E k \in 1..Len(c.FBBHeaders) :
            /\ Carries(u, Ask(c.FBBHeaders, k))
            /\ Len(d.FBBReplyChars) = k /\ d.InputMode = "line" /\ ~d.FBBMsgsSent
            /\ \A i \in 1..k : d.FBBReplyChars[i].reply = "-" => Has(np, c.FBBHeaders[i].bid)
            /\ Notes(d, c.FBBHeaders, d.FBBReplyChars, k)

\* The answer is on its way, and something of it is wanted.
Answered(nb, np, c, d, u, v) ==
    /\ Own(nb, c.FBBHeaders) /\ Waits(c) /\ ~c.FBBMsgsSent
    /\ Quiet(u)
    /\ d.InputMode = "binary" /\ d.FBBReplyChars = << >> /\ ~d.FBBMsgsSent /\ Receives(np, d)
    /\ \E k \in DOMAIN v : /\ v[k].t = "FS" /\ Carries(v, << v[k] >>)
                           /\ AnswersOK(np, c.FBBHeaders, v[k].x)
                           /\ Notes(d, c.FBBHeaders, v[k].x, Len(c.FBBHeaders))

\* nb has sent what was wanted, and awaits the next proposal in place of a receipt.
Sending(nb, np, c, d, u, v) ==
    /\ Own(nb, c.FBBHeaders) /\ Waits(c) /\ c.FBBMsgsSent
    /\ Quiet(v)
    /\ \A i \in DOMAIN u : u[i].t \in {"text", "head", "data", "eom"}
    /\ d.FBBReplyChars = << >> /\ ~d.FBBMsgsSent
    /\ \A i \in DOMAIN c.FBBHeaders :
          \/ Has(np, c.FBBHeaders[i].bid)
          \/ \E j \in DOMAIN d.FBBHeaders : d.FBBHeaders[j].bid = c.FBBHeaders[i].bid
    /\ Healthy(d) => Receives(np, d) /\ Load(u, Len(d.FBBHeaders))

\* Both have said that they have nothing more: one of them hangs up.
Over(nb, np, c, d, u, v) == Quiet(u) /\ Quiet(v) /\ Free(c) /\ Free(d)

\* It is the turn of nb.
Stage(nb, np, c, d, u, v) ==
    \/ Turn(nb, np, c, d, u, v)
    \/ Proposed(nb, np, c, d, u, v)
    \/ Answered(nb, np, c, d, u, v)
    \/ Sending(nb, np, c, d, u, v)
    \/ Over(nb, np, c, d, u, v)

\* It is the turn of one of them.
Live(nb, np, c, d, u, v) == Stage(nb, np, c, d, u, v) \/ Stage(np, nb, d, c, v, u)

(***************************************************************************)
(* What can be said of a stream c of nb to np from what is still to come,  *)
(* v, whether or not np's end is still there.                              *)
(***************************************************************************)
\* What np sends once it has settled the block of nb.
TurnLines == {"FA", "FF", "FQ"}

\* A block that was sent is received once np goes on with a turn of its own; an
\* answer that is on its way is the only one, and fits what was proposed.
Awaits(nb, np, c, v) ==
    /\ c.FBBMsgsSent => /\ c.InputMode = "line" /\ Own(nb, c.FBBHeaders)
                        /\ \A k \in DOMAIN v : v[k].t = "F>" =>
                              \E i \in DOMAIN v : i < k /\ v[i].t = "FA"
    /\ c.FBBMsgsSent /\ (\E k \in DOMAIN v : v[k].t \in TurnLines)
         => \A i \in DOMAIN c.FBBHeaders : Has(np, c.FBBHeaders[i].bid)
    /\ \A k \in DOMAIN v : v[k].t = "FS" =>
         /\ ~c.FBBMsgsSent /\ c.InputMode = "line" /\ Own(nb, c.FBBHeaders)
         /\ AnswersOK(np, c.FBBHeaders, v[k].x)
         /\ \A i \in DOMAIN v : (i < k => v[i] = Text) /\ (i > k => v[i].t # "FS")
         /\ (\E i \in DOMAIN v : v[i].t \in TurnLines \cup {"F>"})
              => \A i \in DOMAIN v[k].x : v[k].x[i].reply \in Refused

\* What holds of a connection of b to p, and with p's end of it.
Pair(b, p) ==
    /\ conn[b][p].Active \/ conn[b][p] = Idle
    /\ conn[b][p].Active => Awaits(bbs[b], bbs[p], conn[b][p], wire[p][b])
    /\ conn[b][p].Active /\ conn[p][b].Active =>
         Live(bbs[b], bbs[p], conn[b][p], conn[p][b], wire[b][p], wire[p][b])

\* The ends of every session agree on its stage.
Links == /\ \A b \in BBSs : conn[b][b] = Idle
         /\ \A b, p \in BBSs : Pair(b, p)

(***************************************************************************)
(* What keeps a message whole.                                             *)
(***************************************************************************)

\* The blocks of a message follow each other, and its end follows them.
Framed(w) == \A k \in 1..(Len(w) - 1) :
                w[k].t \in {"head", "data"} => w[k + 1].t \in {"data", "eom"}

\* The last message of w is complete.
Ended(w) == w # << >> => w[Len(w)].t \notin {"head", "data"}

\* Without B1 no message is started in the middle.
Zero(w) == \A k \in 1..Len(w) :
              /\ w[k].t = "FS" => \A j \in 1..Len(w[k].x) : w[k].x[j].from = 0
              /\ w[k].t = "head" => w[k].x = 0

\* What is sent.
Sound(w, zero) == Framed(w) /\ Ended(w) /\ (zero => Zero(w))

\* The stream receives, and what it has of the message is spoilt.
Spoilt(c) == Healthy(c) /\ ~c.TempMsg.whole

\* A stream on its own.
Sane(c, zero) ==
    /\ c.InputMode = "binary" => c.FBBHeaders # << >>
    /\ zero => /\ c.sumOK => c.TempMsg.whole
               /\ \A i \in 1..Len(c.FBBReplyChars) : c.FBBReplyChars[i].from = 0

\* w is on its way to the stream c, and the other end is there or not.
Exact(c, w, zero, there) ==
    /\ Sane(c, zero)
    /\ Framed(w) /\ (there => Ended(w)) /\ (zero => Zero(w))
    /\ Spoilt(c) => /\ w # << >> => w[1].t \in {"data", "eom"}
                    /\ there => w # << >>

\* Every stream and what is on its way to it.
Exactness == \A b, p \in BBSs : Exact(conn[b][p], wire[p][b], ~B1(b, p), conn[p][b].Active)

\* The inductive invariant.
IInv == TypeOK /\ NoLoss /\ Whole /\ Exactness /\ Links
-----------------------------------------------------------------------------

(***************************************************************************)
(* Types.                                                                  *)
(***************************************************************************)

\* A BBS, its stream and what it sends.
Results == [n : Nodes, c : Streams, out : Seq(Items)]

\* The parts of a routine's result.
LEMMA ResultIs ==
    ASSUME NEW S \in Results
    PROVE  /\ S = [n |-> S.n, c |-> S.c, out |-> S.out]
           /\ S.n \in Nodes /\ S.c \in Streams /\ S.out \in Seq(Items)
  BY DEF Results

\* A function on 1..n is a sequence.
LEMMA MapIsSeq ==
    ASSUME NEW T, NEW n \in Nat, NEW f \in [1..n -> T]
    PROVE  f \in Seq(T) /\ Len(f) = n /\ DOMAIN f = 1..n
  OBVIOUS

\* The domain of a sequence.
LEMMA SeqIs ==
    ASSUME NEW T, NEW s \in Seq(T)
    PROVE  Len(s) \in Nat /\ DOMAIN s = 1..Len(s) /\ \A i \in DOMAIN s : s[i] \in T
  OBVIOUS

\* The fields of a stream.
LEMMA StreamIs ==
    ASSUME NEW c \in Streams
    PROVE  /\ c.Active \in BOOLEAN /\ c.FBBHeaders \in Seq(Headers) /\ c.FBBMsgsSent \in BOOLEAN
           /\ c.FBBReplyChars \in Seq(Replies) /\ c.InputMode \in {"line", "binary"}
           /\ c.TempMsg \in [bid : Bids, length : Nat, whole : BOOLEAN]
           /\ c.TempMsg.bid \in Bids /\ c.TempMsg.length \in Nat /\ c.TempMsg.whole \in BOOLEAN
           /\ c.sumOK \in BOOLEAN /\ c.closing \in {"no", "flush", "fq", "disc"}
           /\ c.NextMessagetoForward \in Nat /\ c.LastForwardType \in {"none", "P", "B"}
  BY DEF Streams

\* What a BBS keeps.
LEMMA NodeIs ==
    ASSUME NEW n \in Nodes
    PROVE  /\ n.MsgHddrPtr \in Seq(Records) /\ n.TempBIDs \in SUBSET [bid : Messages, conn : BBSs]
           /\ n.RestartData \in Seq(Restarts) /\ n.file \in Seq(Restarts)
           /\ \A i \in DOMAIN n.MsgHddrPtr : n.MsgHddrPtr[i] \in Records
  BY DEF Nodes

\* An empty stream.
LEMMA IdleIs == Idle \in Streams
<1>1. << >> \in Seq(Headers) /\ << >> \in Seq(Replies)
  OBVIOUS
<1>2. NoMsg \in [bid : Bids, length : Nat, whole : BOOLEAN]
  BY DEF NoMsg, Bids
<1> QED BY <1>1, <1>2 DEF Idle, Streams

\* Sending lines changes nothing else.
LEMMA PutIs ==
    ASSUME NEW S \in Results, NEW q \in Seq(Items)
    PROVE  /\ Put(S, q) \in Results
           /\ Put(S, q).n = S.n /\ Put(S, q).c = S.c /\ Put(S, q).out = S.out \o q
<1>1. S.out \o q \in Seq(Items)
  BY ResultIs
<1> QED BY <1>1 DEF Put, Results

\* The lines a BBS sends.
LEMMA LinesAreItems ==
    /\ \A t \in {"F>", "FF", "FQ", "text", "eom"} : Line(t) \in Items /\ << Line(t) >> \in Seq(Items)
    /\ Text \in Items /\ << Text >> \in Seq(Items) /\ Text.t = "text"
    /\ \A m \in Messages : Item("FA", m) \in Items
    /\ \A r \in Seq(Replies) : Item("FS", r) \in Items /\ << Item("FS", r) >> \in Seq(Items)
<1>1. \A t \in {"F>", "FF", "FQ", "text", "eom"} : Line(t) \in Items
  BY DEF Line, Item, Items
<1>2. \A m \in Messages : Item("FA", m) \in Items
  BY DEF Item, Items
<1>3. \A r \in Seq(Replies) : Item("FS", r) \in Items
  BY DEF Item, Items
<1>4. \A i \in Items : << i >> \in Seq(Items)
  OBVIOUS
<1>5. Text.t = "text" /\ Text \in Items
  BY <1>1 DEF Text, Line, Item
<1> QED BY <1>1, <1>2, <1>3, <1>4, <1>5

(***************************************************************************)
(* A BBS afterwards.                                                       *)
(***************************************************************************)

\* n2 has the messages of n, in their places.
MoreOf(n, n2) == \A i \in DOMAIN n.MsgHddrPtr :
    i \in DOMAIN n2.MsgHddrPtr /\ n2.MsgHddrPtr[i].bid = n.MsgHddrPtr[i].bid

\* And it marks no message as sent to another BBS than p, nor to p if p has it
\* not, and what it adds is whole.
Later(n, n2, p, np) ==
    /\ MoreOf(n, n2)
    /\ \A i \in DOMAIN n2.MsgHddrPtr :
         /\ \A q \in n2.MsgHddrPtr[i].forw :
              \/ i \in DOMAIN n.MsgHddrPtr /\ q \in n.MsgHddrPtr[i].forw
              \/ q = p /\ Has(np, n2.MsgHddrPtr[i].bid)
         /\ \/ n2.MsgHddrPtr[i].whole
            \/ i \in DOMAIN n.MsgHddrPtr /\ ~n.MsgHddrPtr[i].whole

\* What a BBS has it keeps.
LEMMA MoreHas ==
    ASSUME NEW n, NEW n2, MoreOf(n, n2)
    PROVE  /\ \A m : Has(n, m) => Has(n2, m)
           /\ \A H : Own(n, H) => Own(n2, H)
  BY DEF MoreOf, Has, Own

\* The messages are as they were.
LEMMA LaterSame ==
    ASSUME NEW n, NEW n2, n2.MsgHddrPtr = n.MsgHddrPtr, NEW p, NEW np
    PROVE  Later(n, n2, p, np)
  BY DEF Later, MoreOf

\* One change after another.
LEMMA LaterTwice ==
    ASSUME NEW n, NEW n2, NEW n3, NEW p, NEW np, Later(n, n2, p, np), Later(n2, n3, p, np)
    PROVE  Later(n, n3, p, np)
<1>1. MoreOf(n, n3)
  BY DEF Later, MoreOf
<1>2. ASSUME NEW i \in DOMAIN n3.MsgHddrPtr, NEW q \in n3.MsgHddrPtr[i].forw,
             ~(q = p /\ Has(np, n3.MsgHddrPtr[i].bid))
      PROVE  i \in DOMAIN n.MsgHddrPtr /\ q \in n.MsgHddrPtr[i].forw
  <2>1. i \in DOMAIN n2.MsgHddrPtr /\ q \in n2.MsgHddrPtr[i].forw
    BY <1>2 DEF Later
  <2>2. n3.MsgHddrPtr[i].bid = n2.MsgHddrPtr[i].bid
    BY <2>1 DEF Later, MoreOf
  <2> QED BY <1>2, <2>1, <2>2 DEF Later
<1>3. \A i \in DOMAIN n3.MsgHddrPtr : \/ n3.MsgHddrPtr[i].whole
                                      \/ i \in DOMAIN n.MsgHddrPtr /\ ~n.MsgHddrPtr[i].whole
  BY DEF Later
<1> QED BY <1>1, <1>2, <1>3 DEF Later

\* The fields of a stream that a routine leaves alone.
Rest(c, c2) == /\ c2.Active = c.Active /\ c2.InputMode = c.InputMode /\ c2.TempMsg = c.TempMsg
               /\ c2.sumOK = c.sumOK /\ c2.closing = c.closing

\* A message is marked as sent to p.
LEMMA DoneIs ==
    ASSUME NEW r \in Records, NEW p \in BBSs
    PROVE  /\ Done(r, p) \in Records /\ Done(r, p).bid = r.bid /\ Done(r, p).whole = r.whole
           /\ Done(r, p).forw = r.forw \cup {p}
           /\ \A s \in {"N", "F"} : /\ [Done(r, p) EXCEPT !.status = s] \in Records
                                    /\ [Done(r, p) EXCEPT !.status = s].bid = r.bid
                                    /\ [Done(r, p) EXCEPT !.status = s].whole = r.whole
                                    /\ [Done(r, p) EXCEPT !.status = s].forw = r.forw \cup {p}
<1>1. Done(r, p) \in Records /\ Done(r, p).bid = r.bid /\ Done(r, p).whole = r.whole
      /\ Done(r, p).forw = r.forw \cup {p}
  BY DEF Done, Records
<1> HIDE DEF Done
<1> QED BY <1>1 DEF Records

\* FlagSentMessages, when the partner has what was sent.
LEMMA FlagKeeps ==
    ASSUME NEW S \in Results, NEW p \in BBSs, NEW np,
           S.c.FBBMsgsSent => /\ Own(S.n, S.c.FBBHeaders)
                              /\ \A i \in DOMAIN S.c.FBBHeaders : Has(np, S.c.FBBHeaders[i].bid)
    PROVE  LET R == FlagSentMessages(S, p) IN
           /\ R \in Results /\ Later(S.n, R.n, p, np) /\ R.out = S.out
           /\ Rest(S.c, R.c) /\ R.c.FBBReplyChars = S.c.FBBReplyChars /\ R.c.FBBMsgsSent = FALSE
           /\ R.c.FBBHeaders = IF S.c.FBBMsgsSent THEN << >> ELSE S.c.FBBHeaders
           /\ R.n.RestartData = S.n.RestartData
<1> DEFINE R == FlagSentMessages(S, p)
<1>1. CASE ~S.c.FBBMsgsSent
  <2>1. R = S /\ S.c.FBBMsgsSent = FALSE
    BY <1>1, ResultIs, StreamIs DEF FlagSentMessages
  <2> QED BY <1>1, <2>1, LaterSame DEF Rest
<1>2. CASE S.c.FBBMsgsSent
  <2> DEFINE sent == {h.FwdMsg : h \in ToSet(S.c.FBBHeaders)}
             M == S.n.MsgHddrPtr
             M2 == [i \in DOMAIN M |-> IF i \in sent THEN Done(M[i], p) ELSE M[i]]
             n2 == [S.n EXCEPT !.MsgHddrPtr = M2]
             c2 == [S.c EXCEPT !.FBBHeaders = << >>, !.FBBMsgsSent = FALSE]
  <2>1. /\ R.n = n2 /\ R.c = c2 /\ R.out = S.out
        /\ n2 \in Nodes /\ c2 \in Streams => R \in Results
    <3> DEFINE T(m) == [S EXCEPT !.n.MsgHddrPtr = m, !.c.FBBHeaders = << >>, !.c.FBBMsgsSent = FALSE]
    <3>1. \A m : /\ T(m).n = [S.n EXCEPT !.MsgHddrPtr = m] /\ T(m).c = c2 /\ T(m).out = S.out
                 /\ [S.n EXCEPT !.MsgHddrPtr = m] \in Nodes /\ c2 \in Streams => T(m) \in Results
      BY DEF Results
    <3>2. R = T(M2)
      BY <1>2 DEF FlagSentMessages
    <3> HIDE DEF R, M2, c2, T
    <3> QED BY <3>1, <3>2
  <2>2. M \in Seq(Records) /\ \A i \in DOMAIN M : M[i] \in Records
    BY ResultIs, NodeIs
  <2>3. M2 \in Seq(Records) /\ DOMAIN M2 = DOMAIN M
    <3>1. \A i \in DOMAIN M : M2[i] \in Records
      BY <2>2, DoneIs
    <3>2. Len(M) \in Nat /\ DOMAIN M = 1..Len(M)
      BY <2>2, SeqIs
    <3>3. M2 \in [1..Len(M) -> Records]
      BY <3>1, <3>2
    <3> HIDE DEF M2
    <3> QED BY <3>2, <3>3, MapIsSeq
  <2>4. n2 \in Nodes /\ n2.MsgHddrPtr = M2 /\ n2.RestartData = S.n.RestartData
    <3> HIDE DEF M2
    <3> QED BY <2>3, ResultIs DEF Nodes
  <2>5. c2 \in Streams /\ c2.FBBHeaders = << >> /\ c2.FBBMsgsSent = FALSE /\ Rest(S.c, c2)
        /\ c2.FBBReplyChars = S.c.FBBReplyChars
    <3>1. S.c \in Streams /\ << >> \in Seq(Headers)
      BY ResultIs
    <3>2. c2 \in Streams
      BY <3>1 DEF Streams
    <3> QED BY <3>1, <3>2 DEF Streams, Rest
  <2>6. \A i \in sent : Has(np, M[i].bid)
    <3>1. S.c.FBBHeaders \in Seq(Headers)
      BY ResultIs, StreamIs
    <3>2. \A h \in ToSet(S.c.FBBHeaders) : \E i \in DOMAIN S.c.FBBHeaders : h = S.c.FBBHeaders[i]
      BY <3>1 DEF ToSet
    <3> QED BY <1>2, <3>2 DEF Own
  <2>7. ASSUME NEW i \in DOMAIN M
        PROVE  /\ M2[i].bid = M[i].bid /\ M2[i].whole = M[i].whole
               /\ M2[i].forw = IF i \in sent THEN M[i].forw \cup {p} ELSE M[i].forw
    <3> HIDE DEF sent
    <3> QED BY <2>2, DoneIs
  <2>8. Later(S.n, n2, p, np)
    <3> HIDE DEF M2, n2, sent
    <3>1. n2.MsgHddrPtr = M2 /\ DOMAIN M2 = DOMAIN S.n.MsgHddrPtr
      BY <2>3, <2>4
    <3>2. MoreOf(S.n, n2)
      BY <2>7, <3>1 DEF MoreOf
    <3>3. ASSUME NEW i \in DOMAIN M2, NEW q \in M2[i].forw
          PROVE  q \in M[i].forw \/ (q = p /\ Has(np, M2[i].bid))
      BY <2>6, <2>7, <3>1, <3>3
    <3>4. \A i \in DOMAIN M2 : M2[i].whole \/ ~M[i].whole
      BY <2>7, <3>1
    <3> QED BY <3>1, <3>2, <3>3, <3>4 DEF Later
  <2> HIDE DEF n2, c2
  <2>9. R \in Results
    BY <2>1, <2>4, <2>5
  <2> QED BY <1>2, <2>1, <2>4, <2>5, <2>8, <2>9
<1> QED BY <1>1, <1>2
(***************************************************************************)
(* What is offered.                                                        *)
(***************************************************************************)

\* Of a finite set of numbers there is a k-th.
LEMMA KthIs ==
    ASSUME NEW N \in Nat, NEW I \in SUBSET (1..N), NEW k \in 1..Cardinality(I)
    PROVE  Kth(I, k) \in I
<1> DEFINE below(m) == {j \in I : j < m}
           T == {m \in 0..(N + 1) : Cardinality(below(m)) >= k}
<1>0. /\ \A j \in I : j \in Nat /\ 1 <= j /\ j <= N
      /\ k \in Nat /\ 1 <= k /\ k <= Cardinality(I)
  <2>1. \A j \in I : j \in 1..N
    OBVIOUS
  <2>2. IsFiniteSet(1..N)
    BY FS_Interval
  <2>3. Cardinality(I) \in Nat
    BY <2>2, FS_Subset, FS_CardinalityType
  <2> QED BY <2>1, <2>3
<1>1. IsFiniteSet(I) /\ Cardinality(I) \in Nat
  <2>1. IsFiniteSet(1..N)
    BY FS_Interval
  <2> QED BY <2>1, FS_Subset, FS_CardinalityType
<1>2. \A m : below(m) \in SUBSET I /\ IsFiniteSet(below(m)) /\ Cardinality(below(m)) \in Nat
  BY <1>1, FS_Subset, FS_CardinalityType
<1>3. T \in SUBSET Nat /\ T # {}
  <2>1. below(N + 1) = I
    <3>1. \A j \in I : j < N + 1
      BY <1>0
    <3> QED BY <3>1
  <2>2. N + 1 \in T
    BY <1>0, <2>1
  <2> QED BY <2>2
<1>4. PICK x \in T : \A y \in T : x <= y
  <2> HIDE DEF T
  <2> QED BY <1>3, LeastNatural
<1>5. x # 0
  <2>1. below(0) = {}
    <3>1. \A j \in I : ~(j < 0)
      BY <1>0
    <3> QED BY <3>1
  <2>2. Cardinality(below(0)) = 0
    BY <2>1, FS_EmptySet
  <2>3. Cardinality(below(x)) >= k
    BY <1>4
  <2> HIDE DEF below
  <2> QED BY <1>0, <2>2, <2>3
<1> DEFINE y == x - 1
<1>6. y \in 0..(N + 1) /\ ~(Cardinality(below(y)) >= k)
  <2>1. y \in 0..(N + 1) /\ y < x /\ ~(x <= y)
    BY <1>4, <1>5
  <2>2. y \notin T
    <3> HIDE DEF y, T
    <3> QED BY <1>4, <2>1
  <2> HIDE DEF y, below
  <2> QED BY <2>1, <2>2
<1>7. y \in I
  <2> SUFFICES ASSUME y \notin I PROVE FALSE
    OBVIOUS
  <2>1. x \in Nat /\ \A j \in I : j < x <=> j < y
    BY <1>0, <1>4
  <2>2. below(x) = below(y)
    <3> HIDE DEF y
    <3> QED BY <2>1
  <2>3. Cardinality(below(x)) >= k
    BY <1>4
  <2> HIDE DEF y, below
  <2> QED BY <1>6, <2>2, <2>3
<1>8. Cardinality(below(y)) = k - 1
  <2>0. x \in Nat /\ \A j \in I : j < x <=> (j < y \/ j = y)
    BY <1>0, <1>4
  <2>1. below(x) = below(y) \cup {y} /\ y \notin below(y)
    <3>1. y \in Nat
      BY <1>0, <1>7
    <3>2. ~(y < y)
      BY <3>1
    <3> HIDE DEF y
    <3>3. ASSUME NEW j PROVE j \in below(x) <=> j \in below(y) \cup {y}
      BY <1>7, <2>0
    <3>4. y \notin below(y)
      BY <3>2
    <3> HIDE DEF below
    <3> QED BY <3>3, <3>4
  <2>2. Cardinality(below(x)) = Cardinality(below(y)) + 1
    <3> HIDE DEF below, y
    <3> QED BY <1>2, <2>1, FS_AddElement
  <2>3. Cardinality(below(x)) >= k
    BY <1>4
  <2> HIDE DEF below, y
  <2> QED BY <1>0, <1>2, <1>6, <2>2, <2>3
<1>9. \E i \in I : Cardinality({j \in I : j < i}) = k - 1
  BY <1>7, <1>8
<1> QED BY <1>9 DEF Kth

\* What offering messages does to a BBS and a stream.
Offers(S, R, p, np) ==
    /\ R \in Results /\ Later(S.n, R.n, p, np) /\ R.out = S.out
    /\ Rest(S.c, R.c) /\ R.c.FBBReplyChars = S.c.FBBReplyChars /\ R.c.FBBMsgsSent = S.c.FBBMsgsSent

\* Two offers, one after the other.
LEMMA OffersTwice ==
    ASSUME NEW S, NEW R, NEW Q, NEW p, NEW np, Offers(S, R, p, np), Offers(R, Q, p, np)
    PROVE  Offers(S, Q, p, np)
<1>1. Later(S.n, Q.n, p, np)
  BY LaterTwice DEF Offers
<1> QED BY <1>1 DEF Offers, Rest

\* A block is proposed.
LEMMA TakeIs ==
    ASSUME NEW S \in Results, NEW type \in {"P", "B"}, NEW due,
           NEW block \in SUBSET DOMAIN S.n.MsgHddrPtr, NEW p, NEW np
    PROVE  LET R == Take(S, type, due, block) IN Offers(S, R, p, np) /\ Own(R.n, R.c.FBBHeaders)
<1> DEFINE M == S.n.MsgHddrPtr
           N == Len(M)
           n == Cardinality(block)
           M2 == [i \in DOMAIN M |->
                    IF /\ i \in due /\ M[i].Defered > 0
                       /\ n < MaxBlock \/ \E j \in block : i <= j
                    THEN [M[i] EXCEPT !.Defered = @ - 1] ELSE M[i]]
           H == [k \in 1..n |-> [bid |-> M[Kth(block, k)].bid, FwdMsg |-> Kth(block, k)]]
           next == IF block = {} THEN S.c.NextMessagetoForward ELSE 1 + Kth(block, n)
           last == IF block = {} THEN S.c.LastForwardType ELSE type
           n2 == [S.n EXCEPT !.MsgHddrPtr = M2]
           c2 == [S.c EXCEPT !.FBBHeaders = H, !.NextMessagetoForward = next,
                             !.LastForwardType = last]
           R == Take(S, type, due, block)
<1>1. /\ R.n = n2 /\ R.c = c2 /\ R.out = S.out
      /\ n2 \in Nodes /\ c2 \in Streams => R \in Results
  <2> DEFINE T(m, c) == [S EXCEPT !.n.MsgHddrPtr = m, !.c = c]
  <2>1. \A m, c : /\ T(m, c).n = [S.n EXCEPT !.MsgHddrPtr = m] /\ T(m, c).c = c
                  /\ T(m, c).out = S.out
                  /\ [S.n EXCEPT !.MsgHddrPtr = m] \in Nodes /\ c \in Streams => T(m, c) \in Results
    BY DEF Results
  <2>2. R = T(M2, c2)
    BY DEF Take
  <2> HIDE DEF R, M2, c2, T
  <2> QED BY <2>1, <2>2
<1>2. /\ M \in Seq(Records) /\ N \in Nat /\ DOMAIN M = 1..N
      /\ \A i \in DOMAIN M : M[i] \in Records
  BY ResultIs, NodeIs, SeqIs
<1>3. n \in Nat /\ IsFiniteSet(block) /\ (block # {} => n \in 1..n)
  <2>1. IsFiniteSet(block)
    <3>1. block \in SUBSET (1..N)
      BY <1>2
    <3>2. 1 \in Int /\ N \in Int /\ IsFiniteSet(1..N)
      BY <1>2, FS_Interval
    <3> HIDE DEF N
    <3> QED BY <3>1, <3>2, FS_Subset
  <2>2. n \in Nat /\ (n = 0 => block = {})
    BY <2>1, FS_CardinalityType, FS_EmptySet
  <2> HIDE DEF n
  <2> QED BY <2>1, <2>2
<1>4. \A k \in 1..n : Kth(block, k) \in block /\ Kth(block, k) \in Nat
  <2>1. block \in SUBSET (1..N) /\ N \in Nat
    BY <1>2
  <2>2. \A k \in 1..n : Kth(block, k) \in block
    <3> HIDE DEF N, M
    <3> QED BY <2>1, KthIs
  <2>3. \A i \in block : i \in Nat
    <3> HIDE DEF N
    <3> QED BY <2>1
  <2> HIDE DEF n
  <2> QED BY <2>2, <2>3
<1>5. ASSUME NEW i \in DOMAIN M
      PROVE  /\ M2[i] \in Records /\ M2[i].bid = M[i].bid /\ M2[i].forw = M[i].forw
             /\ M2[i].whole = M[i].whole
  <2>1. M[i] \in Records
    BY <1>2
  <2>2. M[i].Defered > 0 =>
             LET r == [M[i] EXCEPT !.Defered = M[i].Defered - 1] IN
             r \in Records /\ r.bid = M[i].bid /\ r.forw = M[i].forw /\ r.whole = M[i].whole
    <3> HIDE DEF M
    <3> QED BY <2>1 DEF Records
  <2>3. M2[i] = M[i] \/ (M[i].Defered > 0 /\ M2[i] = [M[i] EXCEPT !.Defered = M[i].Defered - 1])
    BY <1>5
  <2> HIDE DEF M2, M
  <2> QED BY <2>1, <2>2, <2>3
<1>6. M2 \in Seq(Records) /\ DOMAIN M2 = DOMAIN M
  <2>1. M2 \in [1..N -> Records]
    BY <1>2, <1>5
  <2> HIDE DEF M2, N
  <2> QED BY <1>2, <2>1, MapIsSeq
<1>7. n2 \in Nodes /\ n2.MsgHddrPtr = M2
  <2> HIDE DEF M2
  <2> QED BY <1>6, ResultIs DEF Nodes
<1>8. Later(S.n, n2, p, np)
  <2> HIDE DEF M2, n2
  <2> QED BY <1>5, <1>6, <1>7 DEF Later, MoreOf
<1>9. /\ H \in Seq(Headers) /\ DOMAIN H = 1..n
      /\ \A k \in 1..n : H[k].FwdMsg \in DOMAIN M /\ H[k].bid = M[H[k].FwdMsg].bid
  <2>1. ASSUME NEW k \in 1..n
        PROVE  H[k] \in Headers /\ H[k].FwdMsg \in DOMAIN M /\ H[k].bid = M[H[k].FwdMsg].bid
    <3>1. Kth(block, k) \in DOMAIN M /\ Kth(block, k) \in Nat
      BY <1>4
    <3>2. M[Kth(block, k)].bid \in Messages
      BY <1>2, <3>1 DEF Records
    <3>3. H[k] = [bid |-> M[Kth(block, k)].bid, FwdMsg |-> Kth(block, k)]
      OBVIOUS
    <3> HIDE DEF H, M
    <3> QED BY <3>1, <3>2, <3>3 DEF Headers
  <2>2. H \in [1..n -> Headers]
    BY <2>1
  <2> HIDE DEF H, n
  <2> QED BY <1>3, <2>1, <2>2, MapIsSeq
<1>10. next \in Nat /\ last \in {"none", "P", "B"}
  BY <1>3, <1>4, ResultIs, StreamIs
<1>11. /\ c2 \in Streams /\ c2.FBBHeaders = H /\ Rest(S.c, c2)
       /\ c2.FBBReplyChars = S.c.FBBReplyChars /\ c2.FBBMsgsSent = S.c.FBBMsgsSent
  <2>1. S.c \in Streams
    BY ResultIs
  <2> HIDE DEF H, next, last
  <2> QED BY <1>9, <1>10, <2>1 DEF Streams, Rest
<1>12. Own(n2, H)
  <2> HIDE DEF H, n2, M2
  <2> QED BY <1>5, <1>6, <1>7, <1>9 DEF Own
<1> HIDE DEF R, n2, c2, H
<1> QED BY <1>1, <1>7, <1>8, <1>11, <1>12 DEF Offers, R

\* FindMessagestoForwardLoop.
LEMMA FindLoopIs ==
    ASSUME NEW S \in Results, NEW type \in {"P", "B"}, NEW p, NEW np
    PROVE  LET R == FindLoop(S, p, type) IN Offers(S, R, p, np) /\ Own(R.n, R.c.FBBHeaders)
<1> DEFINE due == {i \in Queued(S.n, p) : /\ i >= S.c.NextMessagetoForward
                                          /\ TypeOf[S.n.MsgHddrPtr[i].bid] = type}
           block == FirstFew({i \in due : S.n.MsgHddrPtr[i].Defered = 0})
<1>1. FindLoop(S, p, type) = Take(S, type, due, block)
  BY DEF FindLoop
<1>2. block \in SUBSET DOMAIN S.n.MsgHddrPtr
  BY DEF FirstFew, Queued
<1> HIDE DEF due, block
<1> QED BY <1>1, <1>2, TakeIs

\* FindMessagestoForward: personal messages, then bulletins.
LEMMA FindIs ==
    ASSUME NEW S \in Results, NEW p, NEW np
    PROVE  LET R == FindMessagestoForward(S, p) IN
           Offers(S, R, p, np) /\ Own(R.n, R.c.FBBHeaders)
<1> DEFINE P == FindLoop(S, p, "P")
           next == IF P.c.LastForwardType = "P" THEN 1 ELSE P.c.NextMessagetoForward
           Q == [P EXCEPT !.c.NextMessagetoForward = next]
           B == FindLoop(Q, p, "B")
           R == FindMessagestoForward(S, p)
<1>1. Offers(S, P, p, np) /\ Own(P.n, P.c.FBBHeaders) /\ P \in Results
  BY FindLoopIs DEF Offers
<1>2. R = IF P.c.FBBHeaders # << >> THEN P ELSE OrNone(B)
  BY DEF FindMessagestoForward, OrBulletins
<1> HIDE DEF P
<1>3. Q \in Results /\ Offers(P, Q, p, np)
  <2>1. next \in Nat /\ P.c \in Streams
    BY <1>1, ResultIs, StreamIs
  <2> DEFINE c2 == [P.c EXCEPT !.NextMessagetoForward = next]
  <2>2. c2 \in Streams /\ Rest(P.c, c2) /\ c2.FBBReplyChars = P.c.FBBReplyChars
        /\ c2.FBBMsgsSent = P.c.FBBMsgsSent
    <3> HIDE DEF next
    <3> QED BY <2>1 DEF Streams, Rest
  <2>3. Q.n = P.n /\ Q.c = c2 /\ Q.out = P.out /\ (c2 \in Streams => Q \in Results)
    <3> HIDE DEF next
    <3> QED BY <1>1 DEF Results
  <2>4. Later(P.n, Q.n, p, np)
    BY <2>3, LaterSame
  <2> HIDE DEF Q, c2
  <2> QED BY <2>2, <2>3, <2>4 DEF Offers
<1> HIDE DEF Q
<1>4. Offers(Q, B, p, np) /\ Own(B.n, B.c.FBBHeaders) /\ B \in Results
  BY <1>3, FindLoopIs DEF Offers
<1> HIDE DEF B
<1>5. Offers(B, OrNone(B), p, np) /\ Own(OrNone(B).n, OrNone(B).c.FBBHeaders)
  <2>1. CASE B.c.FBBHeaders # << >>
    BY <1>4, <2>1, LaterSame DEF OrNone, Offers, Rest
  <2>2. CASE B.c.FBBHeaders = << >>
    <3> DEFINE c2 == [B.c EXCEPT !.LastForwardType = "none"]
               G == OrNone(B)
    <3>1. G.n = B.n /\ G.c = c2 /\ G.out = B.out /\ (c2 \in Streams => G \in Results)
      BY <1>4, <2>2 DEF OrNone, Results
    <3>2. c2 \in Streams /\ Rest(B.c, c2) /\ c2.FBBReplyChars = B.c.FBBReplyChars
          /\ c2.FBBMsgsSent = B.c.FBBMsgsSent /\ c2.FBBHeaders = B.c.FBBHeaders
      <4>1. B.c \in Streams
        BY <1>4, ResultIs
      <4> QED BY <4>1 DEF Streams, Rest
    <3>3. Later(B.n, G.n, p, np)
      BY <3>1, LaterSame
    <3> HIDE DEF G, c2
    <3> QED BY <1>4, <3>1, <3>2, <3>3 DEF Offers, G
  <2> QED BY <2>1, <2>2
<1>6. Offers(S, OrNone(B), p, np)
  <2>1. Offers(S, Q, p, np)
    BY <1>1, <1>3, OffersTwice
  <2>2. Offers(S, B, p, np)
    BY <1>4, <2>1, OffersTwice
  <2> QED BY <1>5, <2>2, OffersTwice
<1> HIDE DEF R
<1> QED BY <1>1, <1>2, <1>5, <1>6 DEF R

\* The proposals H as lines.
LEMMA AskIs ==
    ASSUME NEW H \in Seq(Headers)
    PROVE  /\ Ask(H, 0) = [i \in DOMAIN H |-> Item("FA", H[i].bid)] \o << Line("F>") >>
           /\ \A k \in 0..Len(H) : Ask(H, k) \in Seq(Items) /\ Len(Ask(H, k)) = Len(H) - k + 1
<1>1. Len(H) \in Nat /\ DOMAIN H = 1..Len(H) /\ \A i \in 1..Len(H) : H[i].bid \in Messages
  <2>1. \A h \in Headers : h.bid \in Messages
    BY DEF Headers
  <2> QED BY <2>1
<1>2. ASSUME NEW k \in 0..Len(H)
      PROVE  Ask(H, k) \in Seq(Items) /\ Len(Ask(H, k)) = Len(H) - k + 1
  <2>1. Ask(H, k) \in [1..(Len(H) - k + 1) -> Items]
    BY <1>1, LinesAreItems DEF Ask
  <2>2. Len(H) - k + 1 \in Nat
    BY <1>1
  <2> QED BY <2>1, <2>2, MapIsSeq
<1>3. Ask(H, 0) = [i \in DOMAIN H |-> Item("FA", H[i].bid)] \o << Line("F>") >>
  <2> DEFINE A == [i \in DOMAIN H |-> Item("FA", H[i].bid)]
             B == A \o << Line("F>") >>
  <2>1. A \in Seq(Items) /\ Len(A) = Len(H)
    <3>1. A \in [1..Len(H) -> Items]
      BY <1>1, LinesAreItems
    <3> HIDE DEF A
    <3> QED BY <1>1, <3>1, MapIsSeq
  <2>2. B \in Seq(Items) /\ Len(B) = Len(H) + 1
    <3> HIDE DEF A
    <3> QED BY <2>1, LinesAreItems
  <2>3. Ask(H, 0) \in Seq(Items) /\ Len(Ask(H, 0)) = Len(H) + 1
    BY <1>1, <1>2
  <2>4. ASSUME NEW i \in 1..(Len(H) + 1) PROVE Ask(H, 0)[i] = B[i]
    <3>1. CASE i <= Len(H)
      <4>1. Ask(H, 0)[i] = Item("FA", H[i].bid)
        BY <1>1, <3>1 DEF Ask
      <4>2. A[i] = Item("FA", H[i].bid)
        BY <1>1, <3>1
      <4>3. B[i] = A[i]
        <5> HIDE DEF A
        <5> QED BY <1>1, <2>1, <3>1, LinesAreItems
      <4> QED BY <4>1, <4>2, <4>3
    <3>2. CASE ~(i <= Len(H))
      <4>1. Ask(H, 0)[i] = Line("F>")
        BY <1>1, <3>2 DEF Ask
      <4>2. i = Len(A) + 1
        <5> HIDE DEF A
        <5> QED BY <1>1, <2>1, <3>2
      <4>3. B[i] = Line("F>")
        <5> HIDE DEF A
        <5> QED BY <1>1, <2>1, <4>2, LinesAreItems
      <4> QED BY <4>1, <4>3
    <3> QED BY <3>1, <3>2
  <2> HIDE DEF B, A
  <2>5. Ask(H, 0) = B
    BY <2>2, <2>3, <2>4
  <2> QED BY <2>5 DEF B, A
<1> QED BY <1>2, <1>3

\* FBBDoForward: proposals, or the line that says there are none.
LEMMA DoForwardIs ==
    ASSUME NEW S \in Results, NEW p, NEW np, NEW q \in Seq(Items)
    PROVE  LET R == FBBDoForward(S, p, q) IN
           /\ R \in Results /\ Later(S.n, R.n, p, np)
           /\ Rest(S.c, R.c) /\ R.c.FBBReplyChars = S.c.FBBReplyChars
           /\ R.c.FBBMsgsSent = S.c.FBBMsgsSent /\ Own(R.n, R.c.FBBHeaders)
           /\ R.out = S.out \o (IF R.c.FBBHeaders = << >> THEN q ELSE Ask(R.c.FBBHeaders, 0))
<1> DEFINE F == FindMessagestoForward(S, p)
           H == F.c.FBBHeaders
           x == IF H = << >> THEN q ELSE Ask(H, 0)
<1>1. Offers(S, F, p, np) /\ Own(F.n, H) /\ F \in Results
  BY FindIs DEF Offers
<1> HIDE DEF F
<1>2. H \in Seq(Headers)
  BY <1>1, ResultIs, StreamIs
<1>3. FBBDoForward(S, p, q) = Put(F, x)
  BY <1>2, AskIs DEF FBBDoForward, Propose, F
<1>4. x \in Seq(Items)
  <2>1. 0 \in 0..Len(H)
    BY <1>2
  <2> HIDE DEF H
  <2> QED BY <1>2, <2>1, AskIs
<1>5. /\ Put(F, x) \in Results /\ Put(F, x).n = F.n /\ Put(F, x).c = F.c
      /\ Put(F, x).out = F.out \o x
  <2> HIDE DEF x
  <2> QED BY <1>1, <1>4, PutIs
<1> QED BY <1>1, <1>3, <1>5 DEF Offers
(***************************************************************************)
(* What is on a wire.                                                      *)
(***************************************************************************)

\* A line of text is the only item of its type.
LEMMA TextIs == \A i \in Items : i.t = "text" <=> i = Text
  BY DEF Items, Text, Line, Item

\* The first item of a wire and what is behind it.
LEMMA TailIs ==
    ASSUME NEW T, NEW w \in Seq(T), w # << >>
    PROVE  /\ Tail(w) \in Seq(T) /\ Len(Tail(w)) = Len(w) - 1 /\ Len(w) \in Nat /\ Len(w) >= 1
           /\ Head(w) = w[1] /\ Head(w) \in T
           /\ \A i \in 1..Len(Tail(w)) : Tail(w)[i] = w[i + 1] /\ i + 1 \in 1..Len(w)
<1>1. Tail(w) \in Seq(T) /\ Len(Tail(w)) = Len(w) - 1
  OBVIOUS
<1>2. Len(w) \in Nat /\ Len(w) >= 1 /\ Head(w) = w[1] /\ Head(w) \in T
  OBVIOUS
<1>3. \A i \in 1..Len(Tail(w)) : Tail(w)[i] = w[i + 1] /\ i + 1 \in 1..Len(w)
  OBVIOUS
<1> QED BY <1>1, <1>2, <1>3

\* One sequence behind another.
LEMMA ConcatIs ==
    ASSUME NEW T, NEW u \in Seq(T), NEW v \in Seq(T)
    PROVE  /\ u \o v \in Seq(T) /\ Len(u \o v) = Len(u) + Len(v)
           /\ Len(u) \in Nat /\ Len(v) \in Nat
           /\ \A i \in 1..Len(u) : (u \o v)[i] = u[i] /\ i \in 1..Len(u \o v)
           /\ \A i \in 1..Len(v) : (u \o v)[Len(u) + i] = v[i] /\ Len(u) + i \in 1..Len(u \o v)
           /\ \A i \in 1..Len(u \o v) : i > Len(u) => i - Len(u) \in 1..Len(v)
                                                  /\ (u \o v)[i] = v[i - Len(u)]
<1>1. u \o v \in Seq(T) /\ Len(u \o v) = Len(u) + Len(v) /\ Len(u) \in Nat /\ Len(v) \in Nat
  OBVIOUS
<1>2. \A i \in 1..Len(u) : (u \o v)[i] = u[i] /\ i \in 1..Len(u \o v)
  OBVIOUS
<1>3. \A i \in 1..Len(v) : (u \o v)[Len(u) + i] = v[i] /\ Len(u) + i \in 1..Len(u \o v)
  OBVIOUS
<1>4. \A i \in 1..Len(u \o v) : i > Len(u) => i - Len(u) \in 1..Len(v)
                                           /\ (u \o v)[i] = v[i - Len(u)]
  OBVIOUS
<1> QED BY <1>1, <1>2, <1>3, <1>4

\* On a quiet wire there is only text.
LEMMA QuietIs ==
    ASSUME NEW w \in Seq(Items)
    PROVE  Quiet(w) <=> \A i \in 1..Len(w) : w[i] = Text
<1>1. Len(<< >>) = 0 /\ Len(w) \in Nat /\ 0 \in 0..(Len(w) - 0)
  OBVIOUS
<1>2. \A s \in 0..(Len(w) - 0) : \A i \in 1..Len(w) : ~(i > s /\ i <= s + 0)
  BY <1>1
<1> QED BY <1>1, <1>2 DEF Quiet, Carries

\* What is put behind text.
LEMMA CarriesPut ==
    ASSUME NEW w \in Seq(Items), Quiet(w), NEW core \in Seq(Items),
           \A i \in 1..Len(core) : core[i].t # "text"
    PROVE  Carries(w \o core, core)
<1> DEFINE z == w \o core
<1>1. /\ Len(z) = Len(w) + Len(core) /\ Len(w) \in Nat /\ Len(core) \in Nat
      /\ \A i \in 1..Len(w) : z[i] = Text
      /\ \A i \in 1..Len(z) : i > Len(w) => z[i] = core[i - Len(w)]
  BY ConcatIs, QuietIs
<1> HIDE DEF z
<1>2. Len(w) \in 0..(Len(z) - Len(core))
  BY <1>1
<1>3. \A i \in 1..Len(z) :
        z[i] = IF i > Len(w) /\ i <= Len(w) + Len(core) THEN core[i - Len(w)] ELSE Text
  BY <1>1
<1>4. Carries(z, core)
  BY <1>2, <1>3 DEF Carries
<1> QED BY <1>4 DEF z

\* The first of the lines carried arrives.
LEMMA CarriesHead ==
    ASSUME NEW w \in Seq(Items), w # << >>, w[1].t # "text", NEW core \in Seq(Items),
           Carries(w, core)
    PROVE  core # << >> /\ w[1] = core[1] /\ Carries(Tail(w), Tail(core))
<1>1. PICK s \in 0..(Len(w) - Len(core)) : \A i \in 1..Len(w) :
         w[i] = IF i > s /\ i <= s + Len(core) THEN core[i - s] ELSE Text
  BY DEF Carries
<1>2. Len(w) \in Nat /\ Len(w) >= 1 /\ Len(core) \in Nat /\ w[1] # Text
  BY LinesAreItems
<1>3. s = 0 /\ Len(core) >= 1
  BY <1>1, <1>2
<1>4. core # << >> /\ w[1] = core[1]
  BY <1>1, <1>2, <1>3
<1> DEFINE v == Tail(w)
           c == Tail(core)
<1>5. /\ Len(v) = Len(w) - 1 /\ Len(c) = Len(core) - 1
      /\ \A i \in 1..Len(v) : v[i] = w[i + 1] /\ i + 1 \in 1..Len(w)
      /\ \A i \in 1..Len(c) : c[i] = core[i + 1] /\ i + 1 \in 1..Len(core)
  BY <1>4, TailIs
<1> HIDE DEF v, c
<1>6. \A i \in 1..Len(v) : v[i] = IF i > 0 /\ i <= 0 + Len(c) THEN c[i - 0] ELSE Text
  <2> TAKE i \in 1..Len(v)
  <2>1. v[i] = IF i + 1 <= Len(core) THEN core[i + 1] ELSE Text
    BY <1>1, <1>2, <1>3, <1>5
  <2>2. CASE i <= Len(c)
    BY <1>2, <1>5, <2>1, <2>2
  <2>3. CASE ~(i <= Len(c))
    BY <1>2, <1>5, <2>1, <2>3
  <2> QED BY <2>2, <2>3
<1>7. 0 \in 0..(Len(v) - Len(c)) /\ \A i \in 1..Len(c) : c[i].t # "text"
  <2>1. \A i \in 1..Len(core) : core[i].t # "text"
    BY DEF Carries
  <2>2. \A i \in 1..Len(c) : c[i].t # "text"
    BY <1>5, <2>1
  <2>3. 0 \in 0..(Len(v) - Len(c))
    BY <1>1, <1>2, <1>3, <1>5
  <2> QED BY <2>2, <2>3
<1>8. Carries(v, c)
  BY <1>6, <1>7 DEF Carries
<1> QED BY <1>4, <1>8 DEF v, c

\* A line of text arrives.
LEMMA CarriesText ==
    ASSUME NEW w \in Seq(Items), w # << >>, w[1].t = "text", NEW core \in Seq(Items),
           Carries(w, core)
    PROVE  Carries(Tail(w), core)
<1>1. PICK s \in 0..(Len(w) - Len(core)) : \A i \in 1..Len(w) :
         w[i] = IF i > s /\ i <= s + Len(core) THEN core[i - s] ELSE Text
  BY DEF Carries
<1>2. Len(w) \in Nat /\ Len(w) >= 1 /\ Len(core) \in Nat
  OBVIOUS
<1> DEFINE v == Tail(w)
           z == IF s = 0 THEN 0 ELSE s - 1
<1>3. Len(v) = Len(w) - 1 /\ \A i \in 1..Len(v) : v[i] = w[i + 1] /\ i + 1 \in 1..Len(w)
  BY TailIs
<1>4. s = 0 => Len(core) = 0
  <2> SUFFICES ASSUME s = 0, Len(core) >= 1 PROVE FALSE
    BY <1>2
  <2>1. w[1] = core[1]
    BY <1>1, <1>2
  <2> QED BY <1>2, <2>1 DEF Carries
<1> HIDE DEF v
<1>5. z \in 0..(Len(v) - Len(core))
  BY <1>2, <1>3, <1>4
<1>6. \A i \in 1..Len(v) : v[i] = IF i > z /\ i <= z + Len(core) THEN core[i - z] ELSE Text
  <2> TAKE i \in 1..Len(v)
  <2>1. v[i] = IF i + 1 > s /\ i + 1 <= s + Len(core) THEN core[i + 1 - s] ELSE Text
    BY <1>1, <1>3
  <2>2. CASE s = 0
    BY <1>2, <1>3, <1>4, <2>1, <2>2
  <2>3. CASE s > 0
    <3>1. i + 1 - s = i - z /\ (i + 1 > s <=> i > z) /\ (i + 1 <= s + Len(core) <=> i <= z + Len(core))
      BY <1>2, <2>3
    <3> HIDE DEF z
    <3> QED BY <2>1, <3>1
  <2> QED BY <2>2, <2>3
<1> HIDE DEF z
<1>7. Carries(v, core)
  BY <1>5, <1>6 DEF Carries
<1> QED BY <1>7 DEF v

\* A line of text is sent.
LEMMA CarriesMore ==
    ASSUME NEW w \in Seq(Items), NEW core \in Seq(Items), Carries(w, core)
    PROVE  Carries(w \o << Text >>, core)
<1> DEFINE v == w \o << Text >>
<1>1. PICK s \in 0..(Len(w) - Len(core)) : \A i \in 1..Len(w) :
         w[i] = IF i > s /\ i <= s + Len(core) THEN core[i - s] ELSE Text
  BY DEF Carries
<1>2. /\ Len(w) \in Nat /\ Len(core) \in Nat /\ Len(v) = Len(w) + 1
      /\ \A i \in 1..Len(w) : v[i] = w[i]
      /\ v[Len(w) + 1] = Text
  BY LinesAreItems
<1> HIDE DEF v
<1>3. s \in 0..(Len(v) - Len(core))
  BY <1>2
<1>4. \A i \in 1..Len(v) : v[i] = IF i > s /\ i <= s + Len(core) THEN core[i - s] ELSE Text
  <2> TAKE i \in 1..Len(v)
  <2>1. CASE i \in 1..Len(w)
    BY <1>1, <1>2, <2>1
  <2>2. CASE i = Len(w) + 1
    BY <1>2, <1>3, <2>2
  <2> QED BY <1>2, <2>1, <2>2
<1>5. Carries(v, core)
  BY <1>3, <1>4 DEF Carries
<1> QED BY <1>5 DEF v
\* An empty load is text.
LEMMA LoadNone ==
    ASSUME NEW w \in Seq(Items)
    PROVE  Load(w, 0) <=> Quiet(w)
<1>1. CASE Load(w, 0)
  <2>1. \A i \in 1..Len(w) : w[i].t = "text"
    BY <1>1 DEF Load
  <2>2. \A i \in 1..Len(w) : w[i] \in Items
    OBVIOUS
  <2> QED BY <1>1, <2>1, <2>2, QuietIs, TextIs
<1>2. CASE Quiet(w)
  <2>1. \A i \in 1..Len(w) : w[i].t = "text"
    BY <1>2, QuietIs, LinesAreItems
  <2> DEFINE e == [j \in 1..0 |-> 1]
  <2>2. e \in [1..0 -> 1..Len(w)] /\ \A j \in 1..0 : FALSE
    OBVIOUS
  <2> HIDE DEF e
  <2>3. Load(w, 0)
    BY <2>1, <2>2 DEF Load
  <2> QED BY <1>2, <2>3
<1> QED BY <1>1, <1>2

\* The ends of the messages are in order.
LEMMA LoadOrder ==
    ASSUME NEW n \in Nat, NEW k \in Nat, NEW e \in [1..k -> 1..n],
           \A j \in 1..k : j > 1 => e[j - 1] < e[j]
    PROVE  \A j \in 1..k : e[j] >= j
<1> DEFINE P == {j \in Nat : j \in 1..k => e[j] >= j}
<1>1. 0 \in P
  OBVIOUS
<1>2. ASSUME NEW j \in P, j < k PROVE j + 1 \in P
  <2>1. CASE j = 0
    BY <2>1
  <2>2. CASE j > 0
    <3>1. j \in 1..k /\ j + 1 \in 1..k /\ j + 1 > 1 /\ (j + 1) - 1 = j
      BY <1>2, <2>2
    <3>2. e[j] < e[j + 1] /\ e[j] >= j /\ e[j] \in Nat /\ e[j + 1] \in Nat
      BY <3>1
    <3> QED BY <3>1, <3>2
  <2> QED BY <2>1, <2>2
<1>3. \A j \in 0..k : j \in P
  <2> HIDE DEF P
  <2>1. P \in SUBSET Nat
    BY DEF P
  <2> QED BY <1>1, <1>2, <2>1, UpTo
<1> QED BY <1>3

\* What is not the end of a message arrives.
LEMMA LoadTail ==
    ASSUME NEW w \in Seq(Items), w # << >>, w[1].t # "eom", NEW k \in Nat, Load(w, k)
    PROVE  Load(Tail(w), k)
<1> DEFINE v == Tail(w)
<1>1. /\ Len(w) \in Nat /\ Len(v) = Len(w) - 1
      /\ \A i \in 1..Len(v) : v[i] = w[i + 1] /\ i + 1 \in 1..Len(w)
  BY TailIs
<1>2. PICK e \in [1..k -> 1..Len(w)] :
       /\ \A j \in 1..k : w[e[j]].t = "eom" /\ (j > 1 => e[j - 1] < e[j])
       /\ \A i \in 1..Len(w) :
            /\ w[i].t = "eom" => \E j \in 1..k : e[j] = i
            /\ w[i].t # "text" => \E j \in 1..k : i <= e[j]
  BY DEF Load
<1> HIDE DEF v
<1> DEFINE g == [j \in 1..k |-> e[j] - 1]
<1>3. \A j \in 1..k : e[j] - 1 \in 1..Len(v) /\ v[e[j] - 1] = w[e[j]]
  <2> TAKE j \in 1..k
  <2>1. e[j] \in 1..Len(w) /\ e[j] # 1
    BY <1>2
  <2>2. e[j] - 1 \in 1..Len(v) /\ (e[j] - 1) + 1 = e[j]
    BY <1>1, <2>1
  <2> QED BY <1>1, <2>2
<1>4. g \in [1..k -> 1..Len(v)] /\ \A j \in 1..k : g[j] = e[j] - 1 /\ e[j] \in Nat
  BY <1>3
<1> HIDE DEF g
<1>5. \A j \in 1..k : v[g[j]].t = "eom" /\ (j > 1 => g[j - 1] < g[j])
  <2> TAKE j \in 1..k
  <2>1. v[g[j]].t = "eom"
    BY <1>2, <1>3, <1>4
  <2>2. ASSUME j > 1 PROVE g[j - 1] < g[j]
    <3>1. j - 1 \in 1..k
      BY <2>2
    <3>2. e[j - 1] < e[j]
      BY <1>2, <2>2
    <3> QED BY <1>4, <3>1, <3>2
  <2> QED BY <2>1, <2>2
<1>6. ASSUME NEW i \in 1..Len(v)
      PROVE  /\ v[i].t = "eom" => \E j \in 1..k : g[j] = i
             /\ v[i].t # "text" => \E j \in 1..k : i <= g[j]
  <2>1. v[i] = w[i + 1] /\ i + 1 \in 1..Len(w) /\ i \in Nat
    BY <1>1
  <2>2. ASSUME v[i].t = "eom" PROVE \E j \in 1..k : g[j] = i
    <3>1. PICK j \in 1..k : e[j] = i + 1
      BY <1>2, <2>1, <2>2
    <3> QED BY <1>4, <2>1, <3>1
  <2>3. ASSUME v[i].t # "text" PROVE \E j \in 1..k : i <= g[j]
    <3>1. PICK j \in 1..k : i + 1 <= e[j]
      BY <1>2, <2>1, <2>3
    <3> QED BY <1>4, <2>1, <3>1
  <2> QED BY <2>2, <2>3
<1>7. Load(v, k)
  BY <1>4, <1>5, <1>6 DEF Load
<1> QED BY <1>7 DEF v

\* The end of a message arrives.
LEMMA LoadEom ==
    ASSUME NEW w \in Seq(Items), w # << >>, w[1].t = "eom", NEW k \in Nat, Load(w, k)
    PROVE  k >= 1 /\ Load(Tail(w), k - 1)
<1> DEFINE v == Tail(w)
<1>1. /\ Len(w) \in Nat /\ Len(w) >= 1 /\ Len(v) = Len(w) - 1
      /\ \A i \in 1..Len(v) : v[i] = w[i + 1] /\ i + 1 \in 1..Len(w)
  BY TailIs
<1>2. PICK e \in [1..k -> 1..Len(w)] :
       /\ \A j \in 1..k : w[e[j]].t = "eom" /\ (j > 1 => e[j - 1] < e[j])
       /\ \A i \in 1..Len(w) :
            /\ w[i].t = "eom" => \E j \in 1..k : e[j] = i
            /\ w[i].t # "text" => \E j \in 1..k : i <= e[j]
  BY DEF Load
<1>3. \A j \in 1..k : e[j] >= j /\ e[j] \in 1..Len(w) /\ e[j] \in Nat
  <2>1. \A j \in 1..k : e[j] >= j
    BY <1>1, <1>2, LoadOrder
  <2> QED BY <2>1
<1>4. k >= 1 /\ e[1] = 1
  <2>1. PICK j \in 1..k : e[j] = 1
    BY <1>1, <1>2
  <2>2. j = 1
    BY <1>3, <2>1
  <2> QED BY <2>1, <2>2
<1> HIDE DEF v
<1> DEFINE g == [j \in 1..(k - 1) |-> e[j + 1] - 1]
<1>5. \A j \in 1..(k - 1) : /\ j + 1 \in 1..k /\ e[j + 1] - 1 \in 1..Len(v)
                            /\ v[e[j + 1] - 1] = w[e[j + 1]]
  <2> TAKE j \in 1..(k - 1)
  <2>1. j + 1 \in 1..k /\ e[j + 1] >= j + 1 /\ e[j + 1] \in 1..Len(w) /\ j \in Nat /\ j >= 1
    BY <1>3
  <2>2. e[j + 1] - 1 \in 1..Len(v) /\ (e[j + 1] - 1) + 1 = e[j + 1]
    BY <1>1, <2>1
  <2> QED BY <1>1, <2>1, <2>2
<1>6. /\ g \in [1..(k - 1) -> 1..Len(v)]
      /\ \A j \in 1..(k - 1) : g[j] = e[j + 1] - 1 /\ e[j + 1] \in Nat /\ j \in Nat
  BY <1>3, <1>5
<1> HIDE DEF g
<1>7. \A j \in 1..(k - 1) : v[g[j]].t = "eom" /\ (j > 1 => g[j - 1] < g[j])
  <2> TAKE j \in 1..(k - 1)
  <2>0. j + 1 \in 1..k /\ v[e[j + 1] - 1] = w[e[j + 1]] /\ g[j] = e[j + 1] - 1
    BY <1>5, <1>6
  <2>1. v[g[j]].t = "eom"
    <3>1. w[e[j + 1]].t = "eom"
      BY <1>2, <2>0
    <3>2. v[g[j]] = w[e[j + 1]]
      BY <2>0
    <3> QED BY <3>1, <3>2
  <2>2. ASSUME j > 1 PROVE g[j - 1] < g[j]
    <3>1. j - 1 \in 1..(k - 1) /\ (j - 1) + 1 = j /\ j + 1 \in 1..k /\ j + 1 > 1 /\ (j + 1) - 1 = j
      BY <1>6, <2>2
    <3>2. e[j] < e[j + 1]
      BY <1>2, <3>1
    <3>3. g[j - 1] = e[j] - 1 /\ g[j] = e[j + 1] - 1 /\ e[j] \in Nat /\ e[j + 1] \in Nat
      BY <1>6, <3>1
    <3> QED BY <3>2, <3>3
  <2> QED BY <2>1, <2>2
<1>8. ASSUME NEW i \in 1..Len(v)
      PROVE  /\ v[i].t = "eom" => \E j \in 1..(k - 1) : g[j] = i
             /\ v[i].t # "text" => \E j \in 1..(k - 1) : i <= g[j]
  <2>1. v[i] = w[i + 1] /\ i + 1 \in 1..Len(w) /\ i \in Nat /\ i >= 1
    BY <1>1
  <2>2. ASSUME NEW j \in 1..k, i + 1 <= e[j]
        PROVE  j - 1 \in 1..(k - 1) /\ g[j - 1] = e[j] - 1 /\ e[j] \in Nat
    <3>1. j # 1
      BY <1>4, <2>1, <2>2
    <3>2. j - 1 \in 1..(k - 1) /\ (j - 1) + 1 = j
      BY <3>1
    <3> QED BY <1>3, <1>6, <3>2
  <2>3. ASSUME v[i].t = "eom" PROVE \E j \in 1..(k - 1) : g[j] = i
    <3>1. PICK j \in 1..k : e[j] = i + 1
      BY <1>2, <2>1, <2>3
    <3>2. i + 1 <= e[j]
      BY <2>1, <3>1
    <3>3. j - 1 \in 1..(k - 1) /\ g[j - 1] = e[j] - 1
      BY <2>2, <3>2
    <3>4. g[j - 1] = i
      BY <2>1, <3>1, <3>3
    <3> QED BY <3>3, <3>4
  <2>4. ASSUME v[i].t # "text" PROVE \E j \in 1..(k - 1) : i <= g[j]
    <3>1. PICK j \in 1..k : i + 1 <= e[j]
      BY <1>2, <2>1, <2>4
    <3>2. i <= g[j - 1]
      BY <2>1, <2>2, <3>1
    <3> QED BY <2>2, <3>1, <3>2
  <2> QED BY <2>3, <2>4
<1>9. Load(v, k - 1)
  BY <1>6, <1>7, <1>8 DEF Load
<1> QED BY <1>4, <1>9 DEF v

\* Something is sent behind a load: text, or a message.
LEMMA LoadMore ==
    ASSUME NEW w \in Seq(Items), NEW k \in Nat, Load(w, k), NEW q \in Seq(Items)
    PROVE  /\ (\A i \in 1..Len(q) : q[i].t = "text") => Load(w \o q, k)
           /\ q # << >> /\ (\A i \in 1..Len(q) : q[i].t = "eom" <=> i = Len(q))
                => Load(w \o q, k + 1)
<1> DEFINE v == w \o q
           n == Len(w)
<1>1. /\ n \in Nat /\ Len(q) \in Nat /\ Len(v) = n + Len(q)
      /\ \A i \in 1..n : v[i] = w[i] /\ i \in 1..Len(v)
      /\ \A i \in 1..Len(q) : v[n + i] = q[i] /\ n + i \in 1..Len(v)
      /\ \A i \in 1..Len(v) : i > n => i - n \in 1..Len(q) /\ v[i] = q[i - n]
  BY ConcatIs
<1>2. PICK e \in [1..k -> 1..n] :
       /\ \A j \in 1..k : w[e[j]].t = "eom" /\ (j > 1 => e[j - 1] < e[j])
       /\ \A i \in 1..n :
            /\ w[i].t = "eom" => \E j \in 1..k : e[j] = i
            /\ w[i].t # "text" => \E j \in 1..k : i <= e[j]
  BY DEF Load
<1> HIDE DEF v, n
<1>3. \A j \in 1..k : e[j] \in 1..Len(v) /\ v[e[j]].t = "eom" /\ e[j] \in Nat /\ e[j] <= n
  <2> TAKE j \in 1..k
  <2>1. e[j] \in 1..n /\ w[e[j]].t = "eom"
    BY <1>2
  <2>2. v[e[j]] = w[e[j]] /\ e[j] \in 1..Len(v)
    BY <1>1, <2>1
  <2> QED BY <1>1, <2>1, <2>2
<1>4. ASSUME \A i \in 1..Len(q) : q[i].t = "text" PROVE Load(v, k)
  <2>1. e \in [1..k -> 1..Len(v)]
    BY <1>3
  <2>2. ASSUME NEW i \in 1..Len(v)
        PROVE  /\ v[i].t = "eom" => \E j \in 1..k : e[j] = i
               /\ v[i].t # "text" => \E j \in 1..k : i <= e[j]
    <3>1. CASE i \in 1..n
      BY <1>1, <1>2, <3>1
    <3>2. CASE i > n
      <4>1. i - n \in 1..Len(q) /\ v[i] = q[i - n]
        BY <1>1, <3>2
      <4>2. v[i].t = "text"
        BY <1>4, <4>1
      <4> QED BY <4>2
    <3> QED BY <1>1, <3>1, <3>2
  <2> QED BY <1>2, <1>3, <2>1, <2>2 DEF Load
<1>5. ASSUME q # << >>, \A i \in 1..Len(q) : q[i].t = "eom" <=> i = Len(q)
      PROVE  Load(v, k + 1)
  <2> DEFINE g == [j \in 1..(k + 1) |-> IF j <= k THEN e[j] ELSE Len(v)]
  <2>1. Len(q) >= 1 /\ Len(v) \in Nat /\ Len(v) > n /\ v[Len(v)].t = "eom"
    <3>1. Len(q) >= 1
      BY <1>1, <1>5
    <3>2. Len(q) \in 1..Len(q) /\ n + Len(q) = Len(v)
      BY <1>1, <3>1
    <3>3. v[n + Len(q)] = q[Len(q)]
      BY <1>1, <3>2
    <3>4. q[Len(q)].t = "eom"
      BY <1>5, <3>2
    <3>5. Len(v) \in Nat /\ Len(v) > n
      BY <1>1, <3>1
    <3>6. v[Len(v)].t = "eom"
      BY <3>2, <3>3, <3>4
    <3> QED BY <3>1, <3>5, <3>6
  <2>2. /\ g \in [1..(k + 1) -> 1..Len(v)]
        /\ \A j \in 1..k : g[j] = e[j] /\ j \in 1..(k + 1)
        /\ g[k + 1] = Len(v) /\ k + 1 \in 1..(k + 1)
    <3>1. \A j \in 1..(k + 1) : j <= k => j \in 1..k
      OBVIOUS
    <3>2. Len(v) \in 1..Len(v)
      BY <1>1, <2>1
    <3>3. g \in [1..(k + 1) -> 1..Len(v)]
      BY <1>3, <3>1, <3>2
    <3> QED BY <3>3
  <2> HIDE DEF g
  <2>3. \A j \in 1..(k + 1) : v[g[j]].t = "eom" /\ (j > 1 => g[j - 1] < g[j])
    <3> TAKE j \in 1..(k + 1)
    <3>1. CASE j \in 1..k
      <4>1. j > 1 => j - 1 \in 1..k
        BY <3>1
      <4> QED BY <1>2, <1>3, <2>2, <3>1, <4>1
    <3>2. CASE j = k + 1
      <4>1. j > 1 => j - 1 \in 1..k
        BY <3>2
      <4>2. \A x \in 1..k : e[x] < Len(v)
        BY <1>1, <1>3, <2>1
      <4> QED BY <2>1, <2>2, <3>2, <4>1, <4>2
    <3> QED BY <3>1, <3>2
  <2>4. ASSUME NEW i \in 1..Len(v)
        PROVE  /\ v[i].t = "eom" => \E j \in 1..(k + 1) : g[j] = i
               /\ v[i].t # "text" => \E j \in 1..(k + 1) : i <= g[j]
    <3>1. i <= g[k + 1] /\ k + 1 \in 1..(k + 1)
      BY <1>1, <2>2
    <3>2. ASSUME v[i].t = "eom" PROVE \E j \in 1..(k + 1) : g[j] = i
      <4>1. CASE i \in 1..n
        <5>1. PICK j \in 1..k : e[j] = i
          BY <1>1, <1>2, <3>2, <4>1
        <5> QED BY <2>2, <5>1
      <4>2. CASE i > n
        <5>1. i - n = Len(q)
          BY <1>1, <1>5, <3>2, <4>2
        <5>2. i = Len(v)
          BY <1>1, <5>1
        <5> QED BY <2>2, <5>2
      <4> QED BY <1>1, <4>1, <4>2
    <3> QED BY <3>1, <3>2
  <2> QED BY <2>2, <2>3, <2>4 DEF Load
<1> QED BY <1>4, <1>5 DEF v
\* u2 carries what u carries, and the only difference is text.
Like(u, u2) ==
    /\ u2 \in Seq(Items)
    /\ \A core \in Seq(Items) : Carries(u, core) => Carries(u2, core)
    /\ \A k \in Nat : Load(u, k) => Load(u2, k)
    /\ \A i \in 1..Len(u) : u[i].t # "text" => \E j \in 1..Len(u2) : u2[j] = u[i]
    /\ \A j \in 1..Len(u2) : u2[j] = Text \/ \E i \in 1..Len(u) : u2[j] = u[i]

\* Nothing changes.
LEMMA LikeSame ==
    ASSUME NEW w \in Seq(Items)
    PROVE  Like(w, w)
  BY DEF Like

\* A line of text has arrived.
LEMMA LikeTail ==
    ASSUME NEW w \in Seq(Items), w # << >>, w[1].t = "text"
    PROVE  Like(w, Tail(w))
<1>1. \A core \in Seq(Items) : Carries(w, core) => Carries(Tail(w), core)
  BY CarriesText
<1>2. \A k \in Nat : Load(w, k) => Load(Tail(w), k)
  BY LoadTail
<1> DEFINE v == Tail(w)
<1>3. /\ v \in Seq(Items) /\ Len(v) = Len(w) - 1 /\ Len(w) \in Nat
      /\ \A i \in 1..Len(v) : v[i] = w[i + 1] /\ i + 1 \in 1..Len(w)
  BY TailIs
<1> HIDE DEF v
<1>4. \A i \in 1..Len(w) : w[i].t # "text" => \E j \in 1..Len(v) : v[j] = w[i]
  <2> SUFFICES ASSUME NEW i \in 1..Len(w), w[i].t # "text"
               PROVE  \E j \in 1..Len(v) : v[j] = w[i]
    OBVIOUS
  <2>1. i # 1
    OBVIOUS
  <2>2. i - 1 \in 1..Len(v) /\ (i - 1) + 1 = i
    BY <1>3, <2>1
  <2>3. v[i - 1] = w[i]
    BY <1>3, <2>2
  <2> QED BY <2>2, <2>3
<1>5. \A j \in 1..Len(v) : \E i \in 1..Len(w) : v[j] = w[i]
  BY <1>3
<1> QED BY <1>1, <1>2, <1>3, <1>4, <1>5 DEF Like, v

\* A line of text is sent.
LEMMA LikeMore ==
    ASSUME NEW w \in Seq(Items)
    PROVE  Like(w, w \o << Text >>)
<1> DEFINE v == w \o << Text >>
<1>1. \A core \in Seq(Items) : Carries(w, core) => Carries(v, core)
  BY CarriesMore
<1>2. /\ v \in Seq(Items) /\ Len(v) = Len(w) + 1 /\ Len(w) \in Nat
      /\ \A i \in 1..Len(w) : v[i] = w[i] /\ i \in 1..Len(v)
      /\ v[Len(w) + 1] = Text
  BY LinesAreItems
<1>3. \A k \in Nat : Load(w, k) => Load(v, k)
  <2>1. << Text >> \in Seq(Items) /\ \A i \in 1..Len(<< Text >>) : << Text >>[i].t = "text"
    BY LinesAreItems
  <2> QED BY <2>1, LoadMore
<1> HIDE DEF v
<1>4. \A j \in 1..Len(v) : v[j] = Text \/ \E i \in 1..Len(w) : v[j] = w[i]
  <2> TAKE j \in 1..Len(v)
  <2>1. j \in 1..Len(w) \/ j = Len(w) + 1
    BY <1>2
  <2> QED BY <1>2, <2>1
<1>5. \A i \in 1..Len(w) : w[i].t # "text" => \E j \in 1..Len(v) : v[j] = w[i]
  BY <1>2
<1> QED BY <1>1, <1>2, <1>3, <1>4, <1>5 DEF Like, v

\* A line of text more, or nothing.
SomeText(q) == q = << >> \/ q = << Text >>

\* It is like what was there.
LEMMA LikePut ==
    ASSUME NEW w \in Seq(Items), NEW q, SomeText(q)
    PROVE  Like(w, w \o q)
<1>1. w \o << >> = w
  OBVIOUS
<1> QED BY <1>1, LikeSame, LikeMore DEF SomeText

(***************************************************************************)
(* What keeps a message whole: the wires.                                  *)
(***************************************************************************)

\* A sound piece behind a sound one.
LEMMA SoundPut ==
    ASSUME NEW zero, NEW u \in Seq(Items), NEW v \in Seq(Items),
           Framed(u), Ended(u), zero => Zero(u), Sound(v, zero)
    PROVE  Sound(u \o v, zero)
<1> DEFINE w == u \o v
           n == Len(u)
<1>1. /\ n \in Nat /\ Len(v) \in Nat /\ Len(w) = n + Len(v)
      /\ \A i \in 1..n : w[i] = u[i]
      /\ \A i \in 1..Len(w) : i > n => i - n \in 1..Len(v) /\ w[i] = v[i - n]
  BY ConcatIs
<1>2. (u # << >> => n >= 1) /\ (n = 0 => u = << >>) /\ (v # << >> <=> Len(v) >= 1)
  OBVIOUS
<1> HIDE DEF w, n
<1>3. Framed(w)
  <2> SUFFICES ASSUME NEW k \in 1..(Len(w) - 1), w[k].t \in {"head", "data"}
               PROVE  w[k + 1].t \in {"data", "eom"}
    BY DEF Framed
  <2>1. CASE k < n
    <3>1. k \in 1..(Len(u) - 1) /\ w[k] = u[k] /\ w[k + 1] = u[k + 1]
      BY <1>1, <2>1 DEF n
    <3> QED BY <3>1 DEF Framed
  <2>2. CASE k = n
    <3>1. w[k] = u[Len(u)] /\ u # << >>
      BY <1>1, <2>2 DEF n
    <3> QED BY <3>1 DEF Ended
  <2>3. CASE k > n
    <3>1. k \in 1..Len(w) /\ k + 1 \in 1..Len(w) /\ k + 1 > n
      BY <1>1, <2>3
    <3>2. w[k] = v[k - n] /\ w[k + 1] = v[(k + 1) - n]
      BY <1>1, <2>3, <3>1
    <3>3. k - n \in 1..(Len(v) - 1) /\ (k + 1) - n = (k - n) + 1
      BY <1>1, <2>3
    <3>4. Framed(v)
      BY DEF Sound
    <3> QED BY <3>2, <3>3, <3>4 DEF Framed
  <2> QED BY <1>1, <2>1, <2>2, <2>3
<1>4. Ended(w)
  <2> SUFFICES ASSUME w # << >> PROVE w[Len(w)].t \notin {"head", "data"}
    BY DEF Ended
  <2>1. CASE Len(v) = 0
    <3>1. w = u
      <4>1. v = << >> /\ u \o << >> = u
        BY <1>2, <2>1
      <4> QED BY <4>1 DEF w
    <3> QED BY <3>1 DEF Ended
  <2>2. CASE Len(v) >= 1
    <3>1. Len(w) \in 1..Len(w) /\ Len(w) > n /\ Len(w) - n = Len(v)
      BY <1>1, <2>2
    <3>2. w[Len(w)] = v[Len(v)] /\ v # << >>
      BY <1>1, <1>2, <2>2, <3>1
    <3> QED BY <3>2 DEF Sound, Ended
  <2> QED BY <1>1, <2>1, <2>2
<1>5. zero => Zero(w)
  <2> SUFFICES ASSUME zero, NEW k \in 1..Len(w)
               PROVE  /\ w[k].t = "FS" => \A j \in 1..Len(w[k].x) : w[k].x[j].from = 0
                      /\ w[k].t = "head" => w[k].x = 0
    BY DEF Zero
  <2>1. (\E i \in 1..Len(u) : w[k] = u[i]) \/ (\E i \in 1..Len(v) : w[k] = v[i])
    BY <1>1 DEF n
  <2>2. Zero(u) /\ Zero(v)
    BY DEF Sound
  <2> QED BY <2>1, <2>2 DEF Zero
<1> QED BY <1>3, <1>4, <1>5 DEF Sound, w

\* The first item of a wire has arrived.
LEMMA SoundTail ==
    ASSUME NEW w \in Seq(Items), w # << >>
    PROVE  /\ Framed(w) => Framed(Tail(w))
           /\ Ended(w) => Ended(Tail(w))
           /\ Zero(w) => Zero(Tail(w))
<1> DEFINE v == Tail(w)
<1>1. /\ Len(w) \in Nat /\ Len(w) >= 1 /\ Len(v) = Len(w) - 1 /\ v \in Seq(Items)
      /\ \A i \in 1..Len(v) : v[i] = w[i + 1] /\ i + 1 \in 1..Len(w)
  BY TailIs
<1> HIDE DEF v
<1>2. ASSUME Framed(w) PROVE Framed(v)
  <2> SUFFICES ASSUME NEW k \in 1..(Len(v) - 1), v[k].t \in {"head", "data"}
               PROVE  v[k + 1].t \in {"data", "eom"}
    BY DEF Framed
  <2>1. k + 1 \in 1..(Len(w) - 1) /\ v[k] = w[k + 1] /\ v[k + 1] = w[(k + 1) + 1]
    BY <1>1
  <2> QED BY <1>2, <2>1 DEF Framed
<1>3. ASSUME Ended(w) PROVE Ended(v)
  <2> SUFFICES ASSUME v # << >> PROVE v[Len(v)].t \notin {"head", "data"}
    BY DEF Ended
  <2>1. Len(v) >= 1
    BY <1>1
  <2>2. v[Len(v)] = w[Len(w)]
    BY <1>1, <2>1
  <2> QED BY <1>3, <2>2 DEF Ended
<1>4. ASSUME Zero(w) PROVE Zero(v)
  BY <1>1, <1>4 DEF Zero
<1> QED BY <1>2, <1>3, <1>4 DEF v

\* What has been cut off is lost.
LEMMA SoundPrefix ==
    ASSUME NEW w \in Seq(Items), NEW n \in 0..Len(w)
    PROVE  /\ SubSeq(w, 1, n) \in Seq(Items)
           /\ Framed(w) => Framed(SubSeq(w, 1, n))
           /\ Zero(w) => Zero(SubSeq(w, 1, n))
<1> DEFINE v == SubSeq(w, 1, n)
<1>1. /\ v \in Seq(Items) /\ Len(v) = n /\ n \in Nat /\ n <= Len(w) /\ Len(w) \in Nat
      /\ \A i \in 1..n : v[i] = w[i]
  OBVIOUS
<1> HIDE DEF v
<1>2. ASSUME Framed(w) PROVE Framed(v)
  <2> SUFFICES ASSUME NEW k \in 1..(Len(v) - 1), v[k].t \in {"head", "data"}
               PROVE  v[k + 1].t \in {"data", "eom"}
    BY DEF Framed
  <2>1. k \in 1..(Len(w) - 1) /\ v[k] = w[k] /\ v[k + 1] = w[k + 1]
    BY <1>1
  <2> QED BY <1>2, <2>1 DEF Framed
<1>3. ASSUME Zero(w) PROVE Zero(v)
  <2>1. \A i \in 1..n : i \in 1..Len(w)
    BY <1>1
  <2> QED BY <1>1, <1>3, <2>1 DEF Zero
<1> QED BY <1>1, <1>2, <1>3 DEF v

\* Lines without a message in them.
LEMMA SoundLines ==
    ASSUME NEW zero, NEW w \in Seq(Items),
           \A i \in 1..Len(w) : w[i].t \notin {"head", "data", "FS"}
    PROVE  Sound(w, zero)
<1>1. Len(w) \in Nat /\ (w # << >> => Len(w) \in 1..Len(w))
  OBVIOUS
<1>2. Framed(w)
  BY <1>1 DEF Framed
<1>3. Ended(w)
  BY <1>1 DEF Ended
<1>4. Zero(w)
  BY DEF Zero
<1> QED BY <1>2, <1>3, <1>4 DEF Sound
(***************************************************************************)
(* The transfer.                                                           *)
(***************************************************************************)

\* What is left alone by what does not end a message.
Still(c, c2) == /\ c2.Active = c.Active /\ c2.FBBHeaders = c.FBBHeaders
                /\ c2.FBBMsgsSent = c.FBBMsgsSent /\ c2.FBBReplyChars = c.FBBReplyChars
                /\ c2.InputMode = c.InputMode /\ c2.TempMsg.bid = c.TempMsg.bid
                /\ Healthy(c2) => Healthy(c)

\* The stream is about to be closed.
LEMMA FlushIs ==
    ASSUME NEW S \in Results
    PROVE  LET R == CloseAfterFlush(S) IN
           /\ R \in Results /\ R.n = S.n /\ R.out = S.out \o << Text >>
           /\ Still(S.c, R.c) /\ R.c.closing = "flush" /\ ~Healthy(R.c)
           /\ R.c.TempMsg = S.c.TempMsg /\ R.c.sumOK = S.c.sumOK
<1> DEFINE c2 == [S.c EXCEPT !.closing = "flush"]
           T == [S EXCEPT !.c.closing = "flush"]
           R == CloseAfterFlush(S)
<1>1. /\ c2 \in Streams /\ c2.closing = "flush" /\ Still(S.c, c2) /\ ~Healthy(c2)
      /\ c2.TempMsg = S.c.TempMsg /\ c2.sumOK = S.c.sumOK
  <2>1. S.c \in Streams
    BY ResultIs
  <2> QED BY <2>1 DEF Streams, Still, Healthy
<1>2. T.n = S.n /\ T.c = c2 /\ T.out = S.out /\ (c2 \in Streams => T \in Results)
  BY DEF Results
<1>3. R = Put(T, << Text >>)
  BY DEF CloseAfterFlush, Text
<1> HIDE DEF T, c2
<1>4. /\ Put(T, << Text >>) \in Results /\ Put(T, << Text >>).n = T.n
      /\ Put(T, << Text >>).c = T.c /\ Put(T, << Text >>).out = T.out \o << Text >>
  BY <1>1, <1>2, PutIs, LinesAreItems
<1> QED BY <1>1, <1>2, <1>3, <1>4

\* And what there is of the message is not saved.
LEMMA GiveUpIs ==
    ASSUME NEW S \in Results
    PROVE  LET R == CloseAfterFlush([S EXCEPT !.c.DontSaveRestartData = TRUE]) IN
           /\ R \in Results /\ R.n = S.n /\ R.out = S.out \o << Text >>
           /\ Still(S.c, R.c) /\ R.c.closing = "flush" /\ ~Healthy(R.c)
           /\ R.c.TempMsg = S.c.TempMsg /\ R.c.sumOK = S.c.sumOK
<1> DEFINE c2 == [S.c EXCEPT !.DontSaveRestartData = TRUE]
           T == [S EXCEPT !.c.DontSaveRestartData = TRUE]
           R == CloseAfterFlush(T)
<1>1. /\ c2 \in Streams /\ Still(S.c, c2)
      /\ c2.TempMsg = S.c.TempMsg /\ c2.sumOK = S.c.sumOK
  <2>1. S.c \in Streams
    BY ResultIs
  <2> QED BY <2>1 DEF Streams, Still, Healthy
<1>2. T.n = S.n /\ T.c = c2 /\ T.out = S.out /\ (c2 \in Streams => T \in Results)
  BY DEF Results
<1> HIDE DEF T, c2
<1>3. /\ R \in Results /\ R.n = T.n /\ R.out = T.out \o << Text >>
      /\ Still(T.c, R.c) /\ R.c.closing = "flush" /\ ~Healthy(R.c)
      /\ R.c.TempMsg = T.c.TempMsg /\ R.c.sumOK = T.c.sumOK
  BY <1>1, <1>2, FlushIs
<1> HIDE DEF R
<1>4. Still(S.c, R.c)
  BY <1>1, <1>2, <1>3 DEF Still
<1> QED BY <1>1, <1>2, <1>3, <1>4 DEF R, T

\* What is no block ends the transfer.
LEMMA InvalidIs ==
    ASSUME NEW S \in Results
    PROVE  LET R == InvalidBlock(S) IN
           /\ R \in Results /\ R.n = S.n /\ R.out = S.out \o << Text >>
           /\ Still(S.c, R.c) /\ ~Healthy(R.c)
           /\ R.c.TempMsg.whole = S.c.TempMsg.whole /\ R.c.sumOK = S.c.sumOK
<1> DEFINE R == InvalidBlock(S)
           l == S.c.TempMsg.length - 1
           T == [S EXCEPT !.c.TempMsg.length = @ - 1, !.c.DontSaveRestartData = FALSE]
           t2 == [S.c.TempMsg EXCEPT !.length = l]
           c2 == [S.c EXCEPT !.TempMsg = t2, !.DontSaveRestartData = FALSE]
<1>1. S.c \in Streams
  BY ResultIs
<1>2. CASE S.c.TempMsg.length > 0
  <2>1. R = CloseAfterFlush(T)
    BY <1>2 DEF InvalidBlock
  <2>2. l \in Nat
    BY <1>1, <1>2, StreamIs
  <2>3. /\ c2 \in Streams /\ c2.TempMsg = t2 /\ t2.bid = S.c.TempMsg.bid
        /\ t2.whole = S.c.TempMsg.whole /\ c2.sumOK = S.c.sumOK
        /\ c2.Active = S.c.Active /\ c2.FBBHeaders = S.c.FBBHeaders
        /\ c2.FBBMsgsSent = S.c.FBBMsgsSent /\ c2.FBBReplyChars = S.c.FBBReplyChars
        /\ c2.InputMode = S.c.InputMode /\ c2.closing = S.c.closing
    <3> HIDE DEF l
    <3> QED BY <1>1, <2>2 DEF Streams
  <2>4. T.n = S.n /\ T.c = c2 /\ T.out = S.out /\ (c2 \in Streams => T \in Results)
    BY DEF Results
  <2> HIDE DEF T, c2, t2, l, R
  <2>5. Still(S.c, c2)
    BY <2>3 DEF Still, Healthy
  <2>6. LET Q == CloseAfterFlush(T) IN
        /\ Q \in Results /\ Q.n = T.n /\ Q.out = T.out \o << Text >>
        /\ Still(T.c, Q.c) /\ ~Healthy(Q.c)
        /\ Q.c.TempMsg = T.c.TempMsg /\ Q.c.sumOK = T.c.sumOK
    BY <2>3, <2>4, FlushIs
  <2>7. Still(S.c, R.c)
    BY <2>1, <2>4, <2>5, <2>6 DEF Still
  <2> QED BY <2>1, <2>3, <2>4, <2>6, <2>7 DEF R
<1>3. CASE ~(S.c.TempMsg.length > 0)
  <2>1. R = CloseAfterFlush([S EXCEPT !.c.DontSaveRestartData = TRUE])
    BY <1>3 DEF InvalidBlock
  <2> HIDE DEF R
  <2> QED BY <2>1, GiveUpIs DEF R
<1> QED BY <1>2, <1>3

\* The least index.
LEMMA FirstIs ==
    ASSUME NEW n \in Nat, NEW I \in SUBSET (1..n), I # {}
    PROVE  First(I) \in I
<1>1. I \in SUBSET Nat
  OBVIOUS
<1>2. \E i \in I : \A j \in I : i <= j
  BY <1>1, LeastNatural
<1> QED BY <1>2 DEF First

\* A record of a broken transfer.
LEMMA RestartRecIs ==
    ASSUME NEW n \in Nodes, NEW p, NEW m, RestartRecs(n, p, m) # {}
    PROVE  /\ First(RestartRecs(n, p, m)) \in 1..Len(n.RestartData)
           /\ n.RestartData[First(RestartRecs(n, p, m))] \in Restarts
<1> DEFINE I == RestartRecs(n, p, m)
<1>1. /\ n.RestartData \in Seq(Restarts) /\ Len(n.RestartData) \in Nat
      /\ DOMAIN n.RestartData = 1..Len(n.RestartData)
  BY NodeIs
<1>2. I \in SUBSET (1..Len(n.RestartData))
  BY <1>1 DEF RestartRecs
<1> HIDE DEF I
<1>3. First(I) \in 1..Len(n.RestartData)
  BY <1>1, <1>2, FirstIs DEF I
<1>4. n.RestartData[First(I)] \in Restarts
  BY <1>1, <1>3
<1> QED BY <1>3, <1>4 DEF I

\* What there is of a message changes.
Gets(S, s, l, w) == [S EXCEPT !.c.sumOK = s, !.c.TempMsg.length = l, !.c.TempMsg.whole = w]

\* Nothing else does.
LEMMA GetsIs ==
    ASSUME NEW S \in Results, NEW s \in BOOLEAN, NEW l \in Nat, NEW w \in BOOLEAN
    PROVE  LET R == Gets(S, s, l, w) IN
           /\ R \in Results /\ R.n = S.n /\ R.out = S.out /\ Still(S.c, R.c)
           /\ R.c.sumOK = s /\ R.c.TempMsg.whole = w
<1>1. S.c \in Streams
  BY ResultIs
<1> DEFINE R == Gets(S, s, l, w)
           c2 == [S.c EXCEPT !.sumOK = s,
                            !.TempMsg = [S.c.TempMsg EXCEPT !.length = l, !.whole = w]]
<1>2. R.n = S.n /\ R.out = S.out
  BY DEF Results, Gets
<1>3. R.c = c2
  BY <1>1 DEF Results, Streams, Gets
<1>4. c2 \in Streams /\ c2.sumOK = s /\ c2.TempMsg.whole = w
  BY <1>1 DEF Streams
<1>5. Still(S.c, c2)
  BY <1>1 DEF Streams, Still, Healthy
<1>6. R.c \in Streams => R \in Results
  BY DEF Results, Gets
<1> HIDE DEF c2
<1> QED BY <1>2, <1>3, <1>4, <1>5, <1>6

\* The header of a message.
LEMMA HeaderIs ==
    ASSUME NEW S \in Results, NEW p, NEW x \in Nat
    PROVE  LET R == Header(S, p, x) IN
           /\ R \in Results /\ R.n = S.n /\ Still(S.c, R.c)
           /\ \E q : SomeText(q) /\ R.out = S.out \o q
           /\ x = 0 => R.c.TempMsg = S.c.TempMsg
<1> DEFINE T == [S EXCEPT !.c.sumOK = TRUE]
           c2 == [S.c EXCEPT !.sumOK = TRUE]
           I == RestartRecs(S.n, p, S.c.TempMsg.bid)
           r == S.n.RestartData[First(I)]
           R == Header(S, p, x)
<1>0. S.c \in Streams /\ S.n \in Nodes /\ S.out \in Seq(Items) /\ S.out \o << >> = S.out
  BY ResultIs
<1>1. c2 \in Streams /\ Still(S.c, c2) /\ c2.TempMsg = S.c.TempMsg
  BY <1>0 DEF Streams, Still, Healthy
<1>2. T.n = S.n /\ T.c = c2 /\ T.out = S.out /\ (c2 \in Streams => T \in Results)
  BY DEF Results
<1> HIDE DEF c2
<1>3. CASE x = 0
  <2>1. R = T
    BY <1>3 DEF Header
  <2> HIDE DEF T, R
  <2> QED BY <1>0, <1>1, <1>2, <1>3, <2>1 DEF R, SomeText
<1>4. CASE x # 0 /\ (I = {} \/ r.length > x)
  <2>1. R = CloseAfterFlush(T)
    BY <1>4 DEF Header
  <2> HIDE DEF T, R
  <2>2. /\ CloseAfterFlush(T) \in Results /\ CloseAfterFlush(T).n = T.n
        /\ CloseAfterFlush(T).out = T.out \o << Text >> /\ Still(T.c, CloseAfterFlush(T).c)
    BY <1>1, <1>2, FlushIs
  <2>3. Still(S.c, R.c)
    BY <1>1, <1>2, <2>1, <2>2 DEF Still
  <2> QED BY <1>2, <1>4, <2>1, <2>2, <2>3 DEF R, SomeText
<1>5. CASE x # 0 /\ ~(I = {} \/ r.length > x)
  <2> DEFINE w == r.whole /\ r.length = x
  <2>1. R = Gets(S, TRUE, r.length, w)
    BY <1>5 DEF Header, Gets
  <2>2. r \in Restarts
    BY <1>0, <1>5, RestartRecIs
  <2>3. r.length \in Nat /\ w \in BOOLEAN
    <3> HIDE DEF r
    <3>1. r.length \in Nat
      BY <2>2 DEF Restarts
    <3> QED BY <3>1
  <2> HIDE DEF R, r, w, I
  <2> DEFINE yes == TRUE
  <2>4. yes \in BOOLEAN /\ R = Gets(S, yes, r.length, w)
    BY <2>1
  <2> HIDE DEF yes
  <2>5. R \in Results /\ R.n = S.n /\ R.out = S.out /\ Still(S.c, R.c)
    BY <2>3, <2>4, GetsIs
  <2> QED BY <1>0, <1>5, <2>5 DEF R, SomeText
<1> QED BY <1>3, <1>4, <1>5

\* A block of data.
LEMMA DataIs ==
    ASSUME NEW S \in Results, NEW ok \in BOOLEAN
    PROVE  LET R == DataBlock(S, ok) IN
           /\ R \in Results /\ R.n = S.n /\ R.out = S.out /\ Still(S.c, R.c)
           /\ R.c.sumOK = (S.c.sumOK /\ ok) /\ R.c.TempMsg.whole = (S.c.TempMsg.whole /\ ok)
<1> DEFINE R == DataBlock(S, ok)
           s == S.c.sumOK /\ ok
           l == S.c.TempMsg.length + 1
           w == S.c.TempMsg.whole /\ ok
<1>1. S.c \in Streams
  BY ResultIs
<1>2. s \in BOOLEAN /\ w \in BOOLEAN /\ l \in Nat
  BY <1>1, StreamIs
<1>3. R = Gets(S, s, l, w)
  BY DEF DataBlock, Gets
<1> HIDE DEF R, s, l, w
<1>4. /\ R \in Results /\ R.n = S.n /\ R.out = S.out /\ Still(S.c, R.c)
      /\ R.c.sumOK = s /\ R.c.TempMsg.whole = w
  BY <1>2, <1>3, GetsIs
<1> QED BY <1>4 DEF R, s, w
(***************************************************************************)
(* What is wanted.                                                         *)
(***************************************************************************)

\* A record is taken out of a sequence.
LEMMA RemoveIs ==
    ASSUME NEW T, NEW s \in Seq(T), NEW i \in 1..Len(s)
    PROVE  RemoveAt(s, i) \in Seq(T)
<1>1. SubSeq(s, 1, i - 1) \in Seq(T) /\ SubSeq(s, i + 1, Len(s)) \in Seq(T)
  OBVIOUS
<1> QED BY <1>1, ConcatIs DEF RemoveAt

\* A record of a broken transfer is dropped.
LEMMA DropIs ==
    ASSUME NEW n \in Nodes, NEW i \in 1..Len(n.RestartData)
    PROVE  DropRestart(n, i) \in Nodes /\ DropRestart(n, i).MsgHddrPtr = n.MsgHddrPtr
<1> DEFINE d == RemoveAt(n.RestartData, i)
           T(x) == [[n EXCEPT !.RestartData = x] EXCEPT !.file = x]
<1>1. d \in Seq(Restarts)
  BY NodeIs, RemoveIs
<1>2. \A x \in Seq(Restarts) : T(x) \in Nodes /\ T(x).MsgHddrPtr = n.MsgHddrPtr
  BY DEF Nodes
<1>3. DropRestart(n, i) = T(d)
  BY DEF DropRestart, SaveRestartData, Nodes
<1> HIDE DEF d, T
<1> QED BY <1>1, <1>2, <1>3

\* LookupRestart: where to start from.
LEMMA LookupIs ==
    ASSUME NEW n \in Nodes, NEW b, NEW p, NEW m
    PROVE  LET L == LookupRestart(n, b, p, m) IN
           /\ L.n \in Nodes /\ L.n.MsgHddrPtr = n.MsgHddrPtr /\ L.from \in Nat
           /\ ~B1(b, p) => L.from = 0
<1> DEFINE I == RestartRecs(n, p, m)
           i == First(I)
           L == LookupRestart(n, b, p, m)
           Q == [n EXCEPT !.RestartData[i].Count = n.RestartData[i].Count + 1]
<1>1. CASE ~B1(b, p) \/ I = {}
  <2>1. L = [n |-> n, from |-> 0]
    BY <1>1 DEF LookupRestart
  <2> HIDE DEF L
  <2> QED BY <2>1 DEF L
<1>2. CASE B1(b, p) /\ I # {}
  <2>1. i \in 1..Len(n.RestartData) /\ n.RestartData[i] \in Restarts
    BY <1>2, RestartRecIs
  <2>2. CASE n.RestartData[i].Count >= MaxRestarts
    <3>1. L = [n |-> DropRestart(n, i), from |-> 0]
      BY <1>2, <2>2 DEF LookupRestart
    <3> HIDE DEF L, i
    <3> QED BY <2>1, <3>1, DropIs DEF L
  <2>3. CASE ~(n.RestartData[i].Count >= MaxRestarts)
    <3>1. L = [n |-> Q, from |-> n.RestartData[i].length]
      BY <1>2, <2>3 DEF LookupRestart
    <3> HIDE DEF i
    <3> DEFINE e == [n.RestartData[i] EXCEPT !.Count = n.RestartData[i].Count + 1]
               s == [n.RestartData EXCEPT ![i] = e]
    <3>2. e \in Restarts /\ n.RestartData[i].length \in Nat
      BY <2>1 DEF Restarts
    <3>3. s \in Seq(Restarts)
      <4> HIDE DEF e
      <4> QED BY <2>1, <3>2, NodeIs
    <3>4. Q = [n EXCEPT !.RestartData = s]
      OBVIOUS
    <3>5. Q \in Nodes /\ Q.MsgHddrPtr = n.MsgHddrPtr
      <4> HIDE DEF s, Q
      <4> QED BY <3>3, <3>4 DEF Nodes
    <3> HIDE DEF L, Q, s, e
    <3> QED BY <1>2, <3>1, <3>2, <3>5 DEF L
  <2> QED BY <2>2, <2>3
<1> QED BY <1>1, <1>2

\* A message is not wanted only if it is there.
LEMMA WantIs ==
    ASSUME NEW n \in Nodes, NEW m, ~DoWeWantIt(n, m)
    PROVE  Has(n, m)
  BY DEF DoWeWantIt, LookupBID, Has

\* Some message is known to be on its way.
LEMMA TempIs ==
    ASSUME NEW n \in Nodes, NEW m \in Messages, NEW p \in BBSs
    PROVE  LET n2 == [n EXCEPT !.TempBIDs = @ \cup {[bid |-> m, conn |-> p]}] IN
           n2 \in Nodes /\ n2.MsgHddrPtr = n.MsgHddrPtr
<1> DEFINE s == n.TempBIDs \cup {[bid |-> m, conn |-> p]}
           T(x) == [n EXCEPT !.TempBIDs = x]
<1>1. s \in SUBSET [bid : Messages, conn : BBSs]
  BY NodeIs
<1>2. \A x \in SUBSET [bid : Messages, conn : BBSs] : T(x) \in Nodes /\ T(x).MsgHddrPtr = n.MsgHddrPtr
  BY DEF Nodes
<1> HIDE DEF s
<1>3. T(s) \in Nodes /\ T(s).MsgHddrPtr = n.MsgHddrPtr
  BY <1>1, <1>2
<1> QED BY <1>3 DEF s

\* What an FA line does to a stream: an answer more, and a header if the message
\* is wanted.
Said(S, n, a, h) == [S EXCEPT !.n = n, !.c.FBBReplyChars = Append(@, a), !.c.FBBHeaders = @ \o h]

\* Nothing else changes.
LEMMA SaidIs ==
    ASSUME NEW S \in Results, NEW n \in Nodes, NEW a \in Replies, NEW h \in Seq(Headers)
    PROVE  LET R == Said(S, n, a, h) IN
           /\ R \in Results /\ R.n = n /\ R.out = S.out /\ Rest(S.c, R.c)
           /\ R.c.FBBMsgsSent = S.c.FBBMsgsSent
           /\ R.c.FBBReplyChars = Append(S.c.FBBReplyChars, a)
           /\ R.c.FBBHeaders = S.c.FBBHeaders \o h
<1> DEFINE x == Append(S.c.FBBReplyChars, a)
           y == S.c.FBBHeaders \o h
           T(u, v) == [S EXCEPT !.n = n, !.c.FBBReplyChars = u, !.c.FBBHeaders = v]
           C(u, v) == [S.c EXCEPT !.FBBReplyChars = u, !.FBBHeaders = v]
<1>1. S.c \in Streams /\ x \in Seq(Replies) /\ y \in Seq(Headers)
  BY ResultIs, StreamIs, ConcatIs
<1>2. \A u, v : T(u, v).n = n /\ T(u, v).out = S.out /\ T(u, v).c = C(u, v)
  BY DEF Results
<1>3. \A u, v : C(u, v) \in Streams => T(u, v) \in Results
  BY DEF Results
<1>4. \A u \in Seq(Replies) : \A v \in Seq(Headers) :
        /\ C(u, v) \in Streams /\ Rest(S.c, C(u, v)) /\ C(u, v).FBBMsgsSent = S.c.FBBMsgsSent
        /\ C(u, v).FBBReplyChars = u /\ C(u, v).FBBHeaders = v
  BY <1>1 DEF Streams, Rest
<1> HIDE DEF x, y
<1>5. LET R == T(x, y) IN
      /\ R \in Results /\ R.n = n /\ R.out = S.out /\ Rest(S.c, R.c)
      /\ R.c.FBBMsgsSent = S.c.FBBMsgsSent /\ R.c.FBBReplyChars = x /\ R.c.FBBHeaders = y
  <2> HIDE DEF T, C
  <2> QED BY <1>1, <1>2, <1>3, <1>4
<1> QED BY <1>5 DEF x, y, Said
\* An FA line, when the partner has what was sent to it.
LEMMA ProposalIs ==
    ASSUME NEW S \in Results, NEW b \in BBSs, NEW p \in BBSs, NEW m \in Messages, NEW np,
           S.c.FBBMsgsSent => /\ Own(S.n, S.c.FBBHeaders)
                              /\ \A i \in DOMAIN S.c.FBBHeaders : Has(np, S.c.FBBHeaders[i].bid)
    PROVE  LET R == Proposal(S, b, p, m)
               H == IF S.c.FBBMsgsSent THEN << >> ELSE S.c.FBBHeaders
           IN
           /\ R \in Results /\ Later(S.n, R.n, p, np) /\ R.out = S.out
           /\ Rest(S.c, R.c) /\ R.c.FBBMsgsSent = FALSE
           /\ \E a \in Replies :
                /\ R.c.FBBReplyChars = Append(S.c.FBBReplyChars, a)
                /\ a.reply = "-" => Has(R.n, m)
                /\ ~B1(b, p) => a.from = 0
                /\ \/ a.reply \in Refused /\ R.c.FBBHeaders = H
                   \/ a.reply \in Wanted /\ R.c.FBBHeaders = H \o << [bid |-> m, FwdMsg |-> 0] >>
<1> DEFINE T == FlagSentMessages(S, p)
           H == IF S.c.FBBMsgsSent THEN << >> ELSE S.c.FBBHeaders
           L == LookupRestart(T.n, b, p, m)
           Says(n, r, from, header) == Said(T, n, Answer(r, from), header)
           h == << [bid |-> m, FwdMsg |-> 0] >>
           n2 == [L.n EXCEPT !.TempBIDs = @ \cup {[bid |-> m, conn |-> p]}]
           R == Proposal(S, b, p, m)
<1>1. /\ T \in Results /\ Later(S.n, T.n, p, np) /\ T.out = S.out
      /\ Rest(S.c, T.c) /\ T.c.FBBReplyChars = S.c.FBBReplyChars /\ T.c.FBBMsgsSent = FALSE
      /\ T.c.FBBHeaders = H
  BY FlagKeeps
<1>2. R = IF ~DoWeWantIt(T.n, m) THEN Says(T.n, "-", 0, << >>)
          ELSE IF L.from > 0 THEN Says(L.n, "!", L.from, h)
          ELSE IF LookupTempBID(L.n, m) THEN Says(L.n, "=", 0, << >>)
          ELSE Says(n2, "+", 0, h)
  BY DEF Proposal, Said
<1> HIDE DEF T, H
<1>3. T.n \in Nodes /\ T.c \in Streams /\ T.c.FBBHeaders \in Seq(Headers)
      /\ T.c.FBBHeaders \o << >> = T.c.FBBHeaders
  BY <1>1, ResultIs, StreamIs
<1>4. /\ L.n \in Nodes /\ L.n.MsgHddrPtr = T.n.MsgHddrPtr /\ L.from \in Nat
      /\ ~B1(b, p) => L.from = 0
  BY <1>3, LookupIs
<1> HIDE DEF L
<1>5. n2 \in Nodes /\ n2.MsgHddrPtr = T.n.MsgHddrPtr
  BY <1>4, TempIs
<1> HIDE DEF n2
<1>6. h \in Seq(Headers) /\ << >> \in Seq(Headers)
  BY DEF Headers
<1> HIDE DEF h
<1>7. \A r \in Refused \cup Wanted : \A f \in Nat :
        Answer(r, f) \in Replies /\ Answer(r, f).reply = r /\ Answer(r, f).from = f
  BY DEF Answer, Replies
<1> DEFINE Step(Q, a, x) ==
           /\ Q \in Results /\ Later(S.n, Q.n, p, np) /\ Q.out = S.out
           /\ Rest(S.c, Q.c) /\ Q.c.FBBMsgsSent = FALSE
           /\ Q.c.FBBReplyChars = Append(S.c.FBBReplyChars, a)
           /\ Q.c.FBBHeaders = H \o x
           /\ Q.n.MsgHddrPtr = T.n.MsgHddrPtr
<1>8. ASSUME NEW n \in Nodes, n.MsgHddrPtr = T.n.MsgHddrPtr, NEW r \in Refused \cup Wanted,
             NEW f \in Nat, NEW x \in Seq(Headers)
      PROVE  Step(Says(n, r, f, x), Answer(r, f), x)
  <2> DEFINE a == Answer(r, f)
             Q == Said(T, n, a, x)
  <2>0. a \in Replies /\ T \in Results
    BY <1>1, <1>7
  <2> HIDE DEF a
  <2>1. /\ Q \in Results /\ Q.n = n /\ Q.out = T.out /\ Rest(T.c, Q.c)
        /\ Q.c.FBBMsgsSent = T.c.FBBMsgsSent
        /\ Q.c.FBBReplyChars = Append(T.c.FBBReplyChars, a)
        /\ Q.c.FBBHeaders = T.c.FBBHeaders \o x
    BY <2>0, SaidIs
  <2> HIDE DEF Q
  <2>2. Later(T.n, Q.n, p, np)
    BY <1>8, <2>1, LaterSame
  <2>3. Later(S.n, Q.n, p, np)
    BY <1>1, <2>2, LaterTwice
  <2>4. Rest(S.c, Q.c)
    BY <1>1, <2>1 DEF Rest
  <2> QED BY <1>1, <1>8, <2>1, <2>3, <2>4 DEF Q, a
<1> HIDE DEF Says
<1>9. Refused \cup Wanted = {"-", "=", "+", "!"} /\ Refused = {"-", "="} /\ Wanted = {"+", "!"}
  BY DEF Refused, Wanted
<1> DEFINE Goal(Q) ==
           /\ Q \in Results /\ Later(S.n, Q.n, p, np) /\ Q.out = S.out
           /\ Rest(S.c, Q.c) /\ Q.c.FBBMsgsSent = FALSE
           /\ \E a \in Replies :
                /\ Q.c.FBBReplyChars = Append(S.c.FBBReplyChars, a)
                /\ a.reply = "-" => Has(Q.n, m)
                /\ ~B1(b, p) => a.from = 0
                /\ \/ a.reply \in Refused /\ Q.c.FBBHeaders = H
                   \/ a.reply \in Wanted /\ Q.c.FBBHeaders = H \o h
<1>14. ASSUME NEW Q, NEW a \in Replies, NEW x, Step(Q, a, x), a.reply = "-" => Has(Q.n, m),
              ~B1(b, p) => a.from = 0,
              (a.reply \in Refused /\ x = << >>) \/ (a.reply \in Wanted /\ x = h)
       PROVE  Goal(Q)
  <2>1. H \o << >> = H
    BY <1>1, <1>3
  <2>2. (a.reply \in Refused /\ Q.c.FBBHeaders = H) \/ (a.reply \in Wanted /\ Q.c.FBBHeaders = H \o h)
    BY <1>14, <2>1
  <2> QED BY <1>14, <2>2
<1>10. CASE ~DoWeWantIt(T.n, m)
  <2>1. R = Says(T.n, "-", 0, << >>)
    BY <1>2, <1>10
  <2>2. T.n \in Nodes /\ T.n.MsgHddrPtr = T.n.MsgHddrPtr /\ 0 \in Nat /\ << >> \in Seq(Headers)
        /\ "-" \in Refused \cup Wanted
    BY <1>3, <1>3, <1>6, <1>9
  <2> DEFINE a == Answer("-", 0)
  <2>3. a \in Replies /\ a.reply = "-" /\ a.from = 0
    BY <1>7, <2>2
  <2>4. Step(R, a, << >>)
    <3> HIDE DEF Step, R, a
    <3> QED BY <1>8, <2>1, <2>2 DEF a
  <2> HIDE DEF a, R
  <2>5. Has(R.n, m)
    <3>1. Has(T.n, m)
      BY <1>3, <1>10, WantIs
    <3>2. R.n.MsgHddrPtr = T.n.MsgHddrPtr
      BY <2>4
    <3> QED BY <3>1, <3>2 DEF Has
  <2>6. Goal(R)
    <3>1. ~B1(b, p) => a.from = 0
      BY <1>4, <2>3
    <3>2. (a.reply \in Refused /\ << >> = << >>) \/ (a.reply \in Wanted /\ << >> = h)
      BY <1>9, <2>3
    <3> HIDE DEF Goal, Step
    <3> QED BY <1>14, <2>3, <2>4, <2>5, <3>1, <3>2
  <2> QED BY <2>6 DEF R, h, H
<1>11. CASE DoWeWantIt(T.n, m) /\ L.from > 0
  <2>1. R = Says(L.n, "!", L.from, h)
    BY <1>2, <1>11
  <2>2. L.n \in Nodes /\ L.n.MsgHddrPtr = T.n.MsgHddrPtr /\ L.from \in Nat /\ h \in Seq(Headers)
        /\ "!" \in Refused \cup Wanted
    BY <1>3, <1>4, <1>6, <1>9
  <2> DEFINE a == Answer("!", L.from)
  <2>3. a \in Replies /\ a.reply = "!" /\ a.from = L.from
    BY <1>7, <2>2
  <2>4. Step(R, a, h)
    <3> HIDE DEF Step, R, a
    <3> QED BY <1>8, <2>1, <2>2 DEF a
  <2> HIDE DEF a, R
  <2>6. Goal(R)
    <3>1. ~B1(b, p) => a.from = 0
      BY <1>4, <2>3
    <3>2. (a.reply \in Refused /\ h = << >>) \/ (a.reply \in Wanted /\ h = h)
      BY <1>9, <2>3
    <3> HIDE DEF Goal, Step
    <3> QED BY <1>14, <2>3, <2>4, <3>1, <3>2
  <2> QED BY <2>6 DEF R, h, H
<1>12. CASE DoWeWantIt(T.n, m) /\ ~(L.from > 0) /\ LookupTempBID(L.n, m)
  <2>1. R = Says(L.n, "=", 0, << >>)
    BY <1>2, <1>12
  <2>2. L.n \in Nodes /\ L.n.MsgHddrPtr = T.n.MsgHddrPtr /\ 0 \in Nat /\ << >> \in Seq(Headers)
        /\ "=" \in Refused \cup Wanted
    BY <1>3, <1>4, <1>6, <1>9
  <2> DEFINE a == Answer("=", 0)
  <2>3. a \in Replies /\ a.reply = "=" /\ a.from = 0
    BY <1>7, <2>2
  <2>4. Step(R, a, << >>)
    <3> HIDE DEF Step, R, a
    <3> QED BY <1>8, <2>1, <2>2 DEF a
  <2> HIDE DEF a, R
  <2>6. Goal(R)
    <3>1. ~B1(b, p) => a.from = 0
      BY <1>4, <2>3
    <3>2. (a.reply \in Refused /\ << >> = << >>) \/ (a.reply \in Wanted /\ << >> = h)
      BY <1>9, <2>3
    <3> HIDE DEF Goal, Step
    <3> QED BY <1>14, <2>3, <2>4, <3>1, <3>2
  <2> QED BY <2>6 DEF R, h, H
<1>13. CASE DoWeWantIt(T.n, m) /\ ~(L.from > 0) /\ ~LookupTempBID(L.n, m)
  <2>1. R = Says(n2, "+", 0, h)
    BY <1>2, <1>13
  <2>2. n2 \in Nodes /\ n2.MsgHddrPtr = T.n.MsgHddrPtr /\ 0 \in Nat /\ h \in Seq(Headers)
        /\ "+" \in Refused \cup Wanted
    BY <1>3, <1>5, <1>6, <1>9
  <2> DEFINE a == Answer("+", 0)
  <2>3. a \in Replies /\ a.reply = "+" /\ a.from = 0
    BY <1>7, <2>2
  <2>4. Step(R, a, h)
    <3> HIDE DEF Step, R, a
    <3> QED BY <1>8, <2>1, <2>2 DEF a
  <2> HIDE DEF a, R
  <2>6. Goal(R)
    <3>1. ~B1(b, p) => a.from = 0
      BY <1>4, <2>3
    <3>2. (a.reply \in Refused /\ h = << >>) \/ (a.reply \in Wanted /\ h = h)
      BY <1>9, <2>3
    <3> HIDE DEF Goal, Step
    <3> QED BY <1>14, <2>3, <2>4, <3>1, <3>2
  <2> QED BY <2>6 DEF R, h, H
<1> QED BY <1>10, <1>11, <1>12, <1>13

\* What CreateMessage leaves alone.
Others(c, c2) == /\ c2.Active = c.Active /\ c2.FBBHeaders = c.FBBHeaders
                 /\ c2.FBBMsgsSent = c.FBBMsgsSent /\ c2.FBBReplyChars = c.FBBReplyChars
                 /\ c2.InputMode = c.InputMode /\ c2.closing = c.closing /\ c2.sumOK = c.sumOK

\* CreateMessage: the message is to be received, or there is no need to.
LEMMA CreateIs ==
    ASSUME NEW S \in Results, NEW p \in BBSs, NEW m \in Messages
    PROVE  LET R == CreateMessage(S, p, m) IN
           /\ R \in Results /\ R.n.MsgHddrPtr = S.n.MsgHddrPtr
           /\ Others(S.c, R.c)
           /\ R.c.TempMsg.whole = TRUE
           /\ R.c.TempMsg.bid = m \/ (R.c.TempMsg.bid = NoBid /\ Has(R.n, m))
           /\ \E q : SomeText(q) /\ R.out = S.out \o q
<1> DEFINE R == CreateMessage(S, p, m)
           Msg == [bid : Bids, length : Nat, whole : BOOLEAN]
           C(x) == [S.c EXCEPT !.TempMsg = x]
<1>1. S.c \in Streams /\ S.n \in Nodes /\ S.out \in Seq(Items) /\ S.out \o << >> = S.out
  BY ResultIs
<1>2. \A x \in Msg : C(x) \in Streams /\ C(x).TempMsg = x /\ Others(S.c, C(x))
  BY <1>1 DEF Streams, Others
<1>3. CASE ~DoWeWantIt(S.n, m)
  <2> DEFINE T == [S EXCEPT !.c.TempMsg = NoMsg]
  <2>1. R = Put(T, << Text >>)
    BY <1>3 DEF CreateMessage, Text
  <2>2. T.n = S.n /\ T.c = C(NoMsg) /\ T.out = S.out /\ (C(NoMsg) \in Streams => T \in Results)
    BY DEF Results
  <2>3. NoMsg \in Msg /\ NoMsg.bid = NoBid /\ NoMsg.whole = TRUE
    BY DEF NoMsg, Bids
  <2> HIDE DEF T, C, R
  <2>4. /\ T \in Results /\ R \in Results /\ R.n = T.n /\ R.c = T.c
        /\ R.out = T.out \o << Text >>
    BY <1>2, <2>1, <2>2, <2>3, PutIs, LinesAreItems
  <2>5. Has(R.n, m)
    BY <1>1, <1>3, <2>2, <2>4, WantIs
  <2>6. R.n.MsgHddrPtr = S.n.MsgHddrPtr /\ R.c = C(NoMsg) /\ R.out = S.out \o << Text >>
    BY <2>2, <2>4
  <2> QED BY <1>2, <2>3, <2>4, <2>5, <2>6 DEF R, SomeText
<1>4. CASE DoWeWantIt(S.n, m)
  <2> DEFINE x == [NoMsg EXCEPT !.bid = m]
             n2 == [S.n EXCEPT !.TempBIDs = @ \cup {[bid |-> m, conn |-> p]}]
  <2>1. R = [S EXCEPT !.c.TempMsg = x, !.n = n2]
    BY <1>4 DEF CreateMessage, Results
  <2>2. x \in Msg /\ x.bid = m /\ x.whole = TRUE
    BY DEF NoMsg, Bids
  <2>3. n2 \in Nodes /\ n2.MsgHddrPtr = S.n.MsgHddrPtr
    BY <1>1, TempIs
  <2> HIDE DEF x, n2
  <2>4. R.n = n2 /\ R.c = C(x) /\ R.out = S.out
    BY <2>1 DEF Results
  <2>5. R \in Results
    <3>1. n2 \in Nodes /\ C(x) \in Streams => R \in Results
      BY <2>1 DEF Results
    <3> HIDE DEF C, R
    <3> QED BY <1>2, <2>2, <2>3, <3>1
  <2> HIDE DEF C, R
  <2>6. R.c = C(x) /\ R.out = S.out \o << >> /\ R.n.MsgHddrPtr = S.n.MsgHddrPtr
    BY <1>1, <2>3, <2>4
  <2> QED BY <1>2, <2>2, <2>5, <2>6 DEF R, SomeText
<1> QED BY <1>3, <1>4
(***************************************************************************)
(* Going on with a block.                                                  *)
(***************************************************************************)

\* The stream c of R goes on with the messages H that are still to come, or with
\* what R has to offer; T is what was there before.
Onward(T, H, R) ==
    /\ R \in Results
    /\ R.c.Active = T.c.Active /\ R.c.FBBMsgsSent = T.c.FBBMsgsSent
    /\ R.c.FBBReplyChars = T.c.FBBReplyChars /\ R.c.closing = T.c.closing
    /\ R.c.sumOK = T.c.sumOK
    /\ H # << >> =>
         /\ R.c.FBBHeaders = H /\ R.c.InputMode = "binary" /\ R.c.TempMsg.whole = TRUE
         /\ Receives(R.n, R.c)
         /\ \E q : SomeText(q) /\ R.out = T.out \o q
    /\ H = << >> =>
         /\ R.c.InputMode = "line" /\ Own(R.n, R.c.FBBHeaders) /\ R.c.TempMsg = T.c.TempMsg
         /\ R.out = T.out \o (IF R.c.FBBHeaders = << >> THEN << Line("FF") >>
                              ELSE Ask(R.c.FBBHeaders, 0))

\* The mode changes.
LEMMA ModeIs ==
    ASSUME NEW S \in Results, NEW x \in {"line", "binary"}
    PROVE  LET R == [S EXCEPT !.c.InputMode = x] IN
           /\ R \in Results /\ R.n = S.n /\ R.out = S.out /\ R.c.InputMode = x
           /\ R.c.Active = S.c.Active /\ R.c.FBBHeaders = S.c.FBBHeaders
           /\ R.c.FBBMsgsSent = S.c.FBBMsgsSent /\ R.c.FBBReplyChars = S.c.FBBReplyChars
           /\ R.c.closing = S.c.closing /\ R.c.sumOK = S.c.sumOK /\ R.c.TempMsg = S.c.TempMsg
<1> DEFINE R == [S EXCEPT !.c.InputMode = x]
           c2 == [S.c EXCEPT !.InputMode = x]
<1>1. R.n = S.n /\ R.c = c2 /\ R.out = S.out /\ (c2 \in Streams => R \in Results)
  BY DEF Results
<1>2. /\ c2 \in Streams /\ c2.InputMode = x
      /\ c2.Active = S.c.Active /\ c2.FBBHeaders = S.c.FBBHeaders
      /\ c2.FBBMsgsSent = S.c.FBBMsgsSent /\ c2.FBBReplyChars = S.c.FBBReplyChars
      /\ c2.closing = S.c.closing /\ c2.sumOK = S.c.sumOK /\ c2.TempMsg = S.c.TempMsg
  <2>1. S.c \in Streams
    BY ResultIs
  <2> QED BY <2>1 DEF Streams
<1> HIDE DEF R, c2
<1> QED BY <1>1, <1>2 DEF R

\* NextFBBMessage.
LEMMA NextIs ==
    ASSUME NEW S \in Results, NEW p \in BBSs, NEW np
    PROVE  LET R == NextFBBMessage(S, p) IN
           Onward(S, S.c.FBBHeaders, R) /\ Later(S.n, R.n, p, np)
<1> DEFINE H == S.c.FBBHeaders
           R == NextFBBMessage(S, p)
<1>1. H \in Seq(Headers) /\ S.c \in Streams
  BY ResultIs, StreamIs
<1>2. CASE H = << >>
  <2> DEFINE M == [S EXCEPT !.c.InputMode = "line"]
  <2>1. R = FBBDoForward(M, p, << Line("FF") >>)
    BY <1>2 DEF NextFBBMessage
  <2>2. /\ M \in Results /\ M.n = S.n /\ M.out = S.out /\ M.c.InputMode = "line"
        /\ M.c.Active = S.c.Active /\ M.c.FBBHeaders = S.c.FBBHeaders
        /\ M.c.FBBMsgsSent = S.c.FBBMsgsSent /\ M.c.FBBReplyChars = S.c.FBBReplyChars
        /\ M.c.closing = S.c.closing /\ M.c.sumOK = S.c.sumOK /\ M.c.TempMsg = S.c.TempMsg
    <3> DEFINE x == "line"
    <3>1. x \in {"line", "binary"}
      OBVIOUS
    <3> HIDE DEF x
    <3>2. LET Q == [S EXCEPT !.c.InputMode = x] IN
        /\ Q \in Results /\ Q.n = S.n /\ Q.out = S.out /\ Q.c.InputMode = x
        /\ Q.c.Active = S.c.Active /\ Q.c.FBBHeaders = S.c.FBBHeaders
        /\ Q.c.FBBMsgsSent = S.c.FBBMsgsSent /\ Q.c.FBBReplyChars = S.c.FBBReplyChars
        /\ Q.c.closing = S.c.closing /\ Q.c.sumOK = S.c.sumOK /\ Q.c.TempMsg = S.c.TempMsg
      BY <3>1, ModeIs
    <3> QED BY <3>2 DEF x
  <2> HIDE DEF M, R
  <2>3. << Line("FF") >> \in Seq(Items)
    BY LinesAreItems
  <2>4. /\ R \in Results /\ Later(M.n, R.n, p, np)
        /\ Rest(M.c, R.c) /\ R.c.FBBReplyChars = M.c.FBBReplyChars
        /\ R.c.FBBMsgsSent = M.c.FBBMsgsSent /\ Own(R.n, R.c.FBBHeaders)
        /\ R.out = M.out \o (IF R.c.FBBHeaders = << >> THEN << Line("FF") >>
                             ELSE Ask(R.c.FBBHeaders, 0))
    BY <2>1, <2>2, <2>3, DoForwardIs
  <2>5. Onward(S, H, R)
    BY <1>2, <2>2, <2>4 DEF Onward, Rest
  <2>6. Later(S.n, R.n, p, np)
    BY <2>2, <2>4
  <2> QED BY <2>5, <2>6 DEF R
<1>3. CASE H # << >>
  <2> DEFINE M == [S EXCEPT !.c.InputMode = "binary"]
             m == H[1].bid
  <2>1. R = CreateMessage(M, p, m)
    BY <1>3 DEF NextFBBMessage
  <2>2. /\ M \in Results /\ M.n = S.n /\ M.out = S.out /\ M.c.InputMode = "binary"
        /\ M.c.Active = S.c.Active /\ M.c.FBBHeaders = S.c.FBBHeaders
        /\ M.c.FBBMsgsSent = S.c.FBBMsgsSent /\ M.c.FBBReplyChars = S.c.FBBReplyChars
        /\ M.c.closing = S.c.closing /\ M.c.sumOK = S.c.sumOK /\ M.c.TempMsg = S.c.TempMsg
    <3> DEFINE x == "binary"
    <3>1. x \in {"line", "binary"}
      OBVIOUS
    <3> HIDE DEF x
    <3>2. LET Q == [S EXCEPT !.c.InputMode = x] IN
        /\ Q \in Results /\ Q.n = S.n /\ Q.out = S.out /\ Q.c.InputMode = x
        /\ Q.c.Active = S.c.Active /\ Q.c.FBBHeaders = S.c.FBBHeaders
        /\ Q.c.FBBMsgsSent = S.c.FBBMsgsSent /\ Q.c.FBBReplyChars = S.c.FBBReplyChars
        /\ Q.c.closing = S.c.closing /\ Q.c.sumOK = S.c.sumOK /\ Q.c.TempMsg = S.c.TempMsg
      BY <3>1, ModeIs
    <3> QED BY <3>2 DEF x
  <2>3. m \in Messages
    <3>1. H[1] \in Headers
      BY <1>1, <1>3
    <3> QED BY <3>1 DEF Headers
  <2> HIDE DEF M, R, H, m
  <2>4. /\ R \in Results /\ R.n.MsgHddrPtr = M.n.MsgHddrPtr /\ Others(M.c, R.c)
        /\ R.c.TempMsg.whole = TRUE
        /\ R.c.TempMsg.bid = m \/ (R.c.TempMsg.bid = NoBid /\ Has(R.n, m))
        /\ \E q : SomeText(q) /\ R.out = M.out \o q
    <3>1. M \in Results
      BY <2>2
    <3> QED BY <2>1, <2>3, <3>1, CreateIs
  <2>5. R.c.FBBHeaders = H
    BY <2>2, <2>4 DEF Others, H
  <2>6. Receives(R.n, R.c)
    BY <1>3, <2>4, <2>5 DEF Receives, m
  <2>7. Onward(S, H, R)
    BY <1>3, <2>2, <2>4, <2>5, <2>6 DEF Onward, Others
  <2>8. Later(S.n, R.n, p, np)
    BY <2>2, <2>4, LaterSame
  <2> QED BY <2>7, <2>8 DEF R, H
<1> QED BY <1>2, <1>3

\* SetupNextFBBMessage: the first of the block is done with.
LEMMA SetupIs ==
    ASSUME NEW S \in Results, S.c.FBBHeaders # << >>, NEW p \in BBSs, NEW np
    PROVE  LET R == SetupNextFBBMessage(S, p) IN
           Onward(S, Tail(S.c.FBBHeaders), R) /\ Later(S.n, R.n, p, np)
<1> DEFINE H == Tail(S.c.FBBHeaders)
           M == [S EXCEPT !.c.FBBHeaders = H]
           c2 == [S.c EXCEPT !.FBBHeaders = H]
           R == SetupNextFBBMessage(S, p)
<1>1. H \in Seq(Headers) /\ S.c \in Streams
  <2>1. S.c.FBBHeaders \in Seq(Headers) /\ S.c \in Streams
    BY ResultIs, StreamIs
  <2> QED BY <2>1, TailIs
<1>2. R = NextFBBMessage(M, p)
  BY DEF SetupNextFBBMessage
<1> HIDE DEF H
<1>3. M.n = S.n /\ M.c = c2 /\ M.out = S.out /\ (c2 \in Streams => M \in Results)
  BY DEF Results
<1>4. /\ c2 \in Streams /\ c2.Active = S.c.Active /\ c2.FBBHeaders = H
      /\ c2.FBBMsgsSent = S.c.FBBMsgsSent /\ c2.FBBReplyChars = S.c.FBBReplyChars
      /\ c2.closing = S.c.closing /\ c2.sumOK = S.c.sumOK /\ c2.TempMsg = S.c.TempMsg
  BY <1>1 DEF Streams
<1> HIDE DEF M, c2, R
<1>5. Onward(M, H, R) /\ Later(M.n, R.n, p, np)
  BY <1>2, <1>3, <1>4, NextIs
<1>6. Onward(S, H, R)
  BY <1>3, <1>4, <1>5 DEF Onward
<1> QED BY <1>3, <1>5, <1>6 DEF R, H

\* EndOfBlock: the answers are sent.
LEMMA EndOfBlockIs ==
    ASSUME NEW S \in Results, NEW p \in BBSs, NEW np
    PROVE  LET R == EndOfBlock(S, p)
               T == Put([S EXCEPT !.c.FBBReplyChars = << >>],
                        << Item("FS", S.c.FBBReplyChars) >>)
           IN  /\ Onward(T, S.c.FBBHeaders, R) /\ Later(S.n, R.n, p, np)
               /\ T \in Results /\ T.n = S.n
               /\ T.out = S.out \o << Item("FS", S.c.FBBReplyChars) >>
               /\ T.c.Active = S.c.Active /\ T.c.FBBHeaders = S.c.FBBHeaders
               /\ T.c.FBBMsgsSent = S.c.FBBMsgsSent /\ T.c.FBBReplyChars = << >>
               /\ T.c.closing = S.c.closing /\ T.c.sumOK = S.c.sumOK /\ T.c.TempMsg = S.c.TempMsg
<1> DEFINE r == << Item("FS", S.c.FBBReplyChars) >>
           M == [S EXCEPT !.c.FBBReplyChars = << >>]
           c2 == [S.c EXCEPT !.FBBReplyChars = << >>]
           T == Put(M, r)
           R == EndOfBlock(S, p)
<1>1. S.c \in Streams /\ r \in Seq(Items)
  BY ResultIs, StreamIs, LinesAreItems
<1>2. R = NextFBBMessage(T, p)
  BY DEF EndOfBlock
<1>3. M.n = S.n /\ M.c = c2 /\ M.out = S.out /\ (c2 \in Streams => M \in Results)
  BY DEF Results
<1>4. /\ c2 \in Streams /\ c2.Active = S.c.Active /\ c2.FBBHeaders = S.c.FBBHeaders
      /\ c2.FBBMsgsSent = S.c.FBBMsgsSent /\ c2.FBBReplyChars = << >>
      /\ c2.closing = S.c.closing /\ c2.sumOK = S.c.sumOK /\ c2.TempMsg = S.c.TempMsg
  <2>1. << >> \in Seq(Replies)
    OBVIOUS
  <2> QED BY <1>1, <2>1 DEF Streams
<1> HIDE DEF M, c2, r
<1>5. T \in Results /\ T.n = M.n /\ T.c = M.c /\ T.out = M.out \o r
  BY <1>1, <1>3, <1>4, PutIs
<1> HIDE DEF T, R
<1>6. Onward(T, T.c.FBBHeaders, R) /\ Later(T.n, R.n, p, np)
  BY <1>2, <1>5, NextIs
<1> QED BY <1>3, <1>4, <1>5, <1>6 DEF T, R, M, r
\* What has been received is kept.
LEMMA BufferIs ==
    ASSUME net \in Networks, NEW S \in Results, NEW b \in BBSs, NEW p \in BBSs, NEW np,
           S.c.TempMsg.whole
    PROVE  LET R == CreateMessageFromBuffer(S, b, p) IN
           /\ R \in Results /\ R.c = S.c /\ R.out = S.out /\ Later(S.n, R.n, p, np)
           /\ S.c.TempMsg.bid \in Messages => Has(R.n, S.c.TempMsg.bid)
<1> DEFINE m == S.c.TempMsg.bid
           M == S.n.MsgHddrPtr
           R == CreateMessageFromBuffer(S, b, p)
           e == [Record(m, net.route[b][m] \ {p}) EXCEPT !.whole = S.c.TempMsg.whole]
           M2 == Append(M, e)
<1>1. m \in Bids /\ S.n \in Nodes /\ M \in Seq(Records)
  BY ResultIs, StreamIs, NodeIs
<1>2. CASE m = NoBid
  <2>1. R = S
    BY <1>2 DEF CreateMessageFromBuffer
  <2>2. NoBid \notin Messages
    BY MessageAssumption DEF NoBid
  <2> HIDE DEF R
  <2> QED BY <1>2, <2>1, <2>2, LaterSame DEF R
<1>3. CASE m # NoBid
  <2>1. m \in Messages
    BY <1>1, <1>3 DEF Bids
  <2>2. net.route[b][m] \in SUBSET BBSs
    BY <2>1, NetworkAssumption
  <2>3. e \in Records /\ e.bid = m /\ e.whole = TRUE /\ e.forw = {}
    <3> DEFINE due == net.route[b][m] \ {p}
               w == S.c.TempMsg.whole
    <3>1. due \in SUBSET BBSs
      BY <2>2
    <3>2. w = TRUE
      BY ResultIs, StreamIs
    <3> HIDE DEF due, w, m
    <3>3. LET x == [Record(m, due) EXCEPT !.whole = w] IN
          x \in Records /\ x.bid = m /\ x.whole = TRUE /\ x.forw = {}
      BY <2>1, <3>1, <3>2 DEF Record, Records
    <3> QED BY <3>3 DEF due, w, m
  <2> HIDE DEF e
  <2>4. R = [S EXCEPT !.n.MsgHddrPtr = M2]
    BY <1>3 DEF CreateMessageFromBuffer, e
  <2>5. /\ M2 \in Seq(Records) /\ Len(M2) = Len(M) + 1 /\ Len(M) \in Nat
        /\ M2[Len(M) + 1] = e /\ \A i \in 1..Len(M) : M2[i] = M[i]
    <3> HIDE DEF M
    <3> QED BY <1>1, <2>3
  <2>6. DOMAIN M = 1..Len(M) /\ DOMAIN M2 = 1..Len(M2)
    <3> HIDE DEF M, M2
    <3> QED BY <1>1, <2>5
  <2> HIDE DEF M2
  <2> DEFINE n2 == [S.n EXCEPT !.MsgHddrPtr = M2]
  <2>7. R.n = n2 /\ R.c = S.c /\ R.out = S.out /\ (n2 \in Nodes => R \in Results)
    BY <2>4 DEF Results
  <2>8. n2 \in Nodes /\ n2.MsgHddrPtr = M2
    BY <1>1, <2>5 DEF Nodes
  <2> HIDE DEF n2, R
  <2>9. \A i \in 1..Len(M2) : i \in 1..Len(M) \/ i = Len(M) + 1
    <3> HIDE DEF M
    <3> QED BY <2>5
  <2>10. Later(S.n, n2, p, np)
    <3>1. MoreOf(S.n, n2)
      BY <2>5, <2>6, <2>8 DEF MoreOf
    <3>2. ASSUME NEW i \in 1..Len(M2)
          PROVE  \/ i \in 1..Len(M) /\ M2[i] = M[i]
                 \/ M2[i].forw = {} /\ M2[i].whole
      BY <2>3, <2>5, <2>9
    <3>3. \A i \in DOMAIN n2.MsgHddrPtr :
             \/ i \in DOMAIN S.n.MsgHddrPtr /\ n2.MsgHddrPtr[i] = S.n.MsgHddrPtr[i]
             \/ n2.MsgHddrPtr[i].forw = {} /\ n2.MsgHddrPtr[i].whole
      BY <2>6, <2>8, <3>2
    <3> QED BY <3>1, <3>3 DEF Later
  <2>11. Has(R.n, m)
    <3>1. Len(M) + 1 \in DOMAIN M2
      <4> HIDE DEF M
      <4> QED BY <2>5, <2>6
    <3> QED BY <2>3, <2>5, <2>7, <2>8, <3>1 DEF Has
  <2> QED BY <2>7, <2>8, <2>10, <2>11 DEF R
<1> QED BY <1>2, <1>3

\* The record of the transfer is dropped.
LEMMA DeleteIs ==
    ASSUME NEW n \in Nodes, NEW p, NEW m
    PROVE  LET n2 == DeleteRestartData(n, p, m) IN
           n2 \in Nodes /\ n2.MsgHddrPtr = n.MsgHddrPtr
  BY RestartRecIs, DropIs DEF DeleteRestartData

\* The end of a message.  Either it is stored and the block goes on, or the
\* stream is to be closed.
LEMMA EndOfMessageIs ==
    ASSUME net \in Networks, NEW S \in Results, NEW b \in BBSs, NEW p \in BBSs, NEW np,
           S.c.FBBHeaders # << >>, S.c.sumOK => S.c.TempMsg.whole \/ B1(b, p)
    PROVE  LET R == EndOfMessage(S, b, p) IN
           /\ Later(S.n, R.n, p, np)
           /\ \/ /\ R \in Results /\ R.out = S.out \o << Text >>
                 /\ R.c.closing = "flush"
                 /\ R.c.Active = S.c.Active /\ R.c.FBBHeaders = S.c.FBBHeaders
                 /\ R.c.FBBMsgsSent = S.c.FBBMsgsSent /\ R.c.FBBReplyChars = S.c.FBBReplyChars
                 /\ R.c.TempMsg = S.c.TempMsg /\ R.c.sumOK = S.c.sumOK
              \/ /\ S.c.TempMsg.bid \in Messages => Has(R.n, S.c.TempMsg.bid)
                 /\ S.c.TempMsg.whole
                 /\ Onward(S, Tail(S.c.FBBHeaders), R)
<1> DEFINE R == EndOfMessage(S, b, p)
           m == S.c.TempMsg.bid
<1>1. S.n \in Nodes /\ S.c \in Streams
  BY ResultIs
<1>2. CASE ~S.c.sumOK
  <2>1. R = CloseAfterFlush([S EXCEPT !.c.DontSaveRestartData = TRUE])
    BY <1>2 DEF EndOfMessage
  <2> HIDE DEF R
  <2>2. /\ R \in Results /\ R.n = S.n /\ R.out = S.out \o << Text >>
        /\ Still(S.c, R.c) /\ R.c.closing = "flush"
        /\ R.c.TempMsg = S.c.TempMsg /\ R.c.sumOK = S.c.sumOK
    BY <2>1, GiveUpIs
  <2> QED BY <2>2, LaterSame DEF Still, R
<1>3. CASE S.c.sumOK
  <2> DEFINE n2 == DeleteRestartData(S.n, p, m)
             M == [S EXCEPT !.c.InputMode = "line", !.n = n2]
             c2 == [S.c EXCEPT !.InputMode = "line"]
  <2>1. R = Decode(M, b, p)
    BY <1>3 DEF EndOfMessage
  <2>2. n2 \in Nodes /\ n2.MsgHddrPtr = S.n.MsgHddrPtr
    BY <1>1, DeleteIs
  <2> HIDE DEF n2
  <2>3. M.n = n2 /\ M.c = c2 /\ M.out = S.out /\ (c2 \in Streams => M \in Results)
    BY <2>2 DEF Results
  <2>4. /\ c2 \in Streams /\ c2.Active = S.c.Active /\ c2.FBBHeaders = S.c.FBBHeaders
        /\ c2.FBBMsgsSent = S.c.FBBMsgsSent /\ c2.FBBReplyChars = S.c.FBBReplyChars
        /\ c2.closing = S.c.closing /\ c2.sumOK = S.c.sumOK /\ c2.TempMsg = S.c.TempMsg
    BY <1>1 DEF Streams
  <2> HIDE DEF M, c2
  <2>5. M \in Results /\ Later(S.n, M.n, p, np) /\ M.c.TempMsg = S.c.TempMsg
    BY <2>2, <2>3, <2>4, LaterSame
  <2>6. CASE B1(b, p) /\ ~M.c.TempMsg.whole
    <3>1. R = CloseAfterFlush(M)
      BY <2>1, <2>6 DEF Decode
    <3> HIDE DEF R
    <3>2. /\ R \in Results /\ R.n = M.n /\ R.out = M.out \o << Text >>
          /\ Still(M.c, R.c) /\ R.c.closing = "flush"
          /\ R.c.TempMsg = M.c.TempMsg /\ R.c.sumOK = M.c.sumOK
      BY <2>5, <3>1, FlushIs
    <3> QED BY <2>3, <2>4, <2>5, <3>2 DEF Still, R
  <2>7. CASE ~(B1(b, p) /\ ~M.c.TempMsg.whole)
    <3> DEFINE Q == CreateMessageFromBuffer(M, b, p)
    <3>1. R = SetupNextFBBMessage(Q, p)
      BY <2>1, <2>7 DEF Decode
    <3>2. M.c.TempMsg.whole
      BY <1>3, <2>5, <2>7
    <3>3. /\ Q \in Results /\ Q.c = M.c /\ Q.out = M.out /\ Later(M.n, Q.n, p, np)
          /\ m \in Messages => Has(Q.n, m)
      BY <2>5, <3>2, BufferIs
    <3> HIDE DEF Q, R
    <3>4. Q.c.FBBHeaders = S.c.FBBHeaders /\ Q.c.FBBHeaders # << >>
      BY <2>3, <2>4, <3>3
    <3>5. Onward(Q, Tail(S.c.FBBHeaders), R) /\ Later(Q.n, R.n, p, np)
      BY <3>1, <3>3, <3>4, SetupIs
    <3>6. Onward(S, Tail(S.c.FBBHeaders), R)
      <4> DEFINE T == Tail(S.c.FBBHeaders)
      <4>1. /\ Q.c.Active = S.c.Active /\ Q.c.FBBMsgsSent = S.c.FBBMsgsSent
            /\ Q.c.FBBReplyChars = S.c.FBBReplyChars /\ Q.c.closing = S.c.closing
            /\ Q.c.sumOK = S.c.sumOK /\ Q.c.TempMsg = S.c.TempMsg /\ Q.out = S.out
        BY <2>3, <2>4, <3>3
      <4>2. Onward(Q, T, R)
        BY <3>5
      <4> HIDE DEF T
      <4>3. Onward(S, T, R)
        BY <4>1, <4>2 DEF Onward
      <4> QED BY <4>3 DEF T
    <3>7. Later(S.n, R.n, p, np)
      BY <2>5, <3>3, <3>5, LaterTwice
    <3>8. m \in Messages => Has(R.n, m)
      BY <3>3, <3>5, MoreHas DEF Later
    <3> QED BY <2>5, <3>2, <3>6, <3>7, <3>8 DEF R
  <2> QED BY <2>6, <2>7
<1> QED BY <1>2, <1>3
(***************************************************************************)
(* The other lines.                                                        *)
(***************************************************************************)

\* The state of closing changes.
LEMMA ClosingIs ==
    ASSUME NEW S \in Results, NEW x \in {"no", "flush", "fq", "disc"}
    PROVE  LET R == [S EXCEPT !.c.closing = x] IN
           /\ R \in Results /\ R.n = S.n /\ R.out = S.out
           /\ R.c.Active = S.c.Active /\ R.c.FBBHeaders = S.c.FBBHeaders
           /\ R.c.FBBMsgsSent = S.c.FBBMsgsSent /\ R.c.FBBReplyChars = S.c.FBBReplyChars
           /\ R.c.InputMode = S.c.InputMode /\ R.c.sumOK = S.c.sumOK /\ R.c.TempMsg = S.c.TempMsg
<1> DEFINE R == [S EXCEPT !.c.closing = x]
           c2 == [S.c EXCEPT !.closing = x]
<1>1. R.n = S.n /\ R.c = c2 /\ R.out = S.out /\ (c2 \in Streams => R \in Results)
  BY DEF Results
<1>2. /\ c2 \in Streams
      /\ c2.Active = S.c.Active /\ c2.FBBHeaders = S.c.FBBHeaders
      /\ c2.FBBMsgsSent = S.c.FBBMsgsSent /\ c2.FBBReplyChars = S.c.FBBReplyChars
      /\ c2.InputMode = S.c.InputMode /\ c2.sumOK = S.c.sumOK /\ c2.TempMsg = S.c.TempMsg
  <2>1. S.c \in Streams
    BY ResultIs
  <2> QED BY <2>1 DEF Streams
<1> HIDE DEF R, c2
<1> QED BY <1>1, <1>2 DEF R

\* A line that is none of the protocol's.
LEMMA RefuseIs ==
    ASSUME NEW S \in Results, S.c.InputMode = "line"
    PROVE  LET R == Refuse(S) IN
           /\ R \in Results /\ R.n = S.n /\ Still(S.c, R.c)
           /\ R.c.TempMsg = S.c.TempMsg /\ R.c.sumOK = S.c.sumOK
           /\ \E q : SomeText(q) /\ R.out = S.out \o q
<1> DEFINE R == Refuse(S)
           x == "disc"
           M == [S EXCEPT !.c.closing = x]
<1>1. S.out \o << >> = S.out
  BY ResultIs
<1>2. CASE S.c.closing \in {"fq", "disc"}
  <2>1. R = S
    BY <1>2 DEF Refuse
  <2> HIDE DEF R
  <2> QED BY <1>1, <2>1 DEF Still, SomeText, R
<1>3. CASE S.c.closing \notin {"fq", "disc"}
  <2>1. R = Put(M, << Text >>)
    BY <1>3 DEF Refuse, Text
  <2>2. x \in {"no", "flush", "fq", "disc"}
    OBVIOUS
  <2> HIDE DEF x, R
  <2>3. /\ M \in Results /\ M.n = S.n /\ M.out = S.out
        /\ M.c.Active = S.c.Active /\ M.c.FBBHeaders = S.c.FBBHeaders
        /\ M.c.FBBMsgsSent = S.c.FBBMsgsSent /\ M.c.FBBReplyChars = S.c.FBBReplyChars
        /\ M.c.InputMode = S.c.InputMode /\ M.c.sumOK = S.c.sumOK /\ M.c.TempMsg = S.c.TempMsg
    BY <2>2, ClosingIs
  <2> HIDE DEF M
  <2>4. R \in Results /\ R.n = M.n /\ R.c = M.c /\ R.out = M.out \o << Text >>
    BY <2>1, <2>3, PutIs, LinesAreItems
  <2>5. R.c.InputMode # "binary"
    BY <2>3, <2>4
  <2> QED BY <2>3, <2>4, <2>5 DEF Still, SomeText, R, Healthy
<1> QED BY <1>2, <1>3

\* FQ.
LEMMA QuitIs ==
    ASSUME NEW S \in Results, NEW p \in BBSs, NEW np,
           S.c.FBBMsgsSent => /\ Own(S.n, S.c.FBBHeaders)
                              /\ \A i \in DOMAIN S.c.FBBHeaders : Has(np, S.c.FBBHeaders[i].bid)
    PROVE  LET R == [FlagSentMessages(S, p) EXCEPT !.c.closing = "disc"] IN
           /\ R \in Results /\ Later(S.n, R.n, p, np) /\ R.out = S.out
           /\ R.c.FBBHeaders = IF S.c.FBBMsgsSent THEN << >> ELSE S.c.FBBHeaders
           /\ R.c.FBBMsgsSent = FALSE /\ R.c.Active = S.c.Active
           /\ R.c.FBBReplyChars = S.c.FBBReplyChars /\ R.c.InputMode = S.c.InputMode
           /\ R.c.sumOK = S.c.sumOK /\ R.c.TempMsg = S.c.TempMsg
<1> DEFINE F == FlagSentMessages(S, p)
           x == "disc"
           M == [F EXCEPT !.c.closing = x]
<1>1. /\ F \in Results /\ Later(S.n, F.n, p, np) /\ F.out = S.out
      /\ Rest(S.c, F.c) /\ F.c.FBBReplyChars = S.c.FBBReplyChars /\ F.c.FBBMsgsSent = FALSE
      /\ F.c.FBBHeaders = IF S.c.FBBMsgsSent THEN << >> ELSE S.c.FBBHeaders
  BY FlagKeeps
<1>2. x \in {"no", "flush", "fq", "disc"}
  OBVIOUS
<1> HIDE DEF x, F
<1>3. /\ M \in Results /\ M.n = F.n /\ M.out = F.out
      /\ M.c.Active = F.c.Active /\ M.c.FBBHeaders = F.c.FBBHeaders
      /\ M.c.FBBMsgsSent = F.c.FBBMsgsSent /\ M.c.FBBReplyChars = F.c.FBBReplyChars
      /\ M.c.InputMode = F.c.InputMode /\ M.c.sumOK = F.c.sumOK /\ M.c.TempMsg = F.c.TempMsg
  BY <1>1, <1>2, ClosingIs
<1> HIDE DEF M
<1>4. /\ M \in Results /\ Later(S.n, M.n, p, np) /\ M.out = S.out
      /\ M.c.FBBHeaders = IF S.c.FBBMsgsSent THEN << >> ELSE S.c.FBBHeaders
      /\ M.c.FBBMsgsSent = FALSE /\ M.c.Active = S.c.Active
      /\ M.c.FBBReplyChars = S.c.FBBReplyChars /\ M.c.InputMode = S.c.InputMode
      /\ M.c.sumOK = S.c.sumOK /\ M.c.TempMsg = S.c.TempMsg
  BY <1>1, <1>3 DEF Rest
<1> QED BY <1>4 DEF M, F, x

\* FF: our turn to propose.
LEMMA ReverseIs ==
    ASSUME NEW S \in Results, NEW p \in BBSs, NEW np,
           S.c.FBBMsgsSent => /\ Own(S.n, S.c.FBBHeaders)
                              /\ \A i \in DOMAIN S.c.FBBHeaders : Has(np, S.c.FBBHeaders[i].bid)
    PROVE  LET R == RequestReverse(S, p) IN
           /\ R \in Results /\ Later(S.n, R.n, p, np)
           /\ Own(R.n, R.c.FBBHeaders)
           /\ R.c.FBBMsgsSent = FALSE /\ R.c.Active = S.c.Active
           /\ R.c.FBBReplyChars = S.c.FBBReplyChars /\ R.c.InputMode = S.c.InputMode
           /\ R.c.sumOK = S.c.sumOK /\ R.c.TempMsg = S.c.TempMsg
           /\ R.out = S.out \o (IF R.c.FBBHeaders = << >> THEN << Line("FQ") >>
                                ELSE Ask(R.c.FBBHeaders, 0))
<1> DEFINE F == FlagSentMessages(S, p)
           q == << Line("FQ") >>
           D == FBBDoForward(F, p, q)
           R == RequestReverse(S, p)
           x == "fq"
           M == [D EXCEPT !.c.closing = x]
<1>1. /\ F \in Results /\ Later(S.n, F.n, p, np) /\ F.out = S.out
      /\ Rest(S.c, F.c) /\ F.c.FBBReplyChars = S.c.FBBReplyChars /\ F.c.FBBMsgsSent = FALSE
  BY FlagKeeps
<1>2. R = IF D.c.FBBHeaders = << >> THEN M ELSE D
  BY DEF RequestReverse, OrQuit
<1>3. q \in Seq(Items) /\ x \in {"no", "flush", "fq", "disc"}
  BY LinesAreItems
<1> HIDE DEF F, q, x
<1>4. /\ D \in Results /\ Later(F.n, D.n, p, np)
      /\ Rest(F.c, D.c) /\ D.c.FBBReplyChars = F.c.FBBReplyChars
      /\ D.c.FBBMsgsSent = F.c.FBBMsgsSent /\ Own(D.n, D.c.FBBHeaders)
      /\ D.out = F.out \o (IF D.c.FBBHeaders = << >> THEN q ELSE Ask(D.c.FBBHeaders, 0))
  BY <1>1, <1>3, DoForwardIs
<1> HIDE DEF D
<1>5. /\ M \in Results /\ M.n = D.n /\ M.out = D.out
      /\ M.c.Active = D.c.Active /\ M.c.FBBHeaders = D.c.FBBHeaders
      /\ M.c.FBBMsgsSent = D.c.FBBMsgsSent /\ M.c.FBBReplyChars = D.c.FBBReplyChars
      /\ M.c.InputMode = D.c.InputMode /\ M.c.sumOK = D.c.sumOK /\ M.c.TempMsg = D.c.TempMsg
  BY <1>3, <1>4, ClosingIs
<1> HIDE DEF M, R
<1>6. /\ R \in Results /\ R.n = D.n /\ R.out = D.out
      /\ R.c.Active = D.c.Active /\ R.c.FBBHeaders = D.c.FBBHeaders
      /\ R.c.FBBMsgsSent = D.c.FBBMsgsSent /\ R.c.FBBReplyChars = D.c.FBBReplyChars
      /\ R.c.InputMode = D.c.InputMode /\ R.c.sumOK = D.c.sumOK /\ R.c.TempMsg = D.c.TempMsg
  BY <1>2, <1>4, <1>5
<1>7. Later(S.n, R.n, p, np)
  BY <1>1, <1>4, <1>6, LaterTwice
<1> QED BY <1>1, <1>4, <1>6, <1>7 DEF Rest, R, q
(***************************************************************************)
(* The answers.                                                            *)
(***************************************************************************)

\* A message as it is sent.
LEMMA ImageIs ==
    ASSUME NEW m \in Messages, NEW from \in Nat
    PROVE  /\ Image(m, from) \in Seq(Items) /\ Len(Image(m, from)) >= 2
           /\ Image(m, from)[1] = Item("head", from)
           /\ Image(m, from)[Len(Image(m, from))] = Line("eom")
           /\ \A i \in 2..(Len(Image(m, from)) - 1) : Image(m, from)[i] = Item("data", TRUE)
<1> DEFINE n == IF SizeOf[m] - from < 0 THEN 0 ELSE SizeOf[m] - from
           A == << Item("head", from) >>
           D == [i \in 1..(SizeOf[m] - from) |-> Item("data", TRUE)]
           E == << Line("eom") >>
           w == (A \o D) \o E
<1>1. n \in Nat /\ 1..(SizeOf[m] - from) = 1..n
  <2>1. SizeOf[m] \in Nat
    BY MessageAssumption
  <2> QED BY <2>1
<1>2. Item("head", from) \in Items /\ Item("data", TRUE) \in Items
  BY DEF Item, Items
<1>3. A \in Seq(Items) /\ Len(A) = 1 /\ A[1] = Item("head", from)
  BY <1>2
<1>4. D \in Seq(Items) /\ Len(D) = n /\ \A i \in 1..n : D[i] = Item("data", TRUE)
  <2>1. D \in [1..n -> Items] /\ \A i \in 1..n : D[i] = Item("data", TRUE)
    BY <1>1, <1>2
  <2> HIDE DEF D, n
  <2> QED BY <1>1, <2>1, MapIsSeq
<1>5. E \in Seq(Items) /\ Len(E) = 1 /\ E[1] = Line("eom")
  <2>1. Line("eom") \in Items
    BY LinesAreItems, Line("eom") \in Items DEF Line, Item, Items
  <2> QED BY <2>1
<1>6. Image(m, from) = w
  BY DEF Image
<1> HIDE DEF A, D, E, n
<1>7. /\ A \o D \in Seq(Items) /\ Len(A \o D) = n + 1
      /\ (A \o D)[1] = Item("head", from)
      /\ \A i \in 1..n : (A \o D)[1 + i] = Item("data", TRUE)
  <2>1. /\ A \o D \in Seq(Items) /\ Len(A \o D) = Len(A) + Len(D)
        /\ \A i \in 1..Len(A) : (A \o D)[i] = A[i]
        /\ \A i \in 1..Len(D) : (A \o D)[Len(A) + i] = D[i]
    <3>1. A \in Seq(Items) /\ D \in Seq(Items)
      BY <1>3, <1>4
    <3> QED BY <3>1, ConcatIs
  <2> DEFINE B == A \o D
  <2> HIDE DEF B
  <2>2. B[1] = Item("head", from)
    BY <1>3, <2>1 DEF B
  <2>3. \A i \in 1..n : B[1 + i] = Item("data", TRUE)
    BY <1>3, <1>4, <2>1 DEF B
  <2>4. Len(B) = n + 1
    BY <1>1, <1>3, <1>4, <2>1 DEF B
  <2> QED BY <2>1, <2>2, <2>3, <2>4 DEF B
<1>8. /\ w \in Seq(Items) /\ Len(w) = n + 2
      /\ \A i \in 1..(n + 1) : w[i] = (A \o D)[i]
      /\ w[n + 2] = Line("eom")
  <2> DEFINE B == A \o D
  <2>0. B \in Seq(Items) /\ w = B \o E
    BY <1>7
  <2> HIDE DEF w, B
  <2>1. /\ w \in Seq(Items) /\ Len(w) = Len(B) + Len(E)
        /\ \A i \in 1..Len(B) : w[i] = B[i]
        /\ \A i \in 1..Len(E) : w[Len(B) + i] = E[i]
    <3>1. E \in Seq(Items) /\ B \in Seq(Items) /\ w = B \o E
      BY <1>5, <2>0
    <3> QED BY <3>1, ConcatIs
  <2>2. 1 \in 1..Len(E) /\ (n + 1) + 1 = n + 2
    BY <1>1, <1>5
  <2> QED BY <1>1, <1>5, <1>7, <2>1, <2>2 DEF B
<1> HIDE DEF w
<1>9. w[1] = Item("head", from)
  <2>1. 1 \in 1..(n + 1)
    BY <1>1
  <2> QED BY <1>7, <1>8, <2>1
<1>10. ASSUME NEW i \in 2..(Len(w) - 1) PROVE w[i] = Item("data", TRUE)
  <2>1. i \in 1..(n + 1) /\ i - 1 \in 1..n /\ 1 + (i - 1) = i
    BY <1>1, <1>8
  <2>2. w[i] = (A \o D)[i] /\ (A \o D)[1 + (i - 1)] = Item("data", TRUE)
    BY <1>7, <1>8, <2>1
  <2> QED BY <2>1, <2>2
<1>11. w \in Seq(Items) /\ Len(w) >= 2 /\ w[Len(w)] = Line("eom")
  BY <1>1, <1>8
<1> QED BY <1>6, <1>9, <1>10, <1>11

\* It is sound, it has one end, and it is all of it blocks.
LEMMA ImageSound ==
    ASSUME NEW m \in Messages, NEW from \in Nat, NEW zero, zero => from = 0
    PROVE  LET w == Image(m, from) IN
           /\ w \in Seq(Items) /\ w # << >> /\ Sound(w, zero)
           /\ \A i \in 1..Len(w) : w[i].t \in {"head", "data", "eom"}
           /\ \A i \in 1..Len(w) : w[i].t = "eom" <=> i = Len(w)
<1> DEFINE w == Image(m, from)
<1>0. /\ w \in Seq(Items) /\ Len(w) >= 2 /\ w[1] = Item("head", from) /\ w[Len(w)] = Line("eom")
      /\ \A i \in 2..(Len(w) - 1) : w[i] = Item("data", TRUE)
  BY ImageIs
<1> HIDE DEF w
<1> DEFINE n == Len(w)
<1>2. w # << >> /\ n \in Nat
  BY <1>0
<1>1. /\ w \in Seq(Items) /\ n >= 2 /\ w[1] = Item("head", from) /\ w[n] = Line("eom")
      /\ \A i \in 2..(n - 1) : w[i] = Item("data", TRUE)
  BY <1>0
<1> HIDE DEF n
<1>3. w[1].t = "head" /\ w[1].x = from /\ w[n].t = "eom" /\ \A i \in 2..(n - 1) : w[i].t = "data"
  BY <1>1, <1>2 DEF Item, Line
<1>4. \A i \in 1..n : i = 1 \/ i \in 2..(n - 1) \/ i = n
  BY <1>1, <1>2
<1>5. Framed(w)
  <2> SUFFICES ASSUME NEW k \in 1..(n - 1) PROVE w[k + 1].t \in {"data", "eom"}
    BY DEF Framed, n
  <2>1. k + 1 \in 2..(n - 1) \/ k + 1 = n
    BY <1>1, <1>2
  <2> QED BY <1>3, <2>1
<1>6. Ended(w)
  BY <1>3 DEF Ended, n
<1>7. zero => Zero(w)
  BY <1>3, <1>4 DEF Zero, n
<1>8. \A i \in 1..n : w[i].t \in {"head", "data", "eom"} /\ (w[i].t = "eom" <=> i = n)
  <2> TAKE i \in 1..n
  <2>1. CASE i = 1
    BY <1>1, <1>3, <2>1
  <2>2. CASE i \in 2..(n - 1)
    BY <1>1, <1>3, <2>2
  <2>3. CASE i = n
    BY <1>3, <2>3
  <2> QED BY <1>4, <2>1, <2>2, <2>3
<1> QED BY <1>1, <1>2, <1>5, <1>6, <1>7, <1>8 DEF Sound, w, n

\* Header by header: what is wanted is sent and stays on the list.
Sift(q, H, r, i) == IF r[i].reply \in {"+", "!"}
                    THEN [h |-> Append(q.h, H[i]), out |-> q.out \o Image(H[i].bid, r[i].from)]
                    ELSE q

\* One more answer is looked at.
LEMMA WantedNext ==
    ASSUME NEW r \in Seq(Replies), NEW k \in Nat, k < Len(r)
    PROVE  /\ IsFiniteSet(WantedOf(r, k)) /\ Cardinality(WantedOf(r, k)) \in Nat
           /\ WantedOf(r, k) \subseteq WantedOf(r, k + 1)
           /\ r[k + 1].reply \in Wanted =>
                /\ k + 1 \in WantedOf(r, k + 1)
                /\ Cardinality(WantedOf(r, k + 1)) = Cardinality(WantedOf(r, k)) + 1
           /\ r[k + 1].reply \notin Wanted => WantedOf(r, k + 1) = WantedOf(r, k)
<1>1. IsFiniteSet(WantedOf(r, k)) /\ Cardinality(WantedOf(r, k)) \in Nat
  <2>1. IsFiniteSet(1..k)
    BY FS_Interval
  <2>2. WantedOf(r, k) \in SUBSET (1..k)
    BY DEF WantedOf
  <2> QED BY <2>1, <2>2, FS_Subset, FS_CardinalityType
<1>2. \A i : i \in 1..(k + 1) <=> i \in 1..k \/ i = k + 1
  OBVIOUS
<1>3. k + 1 \notin WantedOf(r, k) /\ WantedOf(r, k) \subseteq WantedOf(r, k + 1)
  <2>1. k + 1 \notin 1..k
    OBVIOUS
  <2> QED BY <1>2, <2>1 DEF WantedOf
<1>4. ASSUME r[k + 1].reply \in Wanted
      PROVE  /\ k + 1 \in WantedOf(r, k + 1)
             /\ Cardinality(WantedOf(r, k + 1)) = Cardinality(WantedOf(r, k)) + 1
  <2>1. WantedOf(r, k + 1) = WantedOf(r, k) \cup {k + 1}
    BY <1>2, <1>4 DEF WantedOf
  <2> QED BY <1>1, <1>3, <2>1, FS_AddElement
<1>5. ASSUME r[k + 1].reply \notin Wanted PROVE WantedOf(r, k + 1) = WantedOf(r, k)
  BY <1>2, <1>5 DEF WantedOf
<1> QED BY <1>1, <1>3, <1>4, <1>5

\* What has been sifted of the first k headers.
Sifted(q, H, r, k, zero) ==
    /\ q \in [h : Seq(Headers), out : Seq(Items)]
    /\ Len(q.h) = Cardinality(WantedOf(r, k))
    /\ \A i \in 1..Len(q.h) : \E j \in WantedOf(r, k) : q.h[i] = H[j]
    /\ \A i \in 1..Len(q.out) : q.out[i].t \in {"head", "data", "eom"}
    /\ Sound(q.out, zero)
    /\ q.h = << >> => q.out = << >>
    /\ \A u \in Seq(Items) : Quiet(u) => Load(u \o q.out, Len(q.h))

\* Nothing yet.
LEMMA SiftedNone ==
    ASSUME NEW H \in Seq(Headers), NEW r \in Seq(Replies), NEW zero
    PROVE  Sifted([h |-> << >>, out |-> << >>], H, r, 0, zero)
<1> DEFINE q == [h |-> << >>, out |-> << >>]
<1>1. q \in [h : Seq(Headers), out : Seq(Items)] /\ q.h = << >> /\ q.out = << >> /\ Len(<< >>) = 0
  OBVIOUS
<1>2. WantedOf(r, 0) = {}
  BY DEF WantedOf
<1>3. Cardinality(WantedOf(r, 0)) = 0
  BY <1>2, FS_EmptySet
<1>4. Sound(<< >>, zero)
  <2>1. << >> \in Seq(Items) /\ Len(<< >>) = 0
    OBVIOUS
  <2> DEFINE w == << >>
  <2>2. w \in Seq(Items) /\ \A i \in 1..Len(w) : w[i].t \notin {"head", "data", "FS"}
    BY <2>1
  <2> HIDE DEF w
  <2>3. Sound(w, zero)
    BY <2>2, SoundLines
  <2> QED BY <2>3 DEF w
<1>5. \A u \in Seq(Items) : Quiet(u) => Load(u \o << >>, 0)
  <2>1. \A u \in Seq(Items) : u \o << >> = u
    OBVIOUS
  <2> QED BY <2>1, LoadNone
<1> HIDE DEF q
<1>6. Sifted(q, H, r, 0, zero)
  BY <1>1, <1>3, <1>4, <1>5 DEF Sifted
<1> QED BY <1>6 DEF q
\* Three sequences behind each other.
LEMMA ConcatThree ==
    ASSUME NEW T, NEW u \in Seq(T), NEW v \in Seq(T), NEW w \in Seq(T)
    PROVE  (u \o v) \o w = u \o (v \o w)
  BY ConcatAssociative

\* The same of the items of a session.
LEMMA ItemsThree == \A u, v, w \in Seq(Items) : (u \o v) \o w = u \o (v \o w)
<1> SUFFICES ASSUME NEW u \in Seq(Items), NEW v \in Seq(Items), NEW w \in Seq(Items)
             PROVE  (u \o v) \o w = u \o (v \o w)
  OBVIOUS
<1> DEFINE T == Items
<1>1. u \in Seq(T) /\ v \in Seq(T) /\ w \in Seq(T)
  OBVIOUS
<1> HIDE DEF T
<1> QED BY <1>1, ConcatThree

\* The next header.
LEMMA SiftedNext ==
    ASSUME NEW H \in Seq(Headers), NEW r \in Seq(Replies), Len(r) = Len(H), NEW zero,
           zero => \A i \in 1..Len(r) : r[i].from = 0,
           NEW k \in Nat, k < Len(H), NEW q, Sifted(q, H, r, k, zero)
    PROVE  Sifted(Sift(q, H, r, k + 1), H, r, k + 1, zero)
<1>1. k + 1 \in 1..Len(H) /\ k + 1 \in 1..Len(r) /\ H[k + 1] \in Headers /\ r[k + 1] \in Replies
  OBVIOUS
<1>2. H[k + 1].bid \in Messages /\ r[k + 1].from \in Nat
  BY <1>1 DEF Headers, Replies
<1>3. /\ WantedOf(r, k) \subseteq WantedOf(r, k + 1)
      /\ r[k + 1].reply \in Wanted =>
           /\ k + 1 \in WantedOf(r, k + 1)
           /\ Cardinality(WantedOf(r, k + 1)) = Cardinality(WantedOf(r, k)) + 1
      /\ r[k + 1].reply \notin Wanted => WantedOf(r, k + 1) = WantedOf(r, k)
  BY WantedNext
<1>4. CASE r[k + 1].reply \notin Wanted
  <2>1. Sift(q, H, r, k + 1) = q
    BY <1>4 DEF Sift, Wanted
  <2> QED BY <1>3, <1>4, <2>1 DEF Sifted
<1>5. CASE r[k + 1].reply \in Wanted
  <2> DEFINE im == Image(H[k + 1].bid, r[k + 1].from)
             h2 == Append(q.h, H[k + 1])
             out2 == q.out \o im
             q2 == [h |-> h2, out |-> out2]
  <2>1. Sift(q, H, r, k + 1) = q2
    BY <1>5 DEF Sift, Wanted
  <2>2. /\ im \in Seq(Items) /\ im # << >> /\ Sound(im, zero)
        /\ \A i \in 1..Len(im) : im[i].t \in {"head", "data", "eom"}
        /\ \A i \in 1..Len(im) : im[i].t = "eom" <=> i = Len(im)
    <3>1. zero => r[k + 1].from = 0
      BY <1>1
    <3> QED BY <1>2, <3>1, ImageSound
  <2>3. q.h \in Seq(Headers) /\ q.out \in Seq(Items)
    BY DEF Sifted
  <2>4. /\ h2 \in Seq(Headers) /\ Len(h2) = Len(q.h) + 1 /\ Len(q.h) \in Nat
        /\ \A i \in 1..Len(q.h) : h2[i] = q.h[i]
        /\ h2[Len(q.h) + 1] = H[k + 1] /\ h2 # << >>
    <3> DEFINE g == q.h  x == H[k + 1]
    <3>1. g \in Seq(Headers) /\ x \in Headers /\ h2 = Append(g, x)
      BY <1>1, <2>3
    <3> HIDE DEF g, x, h2
    <3>2. h2 \in Seq(Headers) /\ Len(h2) = Len(g) + 1 /\ Len(g) \in Nat
      BY <3>1
    <3>3. (\A i \in 1..Len(g) : h2[i] = g[i]) /\ h2[Len(g) + 1] = x
      BY <3>1
    <3>4. h2 # << >>
      BY <3>2
    <3> QED BY <3>2, <3>3, <3>4 DEF g, x
  <2> HIDE DEF im, h2
  <2>5. out2 \in Seq(Items)
        /\ \A i \in 1..Len(out2) : out2[i].t \in {"head", "data", "eom"}
    <3>1. /\ out2 \in Seq(Items) /\ Len(out2) = Len(q.out) + Len(im)
          /\ Len(q.out) \in Nat /\ Len(im) \in Nat
          /\ \A i \in 1..Len(q.out) : out2[i] = q.out[i]
          /\ \A i \in 1..Len(out2) : i > Len(q.out) => /\ i - Len(q.out) \in 1..Len(im)
                                                       /\ out2[i] = im[i - Len(q.out)]
      <4>1. im \in Seq(Items)
        BY <2>2
      <4> QED BY <2>3, <4>1, ConcatIs
    <3>2. \A i \in 1..Len(q.out) : q.out[i].t \in {"head", "data", "eom"}
      BY DEF Sifted
    <3> HIDE DEF out2
    <3>3. ASSUME NEW i \in 1..Len(out2) PROVE out2[i].t \in {"head", "data", "eom"}
      <4>1. CASE i > Len(q.out)
        BY <2>2, <3>1, <4>1
      <4>2. CASE ~(i > Len(q.out))
        <5>1. i \in 1..Len(q.out)
          BY <3>1, <4>2
        <5> QED BY <3>1, <3>2, <5>1
      <4> QED BY <4>1, <4>2
    <3> QED BY <3>1, <3>3
  <2>6. Sound(out2, zero)
    <3>1. Framed(q.out) /\ Ended(q.out) /\ (zero => Zero(q.out))
      BY DEF Sifted, Sound
    <3>2. im \in Seq(Items) /\ Sound(im, zero)
      BY <2>2
    <3> QED BY <2>3, <3>1, <3>2, SoundPut
  <2>7. ASSUME NEW u \in Seq(Items), Quiet(u) PROVE Load(u \o out2, Len(q.h) + 1)
    <3> DEFINE w == u \o q.out
    <3>1. w \in Seq(Items) /\ Load(w, Len(q.h))
      <4>1. w \in Seq(Items)
        BY <2>3, ConcatIs
      <4> QED BY <2>7, <4>1 DEF Sifted
    <3>2. u \o out2 = w \o im
      <4>1. im \in Seq(Items)
        BY <2>2
      <4>2. u \in Seq(Items) /\ q.out \in Seq(Items)
        BY <2>3
      <4> HIDE DEF im
      <4>3. (u \o q.out) \o im = u \o (q.out \o im)
        BY <4>1, <4>2, ItemsThree
      <4> QED BY <4>3
    <3> HIDE DEF w, out2
    <3>3. im \in Seq(Items) /\ im # << >> /\ \A i \in 1..Len(im) : im[i].t = "eom" <=> i = Len(im)
      BY <2>2
    <3>4. Load(w \o im, Len(q.h) + 1)
      BY <2>4, <3>1, <3>3, LoadMore
    <3> QED BY <3>2, <3>4
  <2>8. ASSUME NEW i \in 1..Len(h2) PROVE \E j \in WantedOf(r, k + 1) : h2[i] = H[j]
    <3>1. CASE i \in 1..Len(q.h)
      <4>1. PICK j \in WantedOf(r, k) : q.h[i] = H[j]
        BY <3>1 DEF Sifted
      <4> QED BY <1>3, <2>4, <3>1, <4>1
    <3>2. CASE i = Len(q.h) + 1
      BY <1>3, <1>5, <2>4, <3>2
    <3> QED BY <2>4, <3>1, <3>2
  <2> HIDE DEF out2
  <2>9. q2 \in [h : Seq(Headers), out : Seq(Items)] /\ q2.h = h2 /\ q2.out = out2
    BY <2>4, <2>5
  <2>10. Len(h2) = Cardinality(WantedOf(r, k + 1))
    BY <1>3, <1>5, <2>4 DEF Sifted
  <2> HIDE DEF q2
  <2>11. Sifted(q2, H, r, k + 1, zero)
    BY <2>4, <2>5, <2>6, <2>7, <2>8, <2>9, <2>10 DEF Sifted
  <2> QED BY <2>1, <2>11
<1> QED BY <1>4, <1>5

\* ProposalResponse looks at one header after the other.
Kept(H, r) == FoldLeft(LAMBDA q, i : IF r[i].reply \in {"+", "!"}
                                     THEN [h |-> Append(q.h, H[i]),
                                           out |-> q.out \o Image(H[i].bid, r[i].from)] ELSE q,
                       [h |-> << >>, out |-> << >>], [i \in DOMAIN H |-> i])

\* What it gets.
LEMMA SiftIs ==
    ASSUME NEW H \in Seq(Headers), NEW r \in Seq(Replies), Len(r) = Len(H), NEW zero,
           zero => \A i \in 1..Len(r) : r[i].from = 0
    PROVE  Sifted(Kept(H, r), H, r, Len(H), zero)
<1> DEFINE n == Len(H)
           St == [h : Seq(Headers), out : Seq(Items)]
           none == [h |-> << >>, out |-> << >>]
           op(q, i) == Sift(q, H, r, i)
           ids == [i \in DOMAIN H |-> i]
           Rec(g) == [x \in SUBSET (1..n) |->
                        IF x = {} THEN none ELSE op(g[x \ {Max(x)}], ids[Max(x)])]
           iter == CHOOSE g : g = Rec(g)
           Good == [k \in 0..n |-> {q \in St : Sifted(q, H, r, k, zero)}]
<1>1. /\ n \in Nat /\ DOMAIN H = 1..n /\ ids = [i \in 1..n |-> i] /\ Len(ids) = n
      /\ \A i \in 1..n : ids[i] = i
  <2>1. n \in Nat /\ DOMAIN H = 1..n
    OBVIOUS
  <2>2. ids = [i \in 1..n |-> i] /\ ids \in [1..n -> Nat] /\ \A i \in 1..n : ids[i] = i
    BY <2>1
  <2> HIDE DEF ids, n
  <2>3. Len(ids) = n
    BY <2>1, <2>2, MapIsSeq
  <2> QED BY <2>1, <2>2, <2>3
<1>2. Kept(H, r) = iter[1..n]
  <2> DEFINE D == DOMAIN ids
             RecD(g) == [x \in SUBSET D |->
                           IF x = {} THEN none ELSE op(g[x \ {Max(x)}], ids[Max(x)])]
             iterD == CHOOSE g : g = RecD(g)
  <2>1. D = 1..n
    BY <1>1
  <2>2. Kept(H, r) = iterD[D]
    BY DEF Kept, FoldLeft, MapThenFoldSet, Sift
  <2> HIDE DEF D, op, ids, none
  <2>3. \A g : RecD(g) = Rec(g)
    BY <2>1
  <2>4. iterD = iter
    <3> HIDE DEF Rec, RecD
    <3> QED BY <2>3
  <2> HIDE DEF iter, iterD
  <2> QED BY <2>1, <2>2, <2>4
<1>3. ASSUME NEW q \in St, NEW i \in 1..n PROVE op(q, i) \in St
  <2>0. H[i] \in Headers /\ r[i] \in Replies
    OBVIOUS
  <2>1. H[i] \in Headers /\ H[i].bid \in Messages /\ r[i].from \in Nat
    BY <2>0 DEF Headers, Replies
  <2>2. Image(H[i].bid, r[i].from) \in Seq(Items)
    BY <2>1, ImageIs
  <2>3. Append(q.h, H[i]) \in Seq(Headers) /\ q.out \o Image(H[i].bid, r[i].from) \in Seq(Items)
    BY <2>1, <2>2, ConcatIs
  <2> QED BY <2>3 DEF Sift
<1> HIDE DEF op, none, St, ids
<1>4. none \in St /\ Sifted(none, H, r, 0, zero)
  BY SiftedNone DEF none, St
<1>5. \A x \in SUBSET (1..n) : iter[x] = IF x = {} THEN none
                                         ELSE op(iter[x \ {Max(x)}], ids[Max(x)])
  <2>0. PICK step \in [1..n -> [St -> St]] :
             step = [i \in 1..n |-> [q \in St |-> op(q, i)]]
    BY <1>3
  <2>1. PICK f \in [SUBSET (1..n) -> St] : IsFold(f, none, step, n)
    <3> HIDE DEF iter, Rec, n
    <3> QED BY <1>1, <1>4, FoldExists
  <2>2. \A x \in SUBSET (1..n) : x # {} => Max(x) \in 1..n
    BY <1>1, MaxIsGreatest
  <2>3. \A x \in SUBSET (1..n) :
           f[x] = IF x = {} THEN none ELSE op(f[x \ {Max(x)}], ids[Max(x)])
    BY <1>1, <2>0, <2>1, <2>2 DEF IsFold
  <2>4. f = Rec(f)
    BY <2>3
  <2>5. iter = Rec(iter)
    BY <2>4
  <2> HIDE DEF iter
  <2> QED BY <2>5
<1>6. iter[{}] \in Good[0]
  <2>1. iter[{}] = none
    <3> HIDE DEF iter
    <3> QED BY <1>5
  <2>2. 0 \in 0..n
    BY <1>1
  <2> QED BY <1>4, <2>1, <2>2
<1>7. ASSUME NEW k \in 0..(n - 1), iter[1..k] \in Good[k]
      PROVE  iter[1..(k + 1)] \in Good[k + 1]
  <2> HIDE DEF iter
  <2>1. /\ k \in Nat /\ k + 1 \in 0..n /\ k \in 0..n /\ k + 1 \in 1..n /\ k < n
        /\ 1..(k + 1) \in SUBSET (1..n)
    BY <1>1
  <2>2. iter[1..(k + 1)] = op(iter[1..k], k + 1)
    <3>1. /\ 1..(k + 1) # {} /\ Max(1..(k + 1)) = k + 1
          /\ (1..(k + 1)) \ {k + 1} = 1..k
      BY <2>1, FirstButLast
    <3> DEFINE X == 1..(k + 1)
    <3>2. X \in SUBSET (1..n) /\ X # {} /\ Max(X) = k + 1 /\ X \ {k + 1} = 1..k
      BY <2>1, <3>1
    <3>3. ids[k + 1] = k + 1
      BY <1>1, <2>1
    <3> HIDE DEF X
    <3>4. iter[X] = op(iter[X \ {Max(X)}], ids[Max(X)])
      BY <1>5, <3>2
    <3>5. iter[X] = op(iter[1..k], k + 1)
      BY <3>2, <3>3, <3>4
    <3> QED BY <3>5 DEF X
  <2>3. iter[1..k] \in St /\ Sifted(iter[1..k], H, r, k, zero)
    BY <1>7, <2>1
  <2>4. Sifted(op(iter[1..k], k + 1), H, r, k + 1, zero)
    <3> DEFINE q == iter[1..k]
    <3>1. Sifted(q, H, r, k, zero)
      BY <2>3
    <3> HIDE DEF q
    <3>2. Sifted(Sift(q, H, r, k + 1), H, r, k + 1, zero)
      BY <2>1, <3>1, SiftedNext DEF n
    <3> QED BY <3>2 DEF op, q
  <2>5. op(iter[1..k], k + 1) \in St
    BY <1>3, <2>1, <2>3
  <2> QED BY <2>1, <2>2, <2>4, <2>5
<1>8. iter[1..n] \in Good[n]
  <2> HIDE DEF iter, Good, n
  <2> QED BY <1>1, <1>6, <1>7, FoldKeeps
<1>9. n \in 0..n
  BY <1>1
<1>10. Sifted(iter[1..n], H, r, n, zero)
  <2> HIDE DEF iter
  <2> QED BY <1>8, <1>9
<1> HIDE DEF iter
<1> QED BY <1>2, <1>10
\* What an FS line changes.
Told(S, m, h, s, o) == [S EXCEPT !.n.MsgHddrPtr = m, !.c.FBBHeaders = h, !.c.FBBMsgsSent = s,
                                 !.out = o]

\* Nothing else changes.
LEMMA ToldIs ==
    ASSUME NEW S \in Results, NEW m \in Seq(Records), NEW h \in Seq(Headers), NEW s \in BOOLEAN,
           NEW o \in Seq(Items)
    PROVE  LET R == Told(S, m, h, s, o) IN
           /\ R \in Results /\ R.n.MsgHddrPtr = m /\ R.out = o /\ Rest(S.c, R.c)
           /\ R.c.FBBHeaders = h /\ R.c.FBBMsgsSent = s /\ R.c.FBBReplyChars = S.c.FBBReplyChars
<1> DEFINE R == Told(S, m, h, s, o)
           n2 == [S.n EXCEPT !.MsgHddrPtr = m]
           c2 == [S.c EXCEPT !.FBBHeaders = h, !.FBBMsgsSent = s]
<1>1. R.n = n2 /\ R.c = c2 /\ R.out = o /\ (n2 \in Nodes /\ c2 \in Streams => R \in Results)
  <2> HIDE DEF n2, c2
  <2>1. R = [S EXCEPT !.n = n2, !.c = c2, !.out = o]
    BY DEF Told, n2, c2, Results
  <2> HIDE DEF R
  <2> QED BY <2>1 DEF Results
<1>2. n2 \in Nodes /\ n2.MsgHddrPtr = m
  BY ResultIs DEF Nodes
<1>3. S.c \in Streams
  BY ResultIs
<1>4. c2 \in Streams /\ c2.FBBHeaders = h /\ c2.FBBMsgsSent = s /\ Rest(S.c, c2)
      /\ c2.FBBReplyChars = S.c.FBBReplyChars
  <2>1. c2 \in Streams
    BY <1>3 DEF Streams
  <2> QED BY <1>3, <2>1 DEF Streams, Rest
<1> HIDE DEF n2, c2, R
<1> QED BY <1>1, <1>2, <1>4 DEF R

\* A message that is to wait.
LEMMA DeferIs ==
    ASSUME NEW r \in Records
    PROVE  LET x == [r EXCEPT !.Defered = DeferFor] IN
           x \in Records /\ x.bid = r.bid /\ x.whole = r.whole /\ x.forw = r.forw
  BY LimitAssumption DEF Records

\* The answers to what was proposed.
LEMMA ResponseIs ==
    ASSUME NEW S \in Results, NEW p \in BBSs, NEW np, NEW r \in Seq(Replies), NEW zero,
           zero => \A i \in 1..Len(r) : r[i].from = 0,
           Own(S.n, S.c.FBBHeaders), AnswersOK(np, S.c.FBBHeaders, r)
    PROVE  LET R == ProposalResponse(S, p, r)
               H == S.c.FBBHeaders
               q == Kept(H, r)
           IN  /\ R \in Results /\ Later(S.n, R.n, p, np) /\ Rest(S.c, R.c)
               /\ R.c.FBBReplyChars = S.c.FBBReplyChars
               /\ R.c.FBBHeaders = q.h /\ R.out = S.out \o q.out
               /\ R.c.FBBMsgsSent = (S.c.FBBMsgsSent \/ WantedOf(r, Len(H)) # {})
               /\ Sifted(q, H, r, Len(H), zero)
               /\ Own(R.n, R.c.FBBHeaders)
<1> DEFINE R == ProposalResponse(S, p, r)
           H == S.c.FBBHeaders
           q == Kept(H, r)
           M == S.n.MsgHddrPtr
           With(rs) == {i \in DOMAIN H : r[i].reply \in rs}
           no == {H[i].FwdMsg : i \in With({"-"})}
           later == {H[i].FwdMsg : i \in With({"="})}
           M2 == [i \in DOMAIN M |->
                    IF i \in no
                    THEN [Done(M[i], p) EXCEPT !.status = IF TypeOf[M[i].bid] = "P" THEN "F"
                                                          ELSE Done(M[i], p).status]
                    ELSE IF i \in later THEN [M[i] EXCEPT !.Defered = DeferFor]
                    ELSE M[i]]
           s == S.c.FBBMsgsSent \/ With({"+", "!"}) # {}
<1>1. /\ H \in Seq(Headers) /\ Len(H) \in Nat /\ DOMAIN H = 1..Len(H) /\ Len(r) = Len(H)
      /\ M \in Seq(Records) /\ \A i \in DOMAIN M : M[i] \in Records
  BY ResultIs, StreamIs, NodeIs DEF AnswersOK
<1>2. Sifted(q, H, r, Len(H), zero)
  <2> HIDE DEF H
  <2> QED BY <1>1, SiftIs
<1>3. q.h \in Seq(Headers) /\ q.out \in Seq(Items) /\ S.out \o q.out \in Seq(Items)
  <2>1. q.h \in Seq(Headers) /\ q.out \in Seq(Items)
    BY <1>2 DEF Sifted
  <2>2. S.out \in Seq(Items)
    BY ResultIs
  <2> HIDE DEF q
  <2> QED BY <2>1, <2>2
<1>4. s \in BOOLEAN /\ With({"+", "!"}) = WantedOf(r, Len(H))
  <2>1. With({"+", "!"}) = WantedOf(r, Len(H))
    BY <1>1 DEF WantedOf, Wanted
  <2>2. S.c.FBBMsgsSent \in BOOLEAN
    BY ResultIs, StreamIs
  <2> QED BY <2>1, <2>2
<1>5. R = Told(S, M2, q.h, s, S.out \o q.out)
  BY DEF ProposalResponse, Told, Kept, Results
<1>6. \A i \in no : i \in DOMAIN M /\ Has(np, M[i].bid)
  <2> TAKE i \in no
  <2>1. PICK j \in DOMAIN H : r[j].reply = "-" /\ H[j].FwdMsg = i
    OBVIOUS
  <2>2. i \in DOMAIN M /\ M[i].bid = H[j].bid
    BY <2>1 DEF Own
  <2>3. Has(np, H[j].bid)
    BY <1>1, <2>1 DEF AnswersOK
  <2> QED BY <2>2, <2>3
<1> HIDE DEF no, later, q, s, With
<1>7. ASSUME NEW i \in DOMAIN M
      PROVE  /\ M2[i] \in Records /\ M2[i].bid = M[i].bid /\ M2[i].whole = M[i].whole
             /\ M2[i].forw = IF i \in no THEN M[i].forw \cup {p} ELSE M[i].forw
  <2>0. M[i] \in Records
    BY <1>1
  <2>1. CASE i \in no
    <3> DEFINE x == Done(M[i], p)
               y == IF TypeOf[M[i].bid] = "P" THEN "F" ELSE x.status
    <3>1. x \in Records /\ \A z \in {"N", "F"} :
               /\ [x EXCEPT !.status = z] \in Records
               /\ [x EXCEPT !.status = z].bid = M[i].bid
               /\ [x EXCEPT !.status = z].whole = M[i].whole
               /\ [x EXCEPT !.status = z].forw = M[i].forw \cup {p}
      BY <2>0, DoneIs
    <3>2. y \in {"N", "F"}
      <4>1. x.status \in {"N", "F"}
        BY <3>1 DEF Records
      <4> QED BY <4>1
    <3>3. M2[i] = [x EXCEPT !.status = y]
      BY <2>1
    <3> HIDE DEF x, y, M2
    <3> QED BY <2>1, <3>1, <3>2, <3>3
  <2>2. CASE i \notin no /\ i \in later
    <3>1. M2[i] = [M[i] EXCEPT !.Defered = DeferFor]
      BY <2>2
    <3> HIDE DEF M2, M
    <3> QED BY <2>0, <2>2, <3>1, DeferIs
  <2>3. CASE i \notin no /\ i \notin later
    BY <2>0, <2>3
  <2> QED BY <2>1, <2>2, <2>3
<1>8. M2 \in Seq(Records) /\ DOMAIN M2 = DOMAIN M
  <2>1. Len(M) \in Nat /\ DOMAIN M = 1..Len(M)
    BY <1>1, SeqIs
  <2>2. M2 \in [1..Len(M) -> Records]
    BY <1>7, <2>1
  <2> HIDE DEF M2
  <2> QED BY <2>1, <2>2, MapIsSeq
<1> HIDE DEF M2
<1> DEFINE o == S.out \o q.out
<1>9. o \in Seq(Items)
  BY <1>3
<1> HIDE DEF o, R
<1>10. /\ R \in Results /\ R.n.MsgHddrPtr = M2 /\ R.out = o /\ Rest(S.c, R.c)
       /\ R.c.FBBHeaders = q.h /\ R.c.FBBMsgsSent = s /\ R.c.FBBReplyChars = S.c.FBBReplyChars
  <2>1. R = Told(S, M2, q.h, s, o)
    BY <1>5 DEF o
  <2>2. q.h \in Seq(Headers)
    BY <1>3
  <2> QED BY <1>4, <1>8, <1>9, <2>1, <2>2, ToldIs
<1>11. Later(S.n, R.n, p, np)
  <2>1. MoreOf(S.n, R.n)
    BY <1>7, <1>8, <1>10 DEF MoreOf
  <2>2. ASSUME NEW i \in DOMAIN M2, NEW x \in M2[i].forw
        PROVE  x \in M[i].forw \/ (x = p /\ Has(np, M2[i].bid))
    BY <1>6, <1>7, <1>8, <2>2
  <2>3. \A i \in DOMAIN M2 : M2[i].whole \/ ~M[i].whole
    BY <1>7, <1>8
  <2> QED BY <1>8, <1>10, <2>1, <2>2, <2>3 DEF Later
<1>12. Own(R.n, R.c.FBBHeaders)
  <2>1. Own(R.n, H)
    BY <1>11, MoreHas DEF Later
  <2> DEFINE h == q.h
  <2>2. \A i \in DOMAIN h : \E j \in DOMAIN H : h[i] = H[j]
    <3>1. \A i \in 1..Len(h) : \E j \in WantedOf(r, Len(H)) : h[i] = H[j]
      BY <1>2 DEF Sifted
    <3>2. WantedOf(r, Len(H)) \subseteq DOMAIN H
      BY <1>1 DEF WantedOf
    <3>3. DOMAIN h = 1..Len(h)
      BY <1>3
    <3> QED BY <3>1, <3>2, <3>3
  <2>3. R.c.FBBHeaders = h
    BY <1>10
  <2> HIDE DEF h, H
  <2>4. Own(R.n, h)
    BY <2>1, <2>2 DEF Own
  <2> QED BY <2>3, <2>4
<1> QED BY <1>2, <1>4, <1>10, <1>11, <1>12 DEF R, q, s, o, H

\* Disconnected: what is kept of the messages is the same.
LEMMA DisconnectedIs ==
    ASSUME NEW n \in Nodes, NEW c \in Streams, NEW b \in BBSs, NEW p \in BBSs
    PROVE  LET n2 == Disconnected(n, c, b, p) IN n2 \in Nodes /\ n2.MsgHddrPtr = n.MsgHddrPtr
<1> DEFINE k == SaveFBBBinary(n, c, p)
<1>1. k \in Nodes /\ k.MsgHddrPtr = n.MsgHddrPtr
  <2> DEFINE found == RestartRecs(n, p, c.TempMsg.bid)
             i == IF found # {} THEN First(found) ELSE Len(n.RestartData)
             Rec(count) == [Call |-> p, bid |-> c.TempMsg.bid, length |-> c.TempMsg.length,
                            whole |-> c.TempMsg.whole, Count |-> count]
             old == n.RestartData[i]
             count2 == IF found # {} /\ old.length < c.TempMsg.length THEN 0 ELSE old.Count
             D == IF i = 0 THEN << Rec(0) >> ELSE [n.RestartData EXCEPT ![i] = Rec(count2)]
  <2>1. /\ n.RestartData \in Seq(Restarts) /\ n.file \in Seq(Restarts)
        /\ c.TempMsg.bid \in Bids /\ c.TempMsg.length \in Nat /\ c.TempMsg.whole \in BOOLEAN
    BY NodeIs, StreamIs
  <2>2. \A x \in Nat : Rec(x) \in Restarts
    BY <2>1 DEF Restarts
  <2>3. i \in 0..Len(n.RestartData)
    <3>1. CASE found # {}
      <4>1. First(found) \in 1..Len(n.RestartData)
        BY <3>1, RestartRecIs
      <4>2. i = First(found)
        BY <3>1
      <4> HIDE DEF i, found
      <4> QED BY <2>1, <4>1, <4>2
    <3>2. CASE found = {}
      BY <2>1, <3>2
    <3> QED BY <3>1, <3>2
  <2>4. i # 0 => count2 \in Nat
    <3> HIDE DEF i, found
    <3> SUFFICES ASSUME i # 0 PROVE old.Count \in Nat
      OBVIOUS
    <3>1. old \in Restarts
      BY <2>1, <2>3
    <3> QED BY <3>1 DEF Restarts
  <2> HIDE DEF i, found, count2
  <2>5. D \in Seq(Restarts)
    <3>1. CASE i = 0
      <4>1. Rec(0) \in Restarts
        BY <2>2
      <4> HIDE DEF Rec
      <4> QED BY <3>1, <4>1
    <3>2. CASE i # 0
      <4>1. Rec(count2) \in Restarts
        BY <2>2, <2>4, <3>2
      <4> HIDE DEF Rec
      <4> QED BY <2>1, <2>3, <3>2, <4>1
    <3> QED BY <3>1, <3>2
  <2>6. k = IF c.TempMsg.length = 0 THEN n ELSE SaveRestartData([n EXCEPT !.RestartData = D])
    BY DEF SaveFBBBinary, i, found, count2
  <2> HIDE DEF D, k
  <2>7. /\ SaveRestartData([n EXCEPT !.RestartData = D]) \in Nodes
        /\ SaveRestartData([n EXCEPT !.RestartData = D]).MsgHddrPtr = n.MsgHddrPtr
    BY <2>5 DEF SaveRestartData, Nodes
  <2> QED BY <2>6, <2>7
<1> DEFINE m == IF c.InputMode = "binary" /\ B1(b, p) /\ ~c.DontSaveRestartData THEN k ELSE n
<1>2. m \in Nodes /\ m.MsgHddrPtr = n.MsgHddrPtr
  <2> HIDE DEF k
  <2> QED BY <1>1
<1>3. Disconnected(n, c, b, p) = [m EXCEPT !.TempBIDs = {t \in @ : t.conn # p}]
  BY DEF Disconnected
<1> HIDE DEF m
<1>4. {t \in m.TempBIDs : t.conn # p} \in SUBSET [bid : Messages, conn : BBSs]
  BY <1>2 DEF Nodes
<1> QED BY <1>2, <1>3, <1>4 DEF Nodes
(***************************************************************************)
(* What arrives, on one side.                                              *)
(***************************************************************************)

\* i arrives from w: it may have been damaged on the way if it is data.
Arrives(w, i) == /\ w # << >> /\ i \in Items /\ i.t = w[1].t
                 /\ i.t # "data" => i = w[1]

\* The types of what is in an item.
LEMMA ItemIs ==
    ASSUME NEW i \in Items
    PROVE  /\ i.t \in {"FA", "FS", "head", "data", "F>", "FF", "FQ", "text", "eom"}
           /\ i.t = "FA" => i.x \in Messages
           /\ i.t = "FS" => i.x \in Seq(Replies)
           /\ i.t = "head" => i.x \in Nat
           /\ i.t = "data" => i.x \in BOOLEAN
  BY DEF Items

\* Nothing is in front of what is sent.
LEMMA NoneBefore == \A q \in Seq(Items) : << >> \o q = q
  BY ConcatEmptySeq

\* Text, or nothing, as it is sent.
LEMMA SomeTextIs ==
    ASSUME NEW q, SomeText(q)
    PROVE  /\ q \in Seq(Items) /\ \A i \in 1..Len(q) : q[i] = Text
           /\ \A zero : Sound(q, zero)
<1>1. q \in Seq(Items) /\ \A i \in 1..Len(q) : q[i] = Text
  <2>1. CASE q = << >>
    BY <2>1
  <2>2. CASE q = << Text >>
    BY <2>2, LinesAreItems
  <2> QED BY <2>1, <2>2 DEF SomeText
<1>2. \A i \in 1..Len(q) : q[i].t \notin {"head", "data", "FS"}
  BY <1>1, LinesAreItems
<1> QED BY <1>1, <1>2, SoundLines

\* The proposals H as they are sent.
LEMMA AskTypes ==
    ASSUME NEW H \in Seq(Headers)
    PROVE  \A i \in 1..Len(Ask(H, 0)) : Ask(H, 0)[i].t \in {"FA", "F>"}
<1> DEFINE w == Ask(H, 0)
<1>1. Len(w) = Len(H) + 1 /\ Len(H) \in Nat
  <2>1. 0 \in 0..Len(H) /\ Len(H) \in Nat /\ Len(H) - 0 + 1 = Len(H) + 1
    OBVIOUS
  <2> HIDE DEF w
  <2> QED BY <2>1, AskIs DEF w
<1>2. \A i \in 1..(Len(H) + 1) : w[i] = IF i <= Len(H) THEN Item("FA", H[i].bid) ELSE Line("F>")
  <2>1. Len(H) - 0 + 1 = Len(H) + 1 /\ Len(H) - 0 = Len(H) /\ \A i \in 1..(Len(H) + 1) : 0 + i = i
    BY <1>1
  <2> QED BY <1>1, <2>1 DEF Ask
<1> HIDE DEF w
<1>3. \A i \in 1..Len(w) : w[i].t \in {"FA", "F>"}
  BY <1>1, <1>2 DEF Item, Line
<1> QED BY <1>3 DEF w

\* What is sent when a block goes on is no message.
LEMMA TurnSound ==
    ASSUME NEW H \in Seq(Headers), NEW x \in {"FF", "FQ"}, NEW zero
    PROVE  LET q == IF H = << >> THEN << Line(x) >> ELSE Ask(H, 0) IN
           q \in Seq(Items) /\ Sound(q, zero)
<1>1. << Line(x) >> \in Seq(Items) /\ Len(<< Line(x) >>) = 1 /\ << Line(x) >>[1].t = x
  BY LinesAreItems DEF Line, Item
<1>2. Sound(<< Line(x) >>, zero)
  <2> DEFINE w == << Line(x) >>
  <2>1. w \in Seq(Items) /\ \A i \in 1..Len(w) : w[i].t \notin {"head", "data", "FS"}
    BY <1>1
  <2> HIDE DEF w
  <2>2. Sound(w, zero)
    BY <2>1, SoundLines
  <2> QED BY <2>2 DEF w
<1>3. Ask(H, 0) \in Seq(Items)
  <2>1. 0 \in 0..Len(H)
    OBVIOUS
  <2> QED BY <2>1, AskIs
<1>4. Sound(Ask(H, 0), zero)
  <2> DEFINE w == Ask(H, 0)
  <2>1. w \in Seq(Items) /\ \A i \in 1..Len(w) : w[i].t \notin {"head", "data", "FS"}
    BY <1>3, AskTypes
  <2> HIDE DEF w
  <2>2. Sound(w, zero)
    BY <2>1, SoundLines
  <2> QED BY <2>2 DEF w
<1> QED BY <1>1, <1>2, <1>3, <1>4

\* An answer is sound.
LEMMA AnswerSound ==
    ASSUME NEW r \in Seq(Replies), NEW zero, zero => \A i \in 1..Len(r) : r[i].from = 0
    PROVE  << Item("FS", r) >> \in Seq(Items) /\ Sound(<< Item("FS", r) >>, zero)
<1> DEFINE w == << Item("FS", r) >>
<1>1. w \in Seq(Items) /\ Len(w) = 1 /\ w[1].t = "FS" /\ w[1].x = r
  BY LinesAreItems DEF Item
<1> HIDE DEF w
<1>2. Framed(w) /\ Ended(w) /\ (zero => Zero(w))
  BY <1>1 DEF Framed, Ended, Zero
<1> QED BY <1>1, <1>2 DEF Sound, w

\* What is true of the BBS and its stream when an item has been handled.
Handled(S, R, p, np, zero, i) ==
    /\ R \in Results /\ Later(S.n, R.n, p, np) /\ R.c.Active = S.c.Active
    /\ Sane(R.c, zero) /\ Sound(R.out, zero)
    /\ Spoilt(R.c) => i.t \in {"head", "data"}
    /\ S.c.InputMode = "binary" => R.c.FBBMsgsSent = S.c.FBBMsgsSent

\* Nothing happens.
LEMMA SoundNothing == \A zero : Sound(<< >>, zero)
<1>1. SomeText(<< >>)
  BY DEF SomeText
<1> QED BY <1>1, SomeTextIs

\* A stream that goes on.
LEMMA OnwardSane ==
    ASSUME NEW T \in Results, NEW H \in Seq(Headers), NEW R, Onward(T, H, R), NEW zero,
           zero => \A i \in 1..Len(T.c.FBBReplyChars) : T.c.FBBReplyChars[i].from = 0,
           H = << >> => (zero => (T.c.sumOK => T.c.TempMsg.whole))
    PROVE  /\ R \in Results /\ R.c.Active = T.c.Active /\ R.c.FBBMsgsSent = T.c.FBBMsgsSent
           /\ Sane(R.c, zero) /\ ~Spoilt(R.c)
           /\ \E q \in Seq(Items) : R.out = T.out \o q /\ Sound(q, zero)
<1>1. CASE H # << >>
  <2>1. \E q \in Seq(Items) : R.out = T.out \o q /\ Sound(q, zero)
    BY <1>1, SomeTextIs DEF Onward
  <2> QED BY <1>1, <2>1 DEF Onward, Sane, Spoilt
<1>2. CASE H = << >>
  <2> DEFINE q == IF R.c.FBBHeaders = << >> THEN << Line("FF") >> ELSE Ask(R.c.FBBHeaders, 0)
  <2>1. R.c.FBBHeaders \in Seq(Headers)
    BY ResultIs, StreamIs DEF Onward
  <2>2. q \in Seq(Items) /\ Sound(q, zero)
    <3> DEFINE h == R.c.FBBHeaders
    <3>1. h \in Seq(Headers) /\ "FF" \in {"FF", "FQ"}
      BY <2>1
    <3> HIDE DEF h
    <3>2. LET y == IF h = << >> THEN << Line("FF") >> ELSE Ask(h, 0) IN
          y \in Seq(Items) /\ Sound(y, zero)
      BY <3>1, TurnSound
    <3> QED BY <3>2 DEF h
  <2>3. R.out = T.out \o q
    BY <1>2 DEF Onward
  <2> HIDE DEF q
  <2> QED BY <1>2, <2>2, <2>3 DEF Onward, Sane, Spoilt, Healthy
<1> QED BY <1>1, <1>2
\* What does not end a message, nor a block.
LEMMA StirIs ==
    ASSUME NEW S \in Results, S.out = << >>, NEW b, NEW p, NEW i \in Items,
           \/ i.t \in {"text", "head", "data"}
           \/ i.t = "eom" /\ (S.c.InputMode = "line" \/ S.c.closing = "flush")
    PROVE  LET R == Handle(S, b, p, i) IN
           /\ R \in Results /\ R.n = S.n /\ Still(S.c, R.c) /\ SomeText(R.out)
<1> DEFINE R == Handle(S, b, p, i)
<1> SUFFICES R \in Results /\ R.n = S.n /\ Still(S.c, R.c) /\ SomeText(R.out)
  OBVIOUS
<1>0. S.c.InputMode \in {"line", "binary"} /\ \A q : SomeText(q) => << >> \o q = q
  BY ResultIs, StreamIs, SomeTextIs, NoneBefore
<1>1. CASE S.c.InputMode = "binary" /\ S.c.closing = "flush"
  <2>1. R = S
    BY <1>1 DEF Handle, UnpackFBBBinary
  <2> QED BY <2>1 DEF Still, SomeText
<1>2. CASE S.c.InputMode = "binary" /\ S.c.closing # "flush" /\ i.t = "head"
  <2>1. R = Header(S, p, i.x)
    BY <1>2 DEF Handle, UnpackFBBBinary
  <2>2. i.x \in Nat
    BY <1>2, ItemIs
  <2>3. R \in Results /\ R.n = S.n /\ Still(S.c, R.c) /\ \E q : SomeText(q) /\ R.out = S.out \o q
    <3> DEFINE x == i.x
    <3>1. R = Header(S, p, x) /\ x \in Nat
      BY <2>1, <2>2
    <3> HIDE DEF R, x
    <3>2. x \in Nat
      BY <3>1
    <3>3. LET Q == Header(S, p, x) IN
          /\ Q \in Results /\ Q.n = S.n /\ Still(S.c, Q.c)
          /\ \E q : SomeText(q) /\ Q.out = S.out \o q
          /\ x = 0 => Q.c.TempMsg = S.c.TempMsg
      BY <3>2, HeaderIs
    <3> QED BY <3>1, <3>3
  <2> HIDE DEF R
  <2> QED BY <1>0, <2>3
<1>3. CASE S.c.InputMode = "binary" /\ S.c.closing # "flush" /\ i.t = "data"
  <2>1. R = DataBlock(S, i.x)
    BY <1>3 DEF Handle, UnpackFBBBinary
  <2>2. i.x \in BOOLEAN
    BY <1>3, ItemIs
  <2>3. R \in Results /\ R.n = S.n /\ Still(S.c, R.c) /\ R.out = S.out
    BY <2>1, <2>2, DataIs
  <2> QED BY <2>3 DEF SomeText
<1>4. CASE S.c.InputMode = "binary" /\ S.c.closing # "flush" /\ i.t = "text"
  <2>1. R = InvalidBlock(S)
    BY <1>4 DEF Handle, UnpackFBBBinary
  <2>2. R \in Results /\ R.n = S.n /\ Still(S.c, R.c) /\ R.out = S.out \o << Text >>
    BY <2>1, InvalidIs
  <2>3. SomeText(<< Text >>)
    BY DEF SomeText
  <2> QED BY <1>0, <2>2, <2>3
<1>5. CASE S.c.InputMode = "line" /\ i.t # "text"
  <2>1. R = S
    BY <1>5 DEF Handle
  <2> QED BY <2>1 DEF Still, SomeText
<1>6. CASE S.c.InputMode = "line" /\ i.t = "text"
  <2>1. R = Refuse(S)
    BY <1>6 DEF Handle, ProcessFBBLine
  <2>2. R \in Results /\ R.n = S.n /\ Still(S.c, R.c) /\ \E q : SomeText(q) /\ R.out = S.out \o q
    <3> HIDE DEF R
    <3> QED BY <1>6, <2>1, RefuseIs
  <2> HIDE DEF R
  <2> QED BY <1>0, <2>2
<1> QED BY <1>0, <1>1, <1>2, <1>3, <1>4, <1>5, <1>6

\* A block, and what is no block, while a message is received.
LEMMA BinaryOK ==
    ASSUME net \in Networks, NEW S \in Results, S.out = << >>, S.c.InputMode = "binary",
           NEW b \in BBSs, NEW p \in BBSs, NEW np, NEW w \in Seq(Items), NEW i, Arrives(w, i),
           NEW there, Exact(S.c, w, ~B1(b, p), there)
    PROVE  Handled(S, UnpackFBBBinary(S, b, p, i), p, np, ~B1(b, p), i)
<1> DEFINE R == UnpackFBBBinary(S, b, p, i)
           zero == ~B1(b, p)
<1> SUFFICES Handled(S, R, p, np, zero, i)
  OBVIOUS
<1>1. /\ S.c.FBBHeaders # << >> /\ Sane(S.c, zero)
      /\ i \in Items /\ i.t = w[1].t /\ w # << >> /\ Later(S.n, S.n, p, np)
      /\ zero => \A k \in 1..Len(S.c.FBBReplyChars) : S.c.FBBReplyChars[k].from = 0
      /\ SomeText(<< Text >>) /\ SomeText(<< >>)
  BY LaterSame DEF Exact, Sane, Arrives, SomeText
<1>2. CASE S.c.closing = "flush"
  <2>1. R = S
    BY <1>2 DEF UnpackFBBBinary
  <2>2. ~Spoilt(S.c)
    BY <1>2 DEF Spoilt, Healthy
  <2> HIDE DEF R, zero
  <2> QED BY <1>1, <2>1, <2>2, SoundNothing DEF Handled
<1>3. CASE S.c.closing # "flush" /\ i.t = "head"
  <2>1. R = Header(S, p, i.x) /\ i.x \in Nat
    BY <1>1, <1>3, ItemIs DEF UnpackFBBBinary
  <2>2. /\ R \in Results /\ R.n = S.n /\ Still(S.c, R.c)
        /\ \E q : SomeText(q) /\ R.out = S.out \o q
        /\ i.x = 0 => R.c.TempMsg = S.c.TempMsg
    <3> DEFINE x == i.x
    <3>1. R = Header(S, p, x) /\ x \in Nat
      BY <2>1
    <3> HIDE DEF R, x
    <3>3. x \in Nat
      BY <3>1
    <3>4. LET Q == Header(S, p, x) IN
          /\ Q \in Results /\ Q.n = S.n /\ Still(S.c, Q.c)
          /\ \E q : SomeText(q) /\ Q.out = S.out \o q
          /\ x = 0 => Q.c.TempMsg = S.c.TempMsg
      BY <3>3, HeaderIs
    <3>2. /\ R \in Results /\ R.n = S.n /\ Still(S.c, R.c)
          /\ \E q : SomeText(q) /\ R.out = S.out \o q
          /\ x = 0 => R.c.TempMsg = S.c.TempMsg
      BY <3>1, <3>4
    <3> QED BY <3>2 DEF x
  <2>3. Sound(R.out, zero)
    <3>1. PICK q : SomeText(q) /\ R.out = S.out \o q
      BY <2>2
    <3> HIDE DEF R, zero
    <3>2. R.out = q
      BY <3>1, SomeTextIs, NoneBefore
    <3> QED BY <3>1, <3>2, SomeTextIs
  <2>4. zero => i.x = 0
    <3>1. i = w[1] /\ 1 \in 1..Len(w)
      BY <1>1, <1>3 DEF Arrives
    <3> QED BY <1>3, <3>1 DEF Exact, Zero
  <2>5. S.c.TempMsg.whole
    <3>1. ~Spoilt(S.c)
      BY <1>1, <1>3 DEF Exact
    <3>2. S.c.TempMsg.whole \in BOOLEAN
      BY ResultIs, StreamIs
    <3> QED BY <1>3, <3>1, <3>2 DEF Spoilt, Healthy
  <2>6. Sane(R.c, zero)
    <3> HIDE DEF R, zero
    <3> QED BY <1>1, <2>2, <2>4, <2>5 DEF Sane, Still
  <2> HIDE DEF R, zero
  <2> QED BY <1>1, <1>3, <2>2, <2>3, <2>6, LaterSame DEF Handled, Still
<1>4. CASE S.c.closing # "flush" /\ i.t = "data"
  <2>1. R = DataBlock(S, i.x) /\ i.x \in BOOLEAN
    BY <1>1, <1>4, ItemIs DEF UnpackFBBBinary
  <2>2. /\ R \in Results /\ R.n = S.n /\ R.out = S.out /\ Still(S.c, R.c)
        /\ R.c.sumOK = (S.c.sumOK /\ i.x) /\ R.c.TempMsg.whole = (S.c.TempMsg.whole /\ i.x)
    <3> HIDE DEF R
    <3> QED BY <2>1, DataIs
  <2>3. Sane(R.c, zero)
    <3> HIDE DEF R, zero
    <3> QED BY <1>1, <2>2 DEF Sane, Still
  <2> HIDE DEF R, zero
  <2> QED BY <1>1, <1>4, <2>2, <2>3, LaterSame, SoundNothing DEF Handled, Still
<1>5. CASE S.c.closing # "flush" /\ i.t = "eom"
  <2>1. R = EndOfMessage(S, b, p)
    BY <1>5 DEF UnpackFBBBinary
  <2>2. S.c.sumOK => S.c.TempMsg.whole \/ B1(b, p)
    BY <1>1 DEF Sane
  <2>3. /\ Later(S.n, R.n, p, np)
        /\ \/ /\ R \in Results /\ R.out = S.out \o << Text >>
              /\ R.c.closing = "flush"
              /\ R.c.Active = S.c.Active /\ R.c.FBBHeaders = S.c.FBBHeaders
              /\ R.c.FBBMsgsSent = S.c.FBBMsgsSent /\ R.c.FBBReplyChars = S.c.FBBReplyChars
              /\ R.c.TempMsg = S.c.TempMsg /\ R.c.sumOK = S.c.sumOK
           \/ S.c.TempMsg.whole /\ Onward(S, Tail(S.c.FBBHeaders), R)
    <3> HIDE DEF R
    <3>1. S.c.FBBHeaders # << >>
      BY <1>1
    <3> QED BY <2>1, <2>2, <3>1, EndOfMessageIs
  <2>4. CASE /\ R \in Results /\ R.out = S.out \o << Text >>
             /\ R.c.closing = "flush"
             /\ R.c.Active = S.c.Active /\ R.c.FBBHeaders = S.c.FBBHeaders
             /\ R.c.FBBMsgsSent = S.c.FBBMsgsSent /\ R.c.FBBReplyChars = S.c.FBBReplyChars
             /\ R.c.TempMsg = S.c.TempMsg /\ R.c.sumOK = S.c.sumOK
    <3> HIDE DEF R, zero
    <3>1. Sane(R.c, zero) /\ ~Spoilt(R.c)
      BY <1>1, <2>4 DEF Sane, Spoilt, Healthy
    <3>2. Sound(R.out, zero)
      <4>1. R.out = << Text >>
        BY <1>1, <2>4, SomeTextIs, NoneBefore
      <4> QED BY <1>1, <4>1, SomeTextIs
    <3> QED BY <2>3, <2>4, <3>1, <3>2 DEF Handled
  <2>5. CASE S.c.TempMsg.whole /\ Onward(S, Tail(S.c.FBBHeaders), R)
    <3> DEFINE H == Tail(S.c.FBBHeaders)
    <3>1. H \in Seq(Headers)
      BY <1>1, ResultIs, StreamIs
    <3> HIDE DEF R, zero, H
    <3>2. Onward(S, H, R)
      BY <2>5 DEF H
    <3>3. /\ R \in Results /\ R.c.Active = S.c.Active /\ R.c.FBBMsgsSent = S.c.FBBMsgsSent
          /\ Sane(R.c, zero) /\ ~Spoilt(R.c)
          /\ \E q \in Seq(Items) : R.out = S.out \o q /\ Sound(q, zero)
      BY <1>1, <2>5, <3>1, <3>2, OnwardSane
    <3>4. Sound(R.out, zero)
      BY <3>3, NoneBefore
    <3> QED BY <2>3, <3>3, <3>4 DEF Handled
  <2> QED BY <2>3, <2>4, <2>5
<1>6. CASE S.c.closing # "flush" /\ i.t \notin {"head", "data", "eom"}
  <2>1. R = InvalidBlock(S)
    BY <1>6 DEF UnpackFBBBinary
  <2>2. /\ R \in Results /\ R.n = S.n /\ R.out = S.out \o << Text >>
        /\ Still(S.c, R.c) /\ ~Healthy(R.c)
        /\ R.c.TempMsg.whole = S.c.TempMsg.whole /\ R.c.sumOK = S.c.sumOK
    <3> HIDE DEF R
    <3> QED BY <2>1, InvalidIs
  <2> HIDE DEF R, zero
  <2>3. Sane(R.c, zero) /\ ~Spoilt(R.c)
    BY <1>1, <2>2 DEF Sane, Still, Spoilt
  <2>4. Sound(R.out, zero)
    <3>1. R.out = << Text >>
      BY <1>1, <2>2, SomeTextIs, NoneBefore
    <3> QED BY <1>1, <3>1, SomeTextIs
  <2> QED BY <1>1, <2>2, <2>3, <2>4, LaterSame DEF Handled, Still
<1> HIDE DEF R, zero
<1> QED BY <1>2, <1>3, <1>4, <1>5, <1>6
(***************************************************************************)
(* What a stream awaits.                                                   *)
(***************************************************************************)

\* A stream that has sent nothing and is to get no answer.
LEMMA AwaitsNone ==
    ASSUME NEW n, NEW np, NEW c, NEW v \in Seq(Items), c.FBBMsgsSent = FALSE,
           \A k \in 1..Len(v) : v[k].t # "FS"
    PROVE  Awaits(n, np, c, v)
<1>1. DOMAIN v = 1..Len(v)
  OBVIOUS
<1> QED BY <1>1 DEF Awaits

\* No answer follows another line.
LEMMA NoAnswer ==
    ASSUME NEW n, NEW np, NEW c, NEW w \in Seq(Items), w # << >>, w[1].t # "text",
           Awaits(n, np, c, w)
    PROVE  \A k \in 1..Len(Tail(w)) : Tail(w)[k].t # "FS"
<1> SUFFICES ASSUME NEW k \in 1..Len(Tail(w)), Tail(w)[k].t = "FS" PROVE FALSE
  OBVIOUS
<1>1. /\ Len(w) \in Nat /\ k \in Nat /\ k >= 1
      /\ Tail(w)[k] = w[k + 1] /\ k + 1 \in 1..Len(w) /\ DOMAIN w = 1..Len(w)
  BY TailIs
<1>2. 1 \in DOMAIN w /\ 1 < k + 1 /\ k + 1 \in DOMAIN w
  BY <1>1
<1>3. w[1] = Text
  BY <1>1, <1>2 DEF Awaits
<1> QED BY <1>3, LinesAreItems

\* What the first item says.
LEMMA AwaitsFirst ==
    ASSUME NEW n, NEW np, NEW c, NEW w \in Seq(Items), w # << >>, Awaits(n, np, c, w)
    PROVE  /\ w[1].t \in TurnLines =>
                (c.FBBMsgsSent => /\ Own(n, c.FBBHeaders)
                                  /\ \A i \in DOMAIN c.FBBHeaders : Has(np, c.FBBHeaders[i].bid))
           /\ w[1].t = "F>" => ~c.FBBMsgsSent
           /\ w[1].t = "FS" =>
                /\ ~c.FBBMsgsSent /\ Own(n, c.FBBHeaders) /\ AnswersOK(np, c.FBBHeaders, w[1].x)
                /\ \A i \in DOMAIN w[1].x : w[1].x[i].reply \in Wanted =>
                      \A k \in 1..Len(w) : w[k].t \notin TurnLines \cup {"F>"}
<1>1. 1 \in DOMAIN w /\ DOMAIN w = 1..Len(w) /\ \A i \in DOMAIN w : ~(i < 1)
  OBVIOUS
<1>2. \A x \in Refused : x \notin Wanted
  BY DEF Refused, Wanted
<1>3. w[1].t \in TurnLines =>
        (c.FBBMsgsSent => /\ Own(n, c.FBBHeaders)
                          /\ \A i \in DOMAIN c.FBBHeaders : Has(np, c.FBBHeaders[i].bid))
  BY <1>1 DEF Awaits
<1>4. w[1].t = "F>" => ~c.FBBMsgsSent
  BY <1>1 DEF Awaits
<1>5. w[1].t = "FS" => /\ ~c.FBBMsgsSent /\ Own(n, c.FBBHeaders)
                       /\ AnswersOK(np, c.FBBHeaders, w[1].x)
  BY <1>1 DEF Awaits
<1>6. ASSUME w[1].t = "FS", NEW i \in DOMAIN w[1].x, w[1].x[i].reply \in Wanted,
             NEW k \in 1..Len(w), w[k].t \in TurnLines \cup {"F>"}
      PROVE  FALSE
  <2>1. \A j \in DOMAIN w[1].x : w[1].x[j].reply \in Refused
    BY <1>1, <1>6 DEF Awaits
  <2> QED BY <1>2, <1>6, <2>1
<1> QED BY <1>3, <1>4, <1>5, <1>6

\* One item less, and the stream is in the same state.
LEMMA AwaitsTail ==
    ASSUME NEW n, NEW n2, MoreOf(n, n2), NEW np, NEW c, NEW c2, Still(c, c2),
           NEW w \in Seq(Items), w # << >>, w[1].t \notin {"FA", "FS"}, Awaits(n, np, c, w)
    PROVE  Awaits(n2, np, c2, Tail(w))
<1> DEFINE v == Tail(w)
<1>1. /\ v \in Seq(Items) /\ Len(v) \in Nat /\ Len(v) = Len(w) - 1 /\ DOMAIN v = 1..Len(v)
      /\ DOMAIN w = 1..Len(w) /\ Len(w) \in Nat
      /\ \A k \in DOMAIN v : k \in Nat /\ v[k] = w[k + 1] /\ k + 1 \in DOMAIN w
  BY TailIs
<1>2. \A k \in DOMAIN w : k # 1 => k - 1 \in DOMAIN v /\ v[k - 1] = w[k] /\ k \in Nat
  <2> HIDE DEF v
  <2> QED BY <1>1
<1>3. c2.FBBMsgsSent = c.FBBMsgsSent /\ c2.FBBHeaders = c.FBBHeaders /\ c2.InputMode = c.InputMode
      /\ \A H : Own(n, H) => Own(n2, H)
  BY MoreHas DEF Still
<1> HIDE DEF v
<1>4. c2.FBBMsgsSent => /\ c2.InputMode = "line" /\ Own(n2, c2.FBBHeaders)
                        /\ \A k \in DOMAIN v : v[k].t = "F>" =>
                              \E i \in DOMAIN v : i < k /\ v[i].t = "FA"
  <2> SUFFICES ASSUME c2.FBBMsgsSent
               PROVE  /\ c2.InputMode = "line" /\ Own(n2, c2.FBBHeaders)
                      /\ \A k \in DOMAIN v : v[k].t = "F>" =>
                              \E i \in DOMAIN v : i < k /\ v[i].t = "FA"
    OBVIOUS
  <2>1. c2.InputMode = "line" /\ Own(n2, c2.FBBHeaders)
    BY <1>3 DEF Awaits
  <2>2. ASSUME NEW k \in DOMAIN v, v[k].t = "F>"
        PROVE  \E i \in DOMAIN v : i < k /\ v[i].t = "FA"
    <3>1. k + 1 \in DOMAIN w /\ w[k + 1].t = "F>" /\ k \in Nat
      BY <1>1, <2>2
    <3>2. PICK i \in DOMAIN w : i < k + 1 /\ w[i].t = "FA"
      BY <1>3, <3>1 DEF Awaits
    <3>3. i # 1
      BY <3>2
    <3>4. i - 1 \in DOMAIN v /\ v[i - 1] = w[i] /\ i - 1 < k
      BY <1>2, <3>1, <3>2, <3>3
    <3> QED BY <3>2, <3>4
  <2> QED BY <2>1, <2>2
<1>5. c2.FBBMsgsSent /\ (\E k \in DOMAIN v : v[k].t \in TurnLines)
         => \A i \in DOMAIN c2.FBBHeaders : Has(np, c2.FBBHeaders[i].bid)
  BY <1>1, <1>3 DEF Awaits
<1>6. ASSUME NEW k \in DOMAIN v, v[k].t = "FS"
      PROVE  /\ ~c2.FBBMsgsSent /\ c2.InputMode = "line" /\ Own(n2, c2.FBBHeaders)
             /\ AnswersOK(np, c2.FBBHeaders, v[k].x)
             /\ \A i \in DOMAIN v : (i < k => v[i] = Text) /\ (i > k => v[i].t # "FS")
             /\ (\E i \in DOMAIN v : v[i].t \in TurnLines \cup {"F>"})
                  => \A i \in DOMAIN v[k].x : v[k].x[i].reply \in Refused
  <2> DEFINE j == k + 1
  <2>1. j \in DOMAIN w /\ w[j].t = "FS" /\ v[k] = w[j] /\ k \in Nat
    BY <1>1, <1>6
  <2> HIDE DEF j
  <2>2. /\ ~c.FBBMsgsSent /\ c.InputMode = "line" /\ Own(n, c.FBBHeaders)
        /\ AnswersOK(np, c.FBBHeaders, w[j].x)
        /\ \A i \in DOMAIN w : (i < j => w[i] = Text) /\ (i > j => w[i].t # "FS")
        /\ (\E i \in DOMAIN w : w[i].t \in TurnLines \cup {"F>"})
             => \A i \in DOMAIN w[j].x : w[j].x[i].reply \in Refused
    BY <2>1 DEF Awaits
  <2>3. ASSUME NEW i \in DOMAIN v PROVE (i < k => v[i] = Text) /\ (i > k => v[i].t # "FS")
    <3>1. i + 1 \in DOMAIN w /\ v[i] = w[i + 1] /\ i \in Nat
      BY <1>1
    <3>2. (i < k => i + 1 < j) /\ (i > k => i + 1 > j)
      BY <2>1, <3>1 DEF j
    <3> QED BY <2>2, <3>1, <3>2
  <2>4. (\E i \in DOMAIN v : v[i].t \in TurnLines \cup {"F>"})
           => \E i \in DOMAIN w : w[i].t \in TurnLines \cup {"F>"}
    BY <1>1
  <2> QED BY <1>3, <2>1, <2>2, <2>3, <2>4
<1>7. Awaits(n2, np, c2, v)
  BY <1>4, <1>5, <1>6 DEF Awaits
<1> QED BY <1>7 DEF v

\* The BBSs have more messages than before.
LEMMA AwaitsMore ==
    ASSUME NEW n, NEW n2, MoreOf(n, n2), NEW np, NEW np2, MoreOf(np, np2), NEW c, NEW v,
           Awaits(n, np, c, v)
    PROVE  Awaits(n2, np2, c, v)
<1>1. /\ \A m : Has(np, m) => Has(np2, m)
      /\ \A H : Own(n, H) => Own(n2, H)
  BY MoreHas
<1>2. \A H, r : AnswersOK(np, H, r) => AnswersOK(np2, H, r)
  BY <1>1 DEF AnswersOK
<1> QED BY <1>1, <1>2 DEF Awaits

\* What has been cut off is not awaited.
LEMMA AwaitsPrefix ==
    ASSUME NEW n, NEW np, NEW c, NEW w \in Seq(Items), NEW a \in 0..Len(w), Awaits(n, np, c, w)
    PROVE  Awaits(n, np, c, SubSeq(w, 1, a))
<1> DEFINE v == SubSeq(w, 1, a)
<1>1. /\ DOMAIN v = 1..a /\ a \in Nat /\ DOMAIN w = 1..Len(w) /\ Len(w) \in Nat
      /\ \A k \in DOMAIN v : v[k] = w[k] /\ k \in DOMAIN w /\ k \in Nat
      /\ \A k \in DOMAIN v : \A i \in DOMAIN w : i < k => i \in DOMAIN v
  <2>1. Len(v) = a /\ a \in Nat /\ Len(w) \in Nat /\ DOMAIN w = 1..Len(w) /\ v \in Seq(Items)
    OBVIOUS
  <2>2. DOMAIN v = 1..a /\ \A k \in 1..a : v[k] = w[k]
    BY <2>1
  <2> HIDE DEF v
  <2> QED BY <2>1, <2>2
<1> HIDE DEF v
<1>2. c.FBBMsgsSent => /\ c.InputMode = "line" /\ Own(n, c.FBBHeaders)
                       /\ \A k \in DOMAIN v : v[k].t = "F>" =>
                             \E i \in DOMAIN v : i < k /\ v[i].t = "FA"
  <2> SUFFICES ASSUME c.FBBMsgsSent, NEW k \in DOMAIN v, v[k].t = "F>"
               PROVE  \E i \in DOMAIN v : i < k /\ v[i].t = "FA"
    BY DEF Awaits
  <2>1. PICK i \in DOMAIN w : i < k /\ w[i].t = "FA"
    BY <1>1 DEF Awaits
  <2> QED BY <1>1, <2>1
<1>3. c.FBBMsgsSent /\ (\E k \in DOMAIN v : v[k].t \in TurnLines)
         => \A i \in DOMAIN c.FBBHeaders : Has(np, c.FBBHeaders[i].bid)
  BY <1>1 DEF Awaits
<1>4. ASSUME NEW k \in DOMAIN v, v[k].t = "FS"
      PROVE  /\ ~c.FBBMsgsSent /\ c.InputMode = "line" /\ Own(n, c.FBBHeaders)
             /\ AnswersOK(np, c.FBBHeaders, v[k].x)
             /\ \A i \in DOMAIN v : (i < k => v[i] = Text) /\ (i > k => v[i].t # "FS")
             /\ (\E i \in DOMAIN v : v[i].t \in TurnLines \cup {"F>"})
                  => \A i \in DOMAIN v[k].x : v[k].x[i].reply \in Refused
  <2>1. k \in DOMAIN w /\ w[k].t = "FS" /\ v[k] = w[k]
    BY <1>1, <1>4
  <2>2. /\ ~c.FBBMsgsSent /\ c.InputMode = "line" /\ Own(n, c.FBBHeaders)
        /\ AnswersOK(np, c.FBBHeaders, w[k].x)
        /\ \A i \in DOMAIN w : (i < k => w[i] = Text) /\ (i > k => w[i].t # "FS")
        /\ (\E i \in DOMAIN w : w[i].t \in TurnLines \cup {"F>"})
             => \A i \in DOMAIN w[k].x : w[k].x[i].reply \in Refused
    BY <2>1 DEF Awaits
  <2> QED BY <1>1, <2>1, <2>2
<1>5. Awaits(n, np, c, v)
  BY <1>2, <1>3, <1>4 DEF Awaits
<1> QED BY <1>5 DEF v
\* An item is handled: what it does to the BBS and its stream.
Arrived(S, R, p, np, zero, w, i) ==
    Handled(S, R, p, np, zero, i) /\ Awaits(R.n, np, R.c, Tail(w))

\* A line, when no message is received.
LEMMA LineOK ==
    ASSUME NEW S \in Results, S.out = << >>, S.c.InputMode = "line",
           NEW b \in BBSs, NEW p \in BBSs, NEW np, NEW w \in Seq(Items), NEW i, Arrives(w, i),
           i.t \in {"FA", "F>", "FS", "FF", "FQ"},
           NEW there, Exact(S.c, w, ~B1(b, p), there), Awaits(S.n, np, S.c, w)
    PROVE  Arrived(S, ProcessFBBLine(S, b, p, i), p, np, ~B1(b, p), w, i)
<1> DEFINE R == ProcessFBBLine(S, b, p, i)
           zero == ~B1(b, p)
           v == Tail(w)
<1> SUFFICES Arrived(S, R, p, np, zero, w, i)
  OBVIOUS
<1>1. /\ Sane(S.c, zero) /\ i \in Items /\ i = w[1] /\ w # << >> /\ 1 \in 1..Len(w)
      /\ zero => \A k \in 1..Len(S.c.FBBReplyChars) : S.c.FBBReplyChars[k].from = 0
      /\ zero => (S.c.sumOK => S.c.TempMsg.whole)
      /\ S.c.FBBReplyChars \in Seq(Replies) /\ S.c.FBBHeaders \in Seq(Headers)
      /\ S.c.FBBMsgsSent \in BOOLEAN
  BY ResultIs, StreamIs DEF Exact, Sane, Arrives
<1>2. /\ w[1].t \in TurnLines =>
           (S.c.FBBMsgsSent => /\ Own(S.n, S.c.FBBHeaders)
                               /\ \A k \in DOMAIN S.c.FBBHeaders : Has(np, S.c.FBBHeaders[k].bid))
      /\ w[1].t = "F>" => ~S.c.FBBMsgsSent
      /\ w[1].t = "FS" =>
           /\ ~S.c.FBBMsgsSent /\ Own(S.n, S.c.FBBHeaders)
           /\ AnswersOK(np, S.c.FBBHeaders, w[1].x)
           /\ \A k \in DOMAIN w[1].x : w[1].x[k].reply \in Wanted =>
                 \A j \in 1..Len(w) : w[j].t \notin TurnLines \cup {"F>"}
  BY <1>1, AwaitsFirst
<1>3. v \in Seq(Items) /\ \A k \in 1..Len(v) : v[k].t # "FS"
  <2>1. w[1].t # "text"
    BY <1>1
  <2> QED BY <1>1, <2>1, NoAnswer, TailIs
<1> HIDE DEF zero, v
<1>4. ASSUME R \in Results, R.c.FBBMsgsSent = FALSE
      PROVE  Awaits(R.n, np, R.c, v)
  <2> HIDE DEF R
  <2> QED BY <1>3, <1>4, AwaitsNone
<1>5. CASE i.t = "FA"
  <2>1. R = Proposal(S, b, p, i.x) /\ i.x \in Messages
    BY <1>1, <1>5, ItemIs DEF ProcessFBBLine
  <2> DEFINE m == i.x
             H == IF S.c.FBBMsgsSent THEN << >> ELSE S.c.FBBHeaders
  <2>2. S.c.FBBMsgsSent => /\ Own(S.n, S.c.FBBHeaders)
                           /\ \A k \in DOMAIN S.c.FBBHeaders : Has(np, S.c.FBBHeaders[k].bid)
    BY <1>1, <1>2, <1>5 DEF TurnLines
  <2>3. m \in Messages /\ R = Proposal(S, b, p, m)
    BY <2>1
  <2> HIDE DEF R, m
  <2>4. /\ R \in Results /\ Later(S.n, R.n, p, np) /\ R.out = S.out
        /\ Rest(S.c, R.c) /\ R.c.FBBMsgsSent = FALSE
        /\ \E a \in Replies : /\ R.c.FBBReplyChars = Append(S.c.FBBReplyChars, a)
                              /\ ~B1(b, p) => a.from = 0
    <3> DEFINE Q == Proposal(S, b, p, m)
    <3>1. /\ Q \in Results /\ Later(S.n, Q.n, p, np) /\ Q.out = S.out
          /\ Rest(S.c, Q.c) /\ Q.c.FBBMsgsSent = FALSE
          /\ \E a \in Replies :
                /\ Q.c.FBBReplyChars = Append(S.c.FBBReplyChars, a)
                /\ a.reply = "-" => Has(Q.n, m)
                /\ ~B1(b, p) => a.from = 0
                /\ \/ a.reply \in Refused /\ Q.c.FBBHeaders = H
                   \/ a.reply \in Wanted /\ Q.c.FBBHeaders = H \o << [bid |-> m, FwdMsg |-> 0] >>
      BY <2>2, <2>3, ProposalIs
    <3>2. R = Q
      BY <2>3
    <3> HIDE DEF Q, H
    <3> QED BY <3>1, <3>2
  <2>5. zero => \A k \in 1..Len(R.c.FBBReplyChars) : R.c.FBBReplyChars[k].from = 0
    <3>1. PICK a \in Replies : /\ R.c.FBBReplyChars = Append(S.c.FBBReplyChars, a)
                               /\ zero => a.from = 0
      BY <2>4 DEF zero
    <3> DEFINE q == S.c.FBBReplyChars
    <3>2. /\ q \in Seq(Replies) /\ Len(Append(q, a)) = Len(q) + 1
          /\ \A k \in 1..Len(Append(q, a)) : Append(q, a)[k] = IF k <= Len(q) THEN q[k] ELSE a
      BY <1>1
    <3> HIDE DEF q
    <3>3. zero => \A k \in 1..Len(Append(q, a)) : Append(q, a)[k].from = 0
      BY <1>1, <3>1, <3>2 DEF q
    <3> QED BY <3>1, <3>3 DEF q
  <2>6. Sane(R.c, zero) /\ ~Spoilt(R.c)
    BY <1>1, <2>4, <2>5 DEF Sane, Rest, Spoilt, Healthy
  <2>7. Handled(S, R, p, np, zero, i)
    BY <2>4, <2>6, SoundNothing DEF Handled, Rest
  <2> QED BY <1>4, <2>4, <2>7 DEF Arrived, v
<1>6. CASE i.t = "F>"
  <2>1. R = EndOfBlock(S, p)
    BY <1>6 DEF ProcessFBBLine
  <2> DEFINE T == Put([S EXCEPT !.c.FBBReplyChars = << >>], << Item("FS", S.c.FBBReplyChars) >>)
             f == << Item("FS", S.c.FBBReplyChars) >>
  <2>2. /\ Onward(T, S.c.FBBHeaders, R) /\ Later(S.n, R.n, p, np)
        /\ T \in Results /\ T.n = S.n /\ T.out = S.out \o f
        /\ T.c.Active = S.c.Active
        /\ T.c.FBBMsgsSent = S.c.FBBMsgsSent /\ T.c.FBBReplyChars = << >>
        /\ T.c.sumOK = S.c.sumOK /\ T.c.TempMsg = S.c.TempMsg
    <3> HIDE DEF R
    <3> QED BY <2>1, EndOfBlockIs
  <2>3. f \in Seq(Items) /\ Sound(f, zero)
    <3> DEFINE r == S.c.FBBReplyChars
    <3>1. r \in Seq(Replies) /\ (zero => \A k \in 1..Len(r) : r[k].from = 0)
      BY <1>1
    <3> HIDE DEF r
    <3>2. << Item("FS", r) >> \in Seq(Items) /\ Sound(<< Item("FS", r) >>, zero)
      BY <3>1, AnswerSound
    <3> QED BY <3>2 DEF r
  <2> HIDE DEF R, T, f
  <2>4. T.out = f
    BY <2>2, <2>3, NoneBefore
  <2>5. /\ R \in Results /\ R.c.Active = T.c.Active /\ R.c.FBBMsgsSent = T.c.FBBMsgsSent
        /\ Sane(R.c, zero) /\ ~Spoilt(R.c)
        /\ \E q \in Seq(Items) : R.out = T.out \o q /\ Sound(q, zero)
    <3> DEFINE H == S.c.FBBHeaders
    <3>1. Onward(T, H, R) /\ T \in Results /\ H \in Seq(Headers)
      BY <1>1, <2>2
    <3>2. /\ zero => \A k \in 1..Len(T.c.FBBReplyChars) : T.c.FBBReplyChars[k].from = 0
          /\ zero => (T.c.sumOK => T.c.TempMsg.whole)
      BY <1>1, <2>2
    <3> HIDE DEF H
    <3> QED BY <3>1, <3>2, OnwardSane
  <2>6. Sound(R.out, zero)
    <3>1. PICK q \in Seq(Items) : R.out = f \o q /\ Sound(q, zero)
      BY <2>4, <2>5
    <3>2. Framed(f) /\ Ended(f) /\ (zero => Zero(f))
      BY <2>3 DEF Sound
    <3> QED BY <2>3, <3>1, <3>2, SoundPut
  <2>7. Handled(S, R, p, np, zero, i)
    BY <2>2, <2>5, <2>6 DEF Handled
  <2>8. R.c.FBBMsgsSent = FALSE
    BY <1>1, <1>2, <1>6, <2>2, <2>5
  <2> QED BY <1>4, <2>5, <2>7, <2>8 DEF Arrived, v
<1>7. CASE i.t = "FS"
  <2>1. R = ProposalResponse(S, p, i.x) /\ i.x \in Seq(Replies)
    BY <1>1, <1>7, ItemIs DEF ProcessFBBLine
  <2> DEFINE r == i.x
             H == S.c.FBBHeaders
             q == Kept(H, r)
  <2>2. /\ r \in Seq(Replies) /\ (zero => \A k \in 1..Len(r) : r[k].from = 0)
        /\ R = ProposalResponse(S, p, r)
        /\ Own(S.n, S.c.FBBHeaders) /\ AnswersOK(np, S.c.FBBHeaders, r)
    <3>1. zero => \A k \in 1..Len(r) : r[k].from = 0
      BY <1>1, <1>7 DEF Exact, Zero, zero
    <3> QED BY <1>1, <1>2, <1>7, <2>1, <3>1
  <2>3. \A k \in DOMAIN r : r[k].reply \in Wanted =>
                 \A j \in 1..Len(w) : w[j].t \notin TurnLines \cup {"F>"}
    BY <1>1, <1>2, <1>7
  <2> HIDE DEF R, r
  <2>4. /\ R \in Results /\ Later(S.n, R.n, p, np) /\ Rest(S.c, R.c)
        /\ R.c.FBBReplyChars = S.c.FBBReplyChars
        /\ R.c.FBBHeaders = q.h /\ R.out = S.out \o q.out
        /\ R.c.FBBMsgsSent = (S.c.FBBMsgsSent \/ WantedOf(r, Len(H)) # {})
        /\ Sifted(q, H, r, Len(H), zero)
        /\ Own(R.n, R.c.FBBHeaders)
    <3> DEFINE Q == ProposalResponse(S, p, r)
    <3>1. /\ Q \in Results /\ Later(S.n, Q.n, p, np) /\ Rest(S.c, Q.c)
          /\ Q.c.FBBReplyChars = S.c.FBBReplyChars
          /\ Q.c.FBBHeaders = q.h /\ Q.out = S.out \o q.out
          /\ Q.c.FBBMsgsSent = (S.c.FBBMsgsSent \/ WantedOf(r, Len(H)) # {})
          /\ Sifted(q, H, r, Len(H), zero)
          /\ Own(Q.n, Q.c.FBBHeaders)
      BY <2>2, ResponseIs
    <3>2. R = Q
      BY <2>2
    <3> HIDE DEF Q, q
    <3> QED BY <3>1, <3>2
  <2> HIDE DEF q
  <2>5. R.out = q.out /\ Sound(R.out, zero)
    <3>1. q.out \in Seq(Items) /\ Sound(q.out, zero)
      BY <2>4 DEF Sifted
    <3> QED BY <2>4, <3>1, NoneBefore
  <2>6. Sane(R.c, zero) /\ ~Spoilt(R.c)
    BY <1>1, <2>4 DEF Sane, Rest, Spoilt, Healthy
  <2>7. Handled(S, R, p, np, zero, i)
    BY <2>4, <2>5, <2>6 DEF Handled, Rest
  <2>8. Awaits(R.n, np, R.c, v)
    <3>1. CASE WantedOf(r, Len(H)) = {}
      <4>1. R.c.FBBMsgsSent = FALSE
        BY <1>1, <1>2, <1>7, <2>4, <3>1
      <4> QED BY <1>4, <2>4, <4>1
    <3>2. CASE WantedOf(r, Len(H)) # {}
      <4>1. PICK k \in 1..Len(H) : r[k].reply \in Wanted
        BY <3>2 DEF WantedOf
      <4>2. k \in DOMAIN r
        <5>1. Len(r) = Len(H) /\ DOMAIN r = 1..Len(r)
          BY <2>2 DEF AnswersOK
        <5> QED BY <5>1
      <4>3. \A j \in 1..Len(w) : w[j].t \notin TurnLines \cup {"F>"}
        BY <2>3, <4>1, <4>2
      <4>4. \A j \in 1..Len(v) : v[j] = w[j + 1] /\ j + 1 \in 1..Len(w)
        BY <1>1, TailIs DEF v
      <4>5. DOMAIN v = 1..Len(v)
        BY <1>3
      <4>6. \A j \in DOMAIN v : v[j].t \notin TurnLines \cup {"F>", "FS"}
        BY <1>3, <4>3, <4>4, <4>5
      <4>7. R.c.InputMode = "line" /\ Own(R.n, R.c.FBBHeaders)
        BY <2>4 DEF Rest
      <4> QED BY <4>6, <4>7 DEF Awaits
    <3> QED BY <3>1, <3>2
  <2> QED BY <2>7, <2>8 DEF Arrived, v
<1>8. CASE i.t \in {"FF", "FQ"}
  <2>1. /\ i.t = "FF" => R = RequestReverse(S, p)
        /\ i.t = "FQ" => R = [FlagSentMessages(S, p) EXCEPT !.c.closing = "disc"]
    BY <1>8 DEF ProcessFBBLine
  <2>2. S.c.FBBMsgsSent => /\ Own(S.n, S.c.FBBHeaders)
                           /\ \A k \in DOMAIN S.c.FBBHeaders : Has(np, S.c.FBBHeaders[k].bid)
    BY <1>1, <1>2, <1>8 DEF TurnLines
  <2> HIDE DEF R
  <2>3. /\ R \in Results /\ Later(S.n, R.n, p, np)
        /\ R.c.FBBMsgsSent = FALSE /\ R.c.Active = S.c.Active
        /\ R.c.FBBReplyChars = S.c.FBBReplyChars /\ R.c.InputMode = S.c.InputMode
        /\ R.c.sumOK = S.c.sumOK /\ R.c.TempMsg = S.c.TempMsg
        /\ Sound(R.out, zero)
    <3>1. CASE i.t = "FF"
      <4>1. /\ R \in Results /\ Later(S.n, R.n, p, np)
            /\ R.c.FBBMsgsSent = FALSE /\ R.c.Active = S.c.Active
            /\ R.c.FBBReplyChars = S.c.FBBReplyChars /\ R.c.InputMode = S.c.InputMode
            /\ R.c.sumOK = S.c.sumOK /\ R.c.TempMsg = S.c.TempMsg
            /\ R.out = S.out \o (IF R.c.FBBHeaders = << >> THEN << Line("FQ") >>
                                 ELSE Ask(R.c.FBBHeaders, 0))
        <5> DEFINE Q == RequestReverse(S, p)
        <5>1. /\ Q \in Results /\ Later(S.n, Q.n, p, np) /\ Own(Q.n, Q.c.FBBHeaders)
              /\ Q.c.FBBMsgsSent = FALSE /\ Q.c.Active = S.c.Active
              /\ Q.c.FBBReplyChars = S.c.FBBReplyChars /\ Q.c.InputMode = S.c.InputMode
              /\ Q.c.sumOK = S.c.sumOK /\ Q.c.TempMsg = S.c.TempMsg
              /\ Q.out = S.out \o (IF Q.c.FBBHeaders = << >> THEN << Line("FQ") >>
                                   ELSE Ask(Q.c.FBBHeaders, 0))
          BY <2>2, ReverseIs
        <5>2. R = Q
          BY <2>1, <3>1
        <5> HIDE DEF Q
        <5> QED BY <5>1, <5>2
      <4> DEFINE h == R.c.FBBHeaders
      <4>2. h \in Seq(Headers) /\ "FQ" \in {"FF", "FQ"}
        BY <4>1, ResultIs, StreamIs
      <4> HIDE DEF h
      <4>3. LET q == IF h = << >> THEN << Line("FQ") >> ELSE Ask(h, 0) IN
            q \in Seq(Items) /\ Sound(q, zero)
        BY <4>2, TurnSound
      <4>4. Sound(R.out, zero)
        <5> DEFINE q == IF h = << >> THEN << Line("FQ") >> ELSE Ask(h, 0)
        <5>1. q \in Seq(Items) /\ Sound(q, zero) /\ R.out = S.out \o q
          BY <4>1, <4>3 DEF h
        <5> HIDE DEF q
        <5> QED BY <5>1, NoneBefore
      <4> QED BY <4>1, <4>4
    <3>2. CASE i.t = "FQ"
      <4>1. /\ R \in Results /\ Later(S.n, R.n, p, np) /\ R.out = S.out
            /\ R.c.FBBMsgsSent = FALSE /\ R.c.Active = S.c.Active
            /\ R.c.FBBReplyChars = S.c.FBBReplyChars /\ R.c.InputMode = S.c.InputMode
            /\ R.c.sumOK = S.c.sumOK /\ R.c.TempMsg = S.c.TempMsg
        <5> DEFINE Q == [FlagSentMessages(S, p) EXCEPT !.c.closing = "disc"]
        <5>1. /\ Q \in Results /\ Later(S.n, Q.n, p, np) /\ Q.out = S.out
              /\ Q.c.FBBHeaders = IF S.c.FBBMsgsSent THEN << >> ELSE S.c.FBBHeaders
              /\ Q.c.FBBMsgsSent = FALSE /\ Q.c.Active = S.c.Active
              /\ Q.c.FBBReplyChars = S.c.FBBReplyChars /\ Q.c.InputMode = S.c.InputMode
              /\ Q.c.sumOK = S.c.sumOK /\ Q.c.TempMsg = S.c.TempMsg
          BY <2>2, QuitIs
        <5>2. R = Q
          BY <2>1, <3>2
        <5> HIDE DEF Q
        <5> QED BY <5>1, <5>2
      <4> QED BY <4>1, SoundNothing
    <3> QED BY <1>8, <3>1, <3>2
  <2>4. Sane(R.c, zero) /\ ~Spoilt(R.c)
    BY <1>1, <2>3 DEF Sane, Spoilt, Healthy
  <2>5. Handled(S, R, p, np, zero, i)
    BY <2>3, <2>4 DEF Handled
  <2> QED BY <1>4, <2>3, <2>5 DEF Arrived, v
<1> QED BY <1>5, <1>6, <1>7, <1>8

\* An item is handled, and the stream awaits what is behind it.
LEMMA HandleOK ==
    ASSUME net \in Networks, NEW S \in Results, S.out = << >>,
           NEW b \in BBSs, NEW p \in BBSs, NEW np, NEW w \in Seq(Items), NEW i, Arrives(w, i),
           NEW there, Exact(S.c, w, ~B1(b, p), there), Awaits(S.n, np, S.c, w)
    PROVE  Arrived(S, Handle(S, b, p, i), p, np, ~B1(b, p), w, i)
<1> DEFINE R == Handle(S, b, p, i)
           zero == ~B1(b, p)
<1> SUFFICES Arrived(S, R, p, np, zero, w, i)
  OBVIOUS
<1>1. /\ w # << >> /\ i \in Items /\ i.t = w[1].t /\ w[1] \in Items
      /\ S.c.InputMode \in {"line", "binary"} /\ S.c.FBBMsgsSent \in BOOLEAN
  BY ResultIs, StreamIs DEF Arrives
<1>2. CASE S.c.InputMode = "binary"
  <2>1. R = UnpackFBBBinary(S, b, p, i)
    BY <1>2 DEF Handle
  <2> HIDE DEF R
  <2>2. Handled(S, R, p, np, zero, i)
    BY <1>2, <2>1, BinaryOK
  <2>3. R.c.FBBMsgsSent = FALSE
    <3>1. ~S.c.FBBMsgsSent
      BY <1>2 DEF Awaits
    <3> QED BY <1>1, <1>2, <2>2, <3>1 DEF Handled
  <2>4. \A k \in 1..Len(w) : w[k].t # "FS"
    <3>1. DOMAIN w = 1..Len(w)
      OBVIOUS
    <3>2. "binary" # "line"
      OBVIOUS
    <3> QED BY <1>2, <3>1, <3>2 DEF Awaits
  <2>5. Tail(w) \in Seq(Items) /\ \A k \in 1..Len(Tail(w)) : Tail(w)[k].t # "FS"
    BY <1>1, <2>4, TailIs
  <2>6. Awaits(R.n, np, R.c, Tail(w))
    BY <2>3, <2>5, AwaitsNone
  <2> QED BY <2>2, <2>6 DEF Arrived
<1>3. CASE S.c.InputMode = "line" /\ i.t \in {"text", "head", "data", "eom"}
  <2>1. R \in Results /\ R.n = S.n /\ Still(S.c, R.c) /\ SomeText(R.out)
    <3> HIDE DEF R
    <3>1. \/ i.t \in {"text", "head", "data"}
          \/ i.t = "eom" /\ (S.c.InputMode = "line" \/ S.c.closing = "flush")
      BY <1>3
    <3> QED BY <1>1, <3>1, StirIs DEF R
  <2>2. R.c.TempMsg = S.c.TempMsg /\ R.c.sumOK = S.c.sumOK
    <3>1. CASE i.t # "text"
      BY <1>3, <3>1 DEF Handle
    <3>2. CASE i.t = "text"
      <4>1. R = Refuse(S)
        BY <1>3, <3>2 DEF Handle, ProcessFBBLine
      <4> HIDE DEF R
      <4> QED BY <1>3, <4>1, RefuseIs
    <3> QED BY <3>1, <3>2
  <2> HIDE DEF R, zero
  <2>3. Sane(S.c, zero)
    BY DEF Exact, zero
  <2>4. Sane(R.c, zero) /\ ~Spoilt(R.c)
    BY <1>3, <2>1, <2>2, <2>3 DEF Sane, Spoilt, Healthy, Still
  <2>5. Later(S.n, R.n, p, np) /\ MoreOf(S.n, R.n)
    BY <2>1, LaterSame DEF Later
  <2>6. Handled(S, R, p, np, zero, i)
    BY <1>3, <2>1, <2>4, <2>5, SomeTextIs DEF Handled, Still
  <2>7. Awaits(R.n, np, R.c, Tail(w))
    <3>1. w[1].t \notin {"FA", "FS"}
      BY <1>1, <1>3
    <3> QED BY <1>1, <2>1, <2>5, <3>1, AwaitsTail
  <2> QED BY <2>6, <2>7 DEF Arrived
<1>4. CASE S.c.InputMode = "line" /\ i.t \notin {"text", "head", "data", "eom"}
  <2>1. i.t \in {"FA", "F>", "FS", "FF", "FQ"}
    BY <1>1, <1>4, ItemIs
  <2>2. R = ProcessFBBLine(S, b, p, i)
    BY <1>4 DEF Handle
  <2> HIDE DEF R
  <2> QED BY <1>4, <2>1, <2>2, LineOK
<1> QED BY <1>1, <1>2, <1>3, <1>4
(***************************************************************************)
(* A session: what changes nothing.                                        *)
(***************************************************************************)

\* A stream that waits goes on waiting.
LEMMA WaitsStill ==
    ASSUME NEW c, NEW c2, Still(c, c2)
    PROVE  (Waits(c) => Waits(c2)) /\ (Free(c) => Free(c2))
  BY DEF Still, Waits, Free

\* What is settled stays settled.
LEMMA SettledMore ==
    ASSUME NEW n, NEW n2, MoreOf(n, n2), NEW np, NEW np2, MoreOf(np, np2),
           NEW c, NEW c2, Still(c, c2), NEW fs, Settled(n, np, c, fs)
    PROVE  Settled(n2, np2, c2, fs)
<1>1. /\ \A m : Has(np, m) => Has(np2, m)
      /\ \A H : Own(n, H) => Own(n2, H)
  BY MoreHas
<1>2. \A H, r : AnswersOK(np, H, r) => AnswersOK(np2, H, r)
  BY <1>1 DEF AnswersOK
<1>3. Waits(c2) /\ c2.FBBHeaders = c.FBBHeaders /\ c2.FBBMsgsSent = c.FBBMsgsSent
  <2>1. Waits(c)
    BY DEF Settled
  <2> QED BY <2>1, WaitsStill DEF Still
<1> QED BY <1>1, <1>2, <1>3 DEF Settled

\* An answer in front.
LEMMA FrontIs ==
    ASSUME NEW n, NEW np, NEW c, NEW v \in Seq(Items), NEW fs \in Fronts(v), Settled(n, np, c, fs)
    PROVE  /\ fs \in Seq(Items)
           /\ \/ fs = << >>
              \/ \E k \in 1..Len(v) : fs = << v[k] >> /\ v[k].t = "FS" /\ v[k] \in Items
           /\ \A v2 : Like(v, v2) => fs \in Fronts(v2)
<1>1. CASE fs = << >>
  BY <1>1 DEF Fronts
<1>2. CASE fs # << >>
  <2>1. PICK k \in 1..Len(v) : fs = << v[k] >> /\ v[k] \in Items
    BY <1>2 DEF Fronts
  <2>2. v[k].t = "FS"
    BY <1>2, <2>1 DEF Settled
  <2>3. fs \in Seq(Items)
    BY <2>1
  <2>4. ASSUME NEW v2, Like(v, v2) PROVE fs \in Fronts(v2)
    <3>1. PICK j \in 1..Len(v2) : v2[j] = v[k]
      BY <2>2, <2>4 DEF Like
    <3>2. j \in DOMAIN v2
      BY <2>4, <3>1 DEF Like
    <3> QED BY <2>1, <3>1, <3>2 DEF Fronts
  <2> QED BY <2>1, <2>2, <2>3, <2>4
<1> QED BY <1>1, <1>2

\* Nothing happens but that text comes and goes, and that the BBSs get messages.
Calm(nb, nb2, np, np2, c, c2, d, d2, u, u2, v, v2) ==
    /\ MoreOf(nb, nb2) /\ MoreOf(np, np2) /\ Still(c, c2) /\ Still(d, d2)
    /\ Like(u, u2) /\ Like(v, v2)
    /\ c \in Streams /\ d \in Streams /\ u \in Seq(Items) /\ v \in Seq(Items)

\* A quiet wire.
LEMMA QuietLike ==
    ASSUME NEW u, NEW u2, Like(u, u2), Quiet(u)
    PROVE  Quiet(u2)
<1>1. << >> \in Seq(Items)
  OBVIOUS
<1> QED BY <1>1 DEF Like, Quiet

\* Each stage of a session outlives a calm step.
LEMMA TurnCalm ==
    ASSUME NEW nb, NEW nb2, NEW np, NEW np2, NEW c, NEW c2, NEW d, NEW d2, NEW u, NEW u2,
           NEW v, NEW v2, Calm(nb, nb2, np, np2, c, c2, d, d2, u, u2, v, v2),
           Turn(nb, np, c, d, u, v)
    PROVE  Turn(nb2, np2, c2, d2, u2, v2)
<1>1. PICK fs \in Fronts(v) : /\ Settled(nb, np, c, fs)
                              /\ \E x \in {"FF", "FQ"} : Carries(v, fs \o << Line(x) >>)
  BY DEF Turn
<1>2. PICK x \in {"FF", "FQ"} : Carries(v, fs \o << Line(x) >>)
  BY <1>1
<1>3. Quiet(u2) /\ Free(d2)
  BY QuietLike, WaitsStill DEF Turn, Calm
<1>4. fs \in Fronts(v2) /\ fs \in Seq(Items)
  BY <1>1, FrontIs DEF Calm
<1>5. Settled(nb2, np2, c2, fs)
  BY <1>1, SettledMore DEF Calm
<1>6. Carries(v2, fs \o << Line(x) >>)
  <2>1. << Line(x) >> \in Seq(Items)
    BY LinesAreItems
  <2> DEFINE y == << Line(x) >>
  <2>2. fs \o y \in Seq(Items)
    <3> HIDE DEF y
    <3> QED BY <1>4, <2>1, ConcatIs DEF y
  <2> QED BY <1>2, <2>2 DEF Like, Calm
<1> QED BY <1>3, <1>4, <1>5, <1>6 DEF Turn

\* The proposals are still on their way.
LEMMA ProposedCalm ==
    ASSUME NEW nb, NEW nb2, NEW np, NEW np2, NEW c, NEW c2, NEW d, NEW d2, NEW u, NEW u2,
           NEW v, NEW v2, Calm(nb, nb2, np, np2, c, c2, d, d2, u, u2, v, v2),
           Proposed(nb, np, c, d, u, v)
    PROVE  Proposed(nb2, np2, c2, d2, u2, v2)
<1> DEFINE H == c.FBBHeaders
<1>1. /\ c2.FBBHeaders = H /\ c2.FBBMsgsSent = c.FBBMsgsSent
      /\ d2.FBBHeaders = d.FBBHeaders /\ d2.FBBMsgsSent = d.FBBMsgsSent
      /\ d2.FBBReplyChars = d.FBBReplyChars /\ d2.InputMode = d.InputMode
  BY DEF Calm, Still
<1>2. Own(nb2, H) /\ H # << >> /\ Waits(c2) /\ ~c2.FBBMsgsSent /\ Quiet(v2) /\ H \in Seq(Headers)
  BY <1>1, MoreHas, WaitsStill, QuietLike, StreamIs DEF Proposed, Calm
<1>3. \A m : Has(np, m) => Has(np2, m)
  BY MoreHas DEF Calm
<1>4. CASE \E fs \in Fronts(u) : Settled(np, nb, d, fs) /\ Carries(u, fs \o Ask(H, 0))
  <2>1. PICK fs \in Fronts(u) : Settled(np, nb, d, fs) /\ Carries(u, fs \o Ask(H, 0))
    BY <1>4
  <2>2. fs \in Fronts(u2) /\ fs \in Seq(Items)
    BY <2>1, FrontIs DEF Calm
  <2>3. Settled(np2, nb2, d2, fs)
    BY <2>1, SettledMore DEF Calm
  <2>4. Ask(H, 0) \in Seq(Items)
    <3>1. 0 \in 0..Len(H)
      BY <1>2
    <3> HIDE DEF H
    <3> QED BY <1>2, <3>1, AskIs
  <2>5. fs \o Ask(H, 0) \in Seq(Items)
    BY <2>2, <2>4, ConcatIs
  <2>6. Carries(u2, fs \o Ask(H, 0))
    BY <2>1, <2>5 DEF Like, Calm
  <2> QED BY <1>1, <1>2, <2>2, <2>3, <2>6 DEF Proposed
<1>5. CASE \E k \in 1..Len(H) :
            /\ Carries(u, Ask(H, k))
            /\ Len(d.FBBReplyChars) = k /\ d.InputMode = "line" /\ ~d.FBBMsgsSent
            /\ \A i \in 1..k : d.FBBReplyChars[i].reply = "-" => Has(np, H[i].bid)
            /\ Notes(d, H, d.FBBReplyChars, k)
  <2>1. PICK k \in 1..Len(H) :
            /\ Carries(u, Ask(H, k))
            /\ Len(d.FBBReplyChars) = k /\ d.InputMode = "line" /\ ~d.FBBMsgsSent
            /\ \A i \in 1..k : d.FBBReplyChars[i].reply = "-" => Has(np, H[i].bid)
            /\ Notes(d, H, d.FBBReplyChars, k)
    BY <1>5
  <2>2. Ask(H, k) \in Seq(Items)
    <3>1. k \in 0..Len(H)
      BY <2>1
    <3> HIDE DEF H
    <3> QED BY <1>2, <3>1, AskIs
  <2>3. Carries(u2, Ask(H, k))
    BY <2>1, <2>2 DEF Like, Calm
  <2>4. Notes(d2, H, d2.FBBReplyChars, k)
    BY <1>1, <2>1 DEF Notes
  <2>5. \A i \in 1..k : d2.FBBReplyChars[i].reply = "-" => Has(np2, H[i].bid)
    BY <1>1, <1>3, <2>1
  <2> QED BY <1>1, <1>2, <2>1, <2>3, <2>4, <2>5 DEF Proposed
<1> QED BY <1>4, <1>5 DEF Proposed

\* The partner still has to receive the same message.
LEMMA ReceivesMore ==
    ASSUME NEW np, NEW np2, MoreOf(np, np2), NEW d, NEW d2, Still(d, d2), Receives(np, d)
    PROVE  Receives(np2, d2)
  BY MoreHas DEF Receives, Still

\* The answer is still on its way.
LEMMA AnsweredCalm ==
    ASSUME NEW nb, NEW nb2, NEW np, NEW np2, NEW c, NEW c2, NEW d, NEW d2, NEW u, NEW u2,
           NEW v, NEW v2, Calm(nb, nb2, np, np2, c, c2, d, d2, u, u2, v, v2),
           Answered(nb, np, c, d, u, v)
    PROVE  Answered(nb2, np2, c2, d2, u2, v2)
<1> DEFINE H == c.FBBHeaders
<1>1. /\ c2.FBBHeaders = H /\ c2.FBBMsgsSent = c.FBBMsgsSent
      /\ d2.FBBHeaders = d.FBBHeaders /\ d2.FBBMsgsSent = d.FBBMsgsSent
      /\ d2.FBBReplyChars = d.FBBReplyChars /\ d2.InputMode = d.InputMode
  BY DEF Calm, Still
<1>2. Own(nb2, H) /\ Waits(c2) /\ ~c2.FBBMsgsSent /\ Quiet(u2)
  BY <1>1, MoreHas, WaitsStill, QuietLike DEF Answered, Calm
<1>3. /\ d2.InputMode = "binary" /\ d2.FBBReplyChars = << >> /\ ~d2.FBBMsgsSent
      /\ Receives(np2, d2)
  BY <1>1, ReceivesMore DEF Answered, Calm
<1>4. PICK k \in DOMAIN v : /\ v[k].t = "FS" /\ Carries(v, << v[k] >>)
                            /\ AnswersOK(np, H, v[k].x) /\ Notes(d, H, v[k].x, Len(H))
  BY DEF Answered
<1>5. k \in 1..Len(v) /\ << v[k] >> \in Seq(Items)
  BY DEF Calm
<1>6. PICK j \in 1..Len(v2) : v2[j] = v[k]
  BY <1>4, <1>5 DEF Calm, Like
<1>7. j \in DOMAIN v2 /\ Carries(v2, << v[k] >>)
  <2>1. v2 \in Seq(Items) /\ DOMAIN v2 = 1..Len(v2)
    BY DEF Calm, Like
  <2>2. \A core \in Seq(Items) : Carries(v, core) => Carries(v2, core)
    BY DEF Calm, Like
  <2> QED BY <1>4, <1>5, <2>1, <2>2
<1>8. AnswersOK(np2, H, v[k].x) /\ Notes(d2, H, v[k].x, Len(H))
  <2>1. \A m : Has(np, m) => Has(np2, m)
    BY MoreHas DEF Calm
  <2> QED BY <1>1, <1>4, <2>1 DEF AnswersOK, Notes
<1> QED BY <1>1, <1>2, <1>3, <1>4, <1>6, <1>7, <1>8 DEF Answered

\* The messages are still on their way.
LEMMA SendingCalm ==
    ASSUME NEW nb, NEW nb2, NEW np, NEW np2, NEW c, NEW c2, NEW d, NEW d2, NEW u, NEW u2,
           NEW v, NEW v2, Calm(nb, nb2, np, np2, c, c2, d, d2, u, u2, v, v2),
           Sending(nb, np, c, d, u, v)
    PROVE  Sending(nb2, np2, c2, d2, u2, v2)
<1> DEFINE H == c.FBBHeaders
<1>1. /\ c2.FBBHeaders = H /\ c2.FBBMsgsSent = c.FBBMsgsSent
      /\ d2.FBBHeaders = d.FBBHeaders /\ d2.FBBMsgsSent = d.FBBMsgsSent
      /\ d2.FBBReplyChars = d.FBBReplyChars /\ (Healthy(d2) => Healthy(d))
  BY DEF Calm, Still
<1>2. Own(nb2, H) /\ Waits(c2) /\ c2.FBBMsgsSent /\ Quiet(v2)
  BY <1>1, MoreHas, WaitsStill, QuietLike DEF Sending, Calm
<1>3. d2.FBBReplyChars = << >> /\ ~d2.FBBMsgsSent
  BY <1>1 DEF Sending
<1>4. \A i \in DOMAIN u2 : u2[i].t \in {"text", "head", "data", "eom"}
  <2>1. DOMAIN u2 = 1..Len(u2) /\ DOMAIN u = 1..Len(u)
    BY DEF Calm, Like
  <2>2. \A i \in 1..Len(u) : u[i].t \in {"text", "head", "data", "eom"}
    BY <2>1 DEF Sending
  <2>3. \A j \in 1..Len(u2) : u2[j] = Text \/ \E i \in 1..Len(u) : u2[j] = u[i]
    BY DEF Calm, Like
  <2> QED BY <2>1, <2>2, <2>3, LinesAreItems
<1>5. \A i \in DOMAIN H : \/ Has(np2, H[i].bid)
                          \/ \E j \in DOMAIN d2.FBBHeaders : d2.FBBHeaders[j].bid = H[i].bid
  <2>1. \A m : Has(np, m) => Has(np2, m)
    BY MoreHas DEF Calm
  <2> QED BY <1>1, <2>1 DEF Sending
<1>6. Healthy(d2) => Receives(np2, d2) /\ Load(u2, Len(d2.FBBHeaders))
  <2>1. Len(d.FBBHeaders) \in Nat
    BY StreamIs DEF Calm
  <2> SUFFICES ASSUME Healthy(d2) PROVE Receives(np2, d2) /\ Load(u2, Len(d2.FBBHeaders))
    OBVIOUS
  <2>2. Receives(np, d) /\ Load(u, Len(d.FBBHeaders))
    BY <1>1 DEF Sending
  <2>3. Receives(np2, d2)
    BY <2>2, ReceivesMore DEF Calm
  <2>4. Load(u2, Len(d.FBBHeaders))
    BY <2>1, <2>2 DEF Calm, Like
  <2> QED BY <1>1, <2>3, <2>4
<1> QED BY <1>1, <1>2, <1>3, <1>4, <1>5, <1>6 DEF Sending

\* The session is as it was.
LEMMA StageCalm ==
    ASSUME NEW nb, NEW nb2, NEW np, NEW np2, NEW c, NEW c2, NEW d, NEW d2, NEW u, NEW u2,
           NEW v, NEW v2, Calm(nb, nb2, np, np2, c, c2, d, d2, u, u2, v, v2),
           Stage(nb, np, c, d, u, v)
    PROVE  Stage(nb2, np2, c2, d2, u2, v2)
<1>1. Over(nb, np, c, d, u, v) => Over(nb2, np2, c2, d2, u2, v2)
  BY QuietLike, WaitsStill DEF Over, Calm
<1> QED BY <1>1, TurnCalm, ProposedCalm, AnsweredCalm, SendingCalm DEF Stage

\* Whoever's turn it is.
LEMMA LiveCalm ==
    ASSUME NEW nb, NEW nb2, NEW np, NEW np2, NEW c, NEW c2, NEW d, NEW d2, NEW u, NEW u2,
           NEW v, NEW v2, Calm(nb, nb2, np, np2, c, c2, d, d2, u, u2, v, v2),
           Live(nb, np, c, d, u, v)
    PROVE  Live(nb2, np2, c2, d2, u2, v2)
<1>1. Calm(np, np2, nb, nb2, d, d2, c, c2, v, v2, u, u2)
  BY DEF Calm
<1>2. Stage(nb, np, c, d, u, v) => Stage(nb2, np2, c2, d2, u2, v2)
  BY StageCalm
<1>3. Stage(np, nb, d, c, v, u) => Stage(np2, nb2, d2, c2, v2, u2)
  BY <1>1, StageCalm
<1> QED BY <1>2, <1>3 DEF Live
(***************************************************************************)
(* A session: the turn changes.                                            *)
(***************************************************************************)

\* A BBS that has the turn proposes or says that it has nothing.  What it had to
\* answer, fs, goes in front.
LEMMA TurnBegins ==
    ASSUME NEW n, NEW m, NEW e \in Streams, NEW f, NEW w \in Seq(Items), Quiet(w),
           NEW z \in Seq(Items), Quiet(z), NEW fs, NEW x \in {"FF", "FQ"},
           fs = << >> \/ \E r \in Seq(Replies) : fs = << Item("FS", r) >>,
           Waits(e), ~e.FBBMsgsSent, Own(n, e.FBBHeaders), Settled(m, n, f, fs), NEW y,
           y = w \o (fs \o (IF e.FBBHeaders = << >> THEN << Line(x) >> ELSE Ask(e.FBBHeaders, 0)))
    PROVE  Live(m, n, f, e, z, y)
<1> DEFINE H == e.FBBHeaders
           q == IF H = << >> THEN << Line(x) >> ELSE Ask(H, 0)
<1>1. H \in Seq(Headers)
  BY StreamIs
<1>2. q \in Seq(Items) /\ \A i \in 1..Len(q) : q[i].t \in {"FA", "F>", "FF", "FQ"}
  <2>1. CASE H = << >>
    <3>1. q = << Line(x) >>
      BY <2>1
    <3>2. << Line(x) >> \in Seq(Items)
      BY LinesAreItems
    <3>3. Line(x).t = x
      BY DEF Line, Item
    <3> HIDE DEF q
    <3>4. Len(q) = 1 /\ q[1].t = x
      BY <3>1, <3>3
    <3> QED BY <3>1, <3>2, <3>4
  <2>2. CASE H # << >>
    <3>1. 0 \in 0..Len(H)
      BY <1>1
    <3> HIDE DEF H
    <3>2. Ask(H, 0) \in Seq(Items) /\ \A i \in 1..Len(Ask(H, 0)) : Ask(H, 0)[i].t \in {"FA", "F>"}
      BY <1>1, <3>1, AskIs, AskTypes
    <3>3. q = Ask(H, 0)
      BY <2>2
    <3> QED BY <3>2, <3>3
  <2> QED BY <2>1, <2>2
<1>3. fs \in Seq(Items) /\ (\A i \in 1..Len(fs) : fs[i].t = "FS")
      /\ (fs = << >> \/ (Len(fs) = 1 /\ fs = << fs[1] >>))
  <2>1. CASE fs = << >>
    BY <2>1
  <2>2. CASE fs # << >>
    <3>1. PICK r \in Seq(Replies) : fs = << Item("FS", r) >>
      BY <2>2
    <3>2. << Item("FS", r) >> \in Seq(Items) /\ Item("FS", r).t = "FS"
      BY LinesAreItems DEF Item
    <3> QED BY <3>1, <3>2
  <2> QED BY <2>1, <2>2
<1> HIDE DEF q
<1> DEFINE core == fs \o q
<1>4. /\ core \in Seq(Items) /\ Len(core) = Len(fs) + Len(q) /\ Len(fs) \in Nat /\ Len(q) \in Nat
      /\ \A i \in 1..Len(fs) : core[i] = fs[i]
      /\ \A i \in 1..Len(core) : i > Len(fs) => /\ i - Len(fs) \in 1..Len(q)
                                                /\ core[i] = q[i - Len(fs)]
  <2>1. fs \in Seq(Items) /\ q \in Seq(Items)
    BY <1>2, <1>3
  <2> QED BY <2>1, ConcatIs
<1>5. \A i \in 1..Len(core) : core[i].t # "text"
  <2> HIDE DEF core
  <2> TAKE i \in 1..Len(core)
  <2>1. CASE i > Len(fs)
    BY <1>2, <1>4, <2>1
  <2>2. CASE ~(i > Len(fs))
    <3>1. i \in 1..Len(fs)
      BY <1>4, <2>2
    <3> QED BY <1>3, <1>4, <3>1
  <2> QED BY <2>1, <2>2
<1>6. y = w \o core
  BY DEF q
<1>7. y \in Seq(Items) /\ Carries(y, core)
  <2> HIDE DEF core
  <2>1. core \in Seq(Items)
    BY <1>4
  <2>2. w \o core \in Seq(Items) /\ Carries(w \o core, core)
    BY <1>5, <2>1, CarriesPut, ConcatIs
  <2> QED BY <1>6, <2>2
<1>8. fs \in Fronts(y)
  <2>1. CASE fs = << >>
    BY <2>1 DEF Fronts
  <2>2. CASE fs # << >>
    <3> HIDE DEF core
    <3>1. Len(fs) = 1 /\ fs = << fs[1] >>
      BY <1>3, <2>2
    <3>2. core \in Seq(Items) /\ 1 \in 1..Len(core) /\ core[1] = fs[1]
      BY <1>4, <3>1
    <3>3. /\ y \in Seq(Items)
          /\ \A i \in 1..Len(core) : y[Len(w) + i] = core[i] /\ Len(w) + i \in 1..Len(y)
      <4>1. w \in Seq(Items) /\ core \in Seq(Items)
        BY <3>2
      <4>2. /\ w \o core \in Seq(Items)
            /\ \A i \in 1..Len(core) : (w \o core)[Len(w) + i] = core[i]
                                      /\ Len(w) + i \in 1..Len(w \o core)
        BY <4>1, ConcatIs
      <4> QED BY <1>6, <4>2
    <3>4. y[Len(w) + 1] = fs[1] /\ Len(w) + 1 \in DOMAIN y
      BY <3>2, <3>3
    <3> QED BY <3>1, <3>4 DEF Fronts
  <2> QED BY <2>1, <2>2
<1>9. CASE H = << >>
  <2>1. Free(e)
    BY <1>9 DEF Free
  <2>2. Carries(y, fs \o << Line(x) >>)
    BY <1>7, <1>9 DEF q
  <2>3. Turn(m, n, f, e, z, y)
    BY <1>8, <2>1, <2>2 DEF Turn
  <2> QED BY <2>3 DEF Live, Stage
<1>10. CASE H # << >>
  <2>1. Carries(y, fs \o Ask(H, 0))
    BY <1>7, <1>10 DEF q
  <2>2. Proposed(n, m, e, f, y, z)
    BY <1>8, <1>10, <2>1 DEF Proposed
  <2> QED BY <2>2 DEF Live, Stage
<1> QED BY <1>9, <1>10

\* A session goes on: S is what one end was before, R what it is when it has
\* handled the item i from w; the other end is as before.
Held(S, R, b, p, i, w) ==
    /\ S \in Results /\ S.out = << >> /\ R = Handle(S, b, p, i)
    /\ b \in BBSs /\ p \in BBSs /\ w \in Seq(Items) /\ Arrives(w, i)

\* Text and, while a message is received, the blocks of it.
LEMMA TextHeld ==
    ASSUME NEW S, NEW R, NEW b, NEW p, NEW i, NEW w, Held(S, R, b, p, i, w), i.t = "text",
           NEW v \in Seq(Items)
    PROVE  /\ R \in Results /\ R.n = S.n /\ Still(S.c, R.c) /\ SomeText(R.out)
           /\ Like(w, Tail(w)) /\ Like(v, v \o R.out) /\ MoreOf(S.n, R.n)
<1>1. R \in Results /\ R.n = S.n /\ Still(S.c, R.c) /\ SomeText(R.out)
  <2>1. i \in Items
    BY DEF Held, Arrives
  <2> QED BY <2>1, StirIs DEF Held
<1>2. Like(w, Tail(w))
  BY LikeTail DEF Held, Arrives
<1>3. Like(v, v \o R.out)
  BY <1>1, LikePut
<1>4. MoreOf(S.n, R.n)
  BY <1>1 DEF MoreOf
<1> QED BY <1>1, <1>2, <1>3, <1>4

\* The text that arrives at the BBS whose turn it is.
LEMMA TextToTurn ==
    ASSUME NEW S, NEW R, NEW b, NEW p, NEW i, NEW v, Held(S, R, b, p, i, v), i.t = "text",
           NEW np, NEW d \in Streams, NEW u \in Seq(Items), Stage(S.n, np, S.c, d, u, v)
    PROVE  Stage(R.n, np, R.c, d, u \o R.out, Tail(v))
<1>1. /\ R \in Results /\ R.n = S.n /\ Still(S.c, R.c) /\ SomeText(R.out)
      /\ Like(v, Tail(v)) /\ Like(u, u \o R.out) /\ MoreOf(S.n, R.n)
  BY TextHeld
<1>2. S.c \in Streams /\ Still(d, d) /\ MoreOf(np, np) /\ v \in Seq(Items)
  BY ResultIs DEF Still, MoreOf, Held
<1>3. Calm(S.n, R.n, np, np, S.c, R.c, d, d, u, u \o R.out, v, Tail(v))
  BY <1>1, <1>2 DEF Calm
<1> QED BY <1>3, StageCalm

\* The text that arrives at the other one.
LEMMA TextToOther ==
    ASSUME NEW S, NEW R, NEW b, NEW p, NEW i, NEW u, Held(S, R, b, p, i, u), i.t = "text",
           NEW nb, NEW c \in Streams, NEW v \in Seq(Items), Stage(nb, S.n, c, S.c, u, v)
    PROVE  Stage(nb, R.n, c, R.c, Tail(u), v \o R.out)
<1>1. /\ R \in Results /\ R.n = S.n /\ Still(S.c, R.c) /\ SomeText(R.out)
      /\ Like(u, Tail(u)) /\ Like(v, v \o R.out) /\ MoreOf(S.n, R.n)
  BY TextHeld
<1>2. S.c \in Streams /\ Still(c, c) /\ MoreOf(nb, nb) /\ u \in Seq(Items)
  BY ResultIs DEF Still, MoreOf, Held
<1>3. Calm(nb, nb, S.n, R.n, c, c, S.c, R.c, u, Tail(u), v, v \o R.out)
  BY <1>1, <1>2 DEF Calm
<1> QED BY <1>3, StageCalm
(***************************************************************************)
(* A session: the BBS whose turn it is hears from the other one.           *)
(***************************************************************************)

\* The answer that everything is refused.
LEMMA RefusalIs ==
    ASSUME NEW S \in Results, S.out = << >>, NEW b \in BBSs, NEW p \in BBSs, NEW np,
           NEW i \in Items, i.t = "FS", Settled(S.n, np, S.c, << i >>)
    PROVE  LET R == Handle(S, b, p, i) IN
           R \in Results /\ MoreOf(S.n, R.n) /\ R.out = << >> /\ Settled(R.n, np, R.c, << >>)
<1> DEFINE R == Handle(S, b, p, i)
           r == i.x
           H == S.c.FBBHeaders
           q == Kept(H, r)
<1> SUFFICES R \in Results /\ MoreOf(S.n, R.n) /\ R.out = << >> /\ Settled(R.n, np, R.c, << >>)
  OBVIOUS
<1>1. /\ Waits(S.c) /\ Own(S.n, H) /\ ~S.c.FBBMsgsSent
      /\ AnswersOK(np, H, r) /\ \A k \in DOMAIN r : r[k].reply \in Refused
  <2>1. << i >> # << >> /\ << i >>[1] = i
    OBVIOUS
  <2> QED BY <2>1 DEF Settled
<1>2. R = ProposalResponse(S, p, r) /\ r \in Seq(Replies)
  <2>1. S.c.InputMode = "line"
    BY <1>1 DEF Waits
  <2> QED BY <2>1, ItemIs DEF Handle, ProcessFBBLine
<1> HIDE DEF R, r
<1>3. /\ R \in Results /\ Later(S.n, R.n, p, np) /\ Rest(S.c, R.c)
      /\ R.c.FBBReplyChars = S.c.FBBReplyChars
      /\ R.c.FBBHeaders = q.h /\ R.out = S.out \o q.out
      /\ R.c.FBBMsgsSent = (S.c.FBBMsgsSent \/ WantedOf(r, Len(H)) # {})
      /\ Sifted(q, H, r, Len(H), FALSE)
  <2> DEFINE Q == ProposalResponse(S, p, r)
             zero == FALSE
  <2>1. /\ r \in Seq(Replies) /\ Own(S.n, S.c.FBBHeaders) /\ AnswersOK(np, S.c.FBBHeaders, r)
        /\ zero => \A k \in 1..Len(r) : r[k].from = 0
    BY <1>1, <1>2
  <2>2. zero = FALSE
    OBVIOUS
  <2> HIDE DEF zero
  <2>3. /\ Q \in Results /\ Later(S.n, Q.n, p, np) /\ Rest(S.c, Q.c)
        /\ Q.c.FBBReplyChars = S.c.FBBReplyChars
        /\ Q.c.FBBHeaders = q.h /\ Q.out = S.out \o q.out
        /\ Q.c.FBBMsgsSent = (S.c.FBBMsgsSent \/ WantedOf(r, Len(H)) # {})
        /\ Sifted(q, H, r, Len(H), zero)
        /\ Own(Q.n, Q.c.FBBHeaders)
    BY <2>1, ResponseIs
  <2>4. R = Q
    BY <1>2
  <2> HIDE DEF Q, q
  <2> QED BY <2>2, <2>3, <2>4
<1> HIDE DEF q
<1>4. WantedOf(r, Len(H)) = {}
  <2>1. Len(r) = Len(H) /\ DOMAIN r = 1..Len(r)
    BY <1>1, <1>2 DEF AnswersOK
  <2>2. \A x \in Refused : x \notin Wanted
    BY DEF Refused, Wanted
  <2> QED BY <1>1, <2>1, <2>2 DEF WantedOf
<1>5. q.h = << >> /\ q.out = << >>
  <2>1. Cardinality(WantedOf(r, Len(H))) = 0
    BY <1>4, FS_EmptySet
  <2>2. Len(q.h) = 0 /\ q.h \in Seq(Headers)
    BY <1>3, <2>1 DEF Sifted
  <2>3. q.h = << >>
    BY <2>2
  <2> QED BY <1>3, <2>3 DEF Sifted
<1>6. R.out = << >> /\ R.c.FBBHeaders = << >> /\ R.c.FBBMsgsSent = S.c.FBBMsgsSent
  <2>1. S.c.FBBMsgsSent \in BOOLEAN
    BY ResultIs, StreamIs
  <2> QED BY <1>3, <1>4, <1>5, <2>1
<1>7. Settled(R.n, np, R.c, << >>)
  <2>1. Waits(R.c)
    BY <1>1, <1>3 DEF Waits, Rest
  <2>2. Own(R.n, << >>)
    BY DEF Own
  <2> QED BY <1>1, <1>6, <2>1, <2>2 DEF Settled
<1> QED BY <1>3, <1>6, <1>7 DEF Later

\* What is settled may be marked as sent.
LEMMA SettledMarks ==
    ASSUME NEW n, NEW np, NEW c, Settled(n, np, c, << >>)
    PROVE  /\ Waits(c)
           /\ c.FBBMsgsSent => /\ Own(n, c.FBBHeaders)
                               /\ \A i \in DOMAIN c.FBBHeaders : Has(np, c.FBBHeaders[i].bid)
           /\ ~c.FBBMsgsSent => c.FBBHeaders = << >>
<1>1. Len(<< >>) # 1
  OBVIOUS
<1> QED BY <1>1 DEF Settled

\* A stream that is free is settled.
LEMMA FreeIsSettled ==
    ASSUME NEW n, NEW np, NEW c, Free(c)
    PROVE  Settled(n, np, c, << >>)
  BY DEF Free, Settled, Own

\* FF, FQ or a refusal arrives at the BBS whose turn it is.
LEMMA TurnTo ==
    ASSUME NEW S, NEW R, NEW b, NEW p, NEW i, NEW v, Held(S, R, b, p, i, v),
           NEW np, NEW d \in Streams, NEW u \in Seq(Items), Turn(S.n, np, S.c, d, u, v)
    PROVE  Live(R.n, np, R.c, d, u \o R.out, Tail(v))
<1>1. CASE i.t = "text"
  <2>1. Stage(S.n, np, S.c, d, u, v)
    BY DEF Stage
  <2>2. Stage(R.n, np, R.c, d, u \o R.out, Tail(v))
    BY <1>1, <2>1, TextToTurn
  <2> QED BY <2>2 DEF Live
<1>2. CASE i.t # "text"
  <2>1. PICK fs \in Fronts(v) : /\ Settled(S.n, np, S.c, fs)
                                /\ \E x \in {"FF", "FQ"} : Carries(v, fs \o << Line(x) >>)
    BY DEF Turn
  <2>2. PICK x \in {"FF", "FQ"} : Carries(v, fs \o << Line(x) >>)
    BY <2>1
  <2>3. Quiet(u) /\ Free(d)
    BY DEF Turn
  <2>4. /\ S \in Results /\ S.out = << >> /\ R = Handle(S, b, p, i) /\ b \in BBSs /\ p \in BBSs
        /\ v \in Seq(Items) /\ v # << >> /\ i \in Items /\ i.t = v[1].t
        /\ i.t # "data" => i = v[1]
    BY DEF Held, Arrives
  <2>5. /\ fs \in Seq(Items) /\ << Line(x) >> \in Seq(Items)
        /\ fs = << >> \/ \E k \in 1..Len(v) : fs = << v[k] >> /\ v[k].t = "FS" /\ v[k] \in Items
    <3>1. /\ fs \in Seq(Items)
          /\ fs = << >> \/ \E k \in 1..Len(v) : fs = << v[k] >> /\ v[k].t = "FS" /\ v[k] \in Items
      <4>1. v \in Seq(Items) /\ fs \in Fronts(v) /\ Settled(S.n, np, S.c, fs)
        BY <2>1, <2>4
      <4>2. /\ fs \in Seq(Items)
            /\ \/ fs = << >>
               \/ \E k \in 1..Len(v) : fs = << v[k] >> /\ v[k].t = "FS" /\ v[k] \in Items
            /\ \A v2 : Like(v, v2) => fs \in Fronts(v2)
        BY <4>1, FrontIs
      <4> QED BY <4>2
    <3>2. << Line(x) >> \in Seq(Items)
      BY LinesAreItems
    <3> QED BY <3>1, <3>2
  <2> DEFINE y == << Line(x) >>
             core == fs \o y
  <2>6. core \in Seq(Items) /\ Carries(v, core)
    <3>1. y \in Seq(Items) /\ Carries(v, fs \o y)
      BY <2>2, <2>5
    <3> HIDE DEF y
    <3> QED BY <2>5, <3>1, ConcatIs
  <2>7. core # << >> /\ v[1] = core[1] /\ Carries(Tail(v), Tail(core))
    <3> HIDE DEF core
    <3> QED BY <1>2, <2>4, <2>6, CarriesHead
  <2>8. S.c.InputMode = "line"
    BY <2>1 DEF Settled, Waits
  <2>9. CASE fs = << >>
    <3>1. core = << Line(x) >> /\ core[1] = Line(x) /\ Tail(core) = << >>
      <4>1. core = y
        BY <2>5, <2>9, NoneBefore
      <4> HIDE DEF core
      <4> QED BY <4>1
    <3>2. i.t = x /\ i = Line(x) /\ Quiet(Tail(v))
      <4>1. Line(x).t = x
        BY DEF Line, Item
      <4> HIDE DEF core
      <4> QED BY <2>4, <2>7, <3>1, <4>1 DEF Quiet
    <3>3. /\ Waits(S.c)
          /\ S.c.FBBMsgsSent => /\ Own(S.n, S.c.FBBHeaders)
                                /\ \A k \in DOMAIN S.c.FBBHeaders : Has(np, S.c.FBBHeaders[k].bid)
          /\ ~S.c.FBBMsgsSent => S.c.FBBHeaders = << >>
      BY <2>1, <2>9, SettledMarks
    <3>4. Tail(v) \in Seq(Items)
      BY <2>4, TailIs
    <3>5. CASE x = "FF"
      <4> DEFINE Q == RequestReverse(S, p)
      <4>1. /\ Q \in Results /\ Later(S.n, Q.n, p, np) /\ Own(Q.n, Q.c.FBBHeaders)
            /\ Q.c.FBBMsgsSent = FALSE /\ Q.c.Active = S.c.Active
            /\ Q.c.FBBReplyChars = S.c.FBBReplyChars /\ Q.c.InputMode = S.c.InputMode
            /\ Q.c.sumOK = S.c.sumOK /\ Q.c.TempMsg = S.c.TempMsg
            /\ Q.out = S.out \o (IF Q.c.FBBHeaders = << >> THEN << Line("FQ") >>
                                 ELSE Ask(Q.c.FBBHeaders, 0))
        BY <2>4, <3>3, ReverseIs
      <4>2. R = Q
        BY <2>4, <2>8, <3>2, <3>5 DEF Handle, ProcessFBBLine
      <4> HIDE DEF Q
      <4> DEFINE q == IF R.c.FBBHeaders = << >> THEN << Line("FQ") >> ELSE Ask(R.c.FBBHeaders, 0)
                 w == u \o R.out
      <4>3. R.c \in Streams /\ R.c.FBBHeaders \in Seq(Headers)
        BY <4>1, <4>2, ResultIs, StreamIs
      <4>4. w = u \o (<< >> \o q)
        BY <2>4, <4>1, <4>2
      <4>5. Waits(R.c) /\ ~R.c.FBBMsgsSent /\ Own(R.n, R.c.FBBHeaders)
        BY <3>3, <4>1, <4>2 DEF Waits
      <4>6. Settled(np, R.n, d, << >>)
        BY <2>3, FreeIsSettled
      <4>7. Live(np, R.n, d, R.c, Tail(v), w)
        <5> DEFINE fs0 == << >>
                   x0 == "FQ"
                   z == Tail(v)
        <5>1. /\ fs0 = << >> \/ \E r \in Seq(Replies) : fs0 = << Item("FS", r) >>
              /\ x0 \in {"FF", "FQ"} /\ Settled(np, R.n, d, fs0) /\ z \in Seq(Items) /\ Quiet(z)
              /\ w = u \o (fs0 \o (IF R.c.FBBHeaders = << >> THEN << Line(x0) >>
                                   ELSE Ask(R.c.FBBHeaders, 0)))
          BY <3>2, <3>4, <4>4, <4>6
        <5> HIDE DEF fs0, x0, w, z
        <5>2. Live(np, R.n, d, R.c, z, w)
          BY <2>3, <4>3, <4>5, <5>1, TurnBegins
        <5> QED BY <5>2 DEF z
      <4> QED BY <4>7 DEF Live
    <3>6. CASE x = "FQ"
      <4> DEFINE Q == [FlagSentMessages(S, p) EXCEPT !.c.closing = "disc"]
      <4>1. /\ Q \in Results /\ Later(S.n, Q.n, p, np) /\ Q.out = S.out
            /\ Q.c.FBBHeaders = IF S.c.FBBMsgsSent THEN << >> ELSE S.c.FBBHeaders
            /\ Q.c.FBBMsgsSent = FALSE /\ Q.c.Active = S.c.Active
            /\ Q.c.FBBReplyChars = S.c.FBBReplyChars /\ Q.c.InputMode = S.c.InputMode
            /\ Q.c.sumOK = S.c.sumOK /\ Q.c.TempMsg = S.c.TempMsg
        BY <2>4, <3>3, QuitIs
      <4>2. R = Q
        BY <2>4, <2>8, <3>2, <3>6 DEF Handle, ProcessFBBLine
      <4> HIDE DEF Q
      <4>3. Free(R.c)
        BY <3>3, <4>1, <4>2 DEF Free, Waits
      <4>4. u \o R.out = u
        BY <2>4, <4>1, <4>2
      <4>5. Over(R.n, np, R.c, d, u \o R.out, Tail(v))
        BY <2>3, <3>2, <4>3, <4>4 DEF Over
      <4> QED BY <4>5 DEF Live, Stage
    <3> QED BY <3>5, <3>6
  <2>10. CASE fs # << >>
    <3>1. PICK k \in 1..Len(v) : fs = << v[k] >> /\ v[k].t = "FS" /\ v[k] \in Items
      BY <2>5, <2>10
    <3>2. core[1] = v[k] /\ Tail(core) = << Line(x) >>
      <4> HIDE DEF y
      <4>1. fs = << v[k] >> /\ y \in Seq(Items)
        BY <2>5, <3>1 DEF y
      <4>2. (<< v[k] >> \o y)[1] = v[k] /\ Tail(<< v[k] >> \o y) = y
        BY <3>1, <4>1
      <4> QED BY <4>1, <4>2 DEF y
    <3>3. i = v[k] /\ Carries(Tail(v), << Line(x) >>)
      <4> HIDE DEF core
      <4> QED BY <2>4, <2>7, <3>1, <3>2
    <3>4. R \in Results /\ MoreOf(S.n, R.n) /\ R.out = << >> /\ Settled(R.n, np, R.c, << >>)
      <4>1. Settled(S.n, np, S.c, << i >>) /\ i.t = "FS"
        BY <2>1, <3>1, <3>3
      <4> QED BY <2>4, <4>1, RefusalIs
    <3>5. Carries(Tail(v), << >> \o << Line(x) >>)
      BY <2>5, <3>3, NoneBefore
    <3>6. u \o R.out = u /\ << >> \in Fronts(Tail(v))
      BY <3>4 DEF Fronts
    <3>7. Turn(R.n, np, R.c, d, u \o R.out, Tail(v))
      BY <2>3, <3>4, <3>5, <3>6 DEF Turn
    <3> QED BY <3>7 DEF Live, Stage
  <2> QED BY <2>9, <2>10
<1> QED BY <1>1, <1>2
(***************************************************************************)
(* A session: the other BBS hears what is proposed.                        *)
(***************************************************************************)

\* One proposal more has been read.
LEMMA AskNext ==
    ASSUME NEW H \in Seq(Headers), NEW k \in 0..Len(H)
    PROVE  /\ k < Len(H) => /\ Ask(H, k)[1] = Item("FA", H[k + 1].bid)
                            /\ Tail(Ask(H, k)) = Ask(H, k + 1)
           /\ k = Len(H) => /\ Ask(H, k)[1] = Line("F>") /\ Tail(Ask(H, k)) = << >>
<1> DEFINE w == Ask(H, k)
           n == Len(H) - k
<1>1. n \in Nat /\ Len(H) \in Nat /\ k \in Nat /\ n + k = Len(H)
  OBVIOUS
<1>2. w \in Seq(Items) /\ Len(w) = n + 1
  BY AskIs
<1>3. \A i \in 1..(n + 1) : w[i] = IF i <= n THEN Item("FA", H[k + i].bid) ELSE Line("F>")
  BY <1>1 DEF Ask
<1> HIDE DEF w
<1>4. w # << >> /\ 1 \in 1..(n + 1)
  BY <1>1, <1>2
<1>5. /\ Tail(w) \in Seq(Items) /\ Len(Tail(w)) = n
      /\ \A i \in 1..n : Tail(w)[i] = w[i + 1] /\ i + 1 \in 1..(n + 1)
  <2>1. Tail(w) \in Seq(Items) /\ Len(Tail(w)) = Len(w) - 1
        /\ \A i \in 1..Len(Tail(w)) : Tail(w)[i] = w[i + 1] /\ i + 1 \in 1..Len(w)
    BY <1>2, <1>4, TailIs
  <2>2. Len(Tail(w)) = n
    BY <1>1, <1>2, <2>1
  <2> QED BY <1>2, <2>1, <2>2
<1>6. ASSUME k < Len(H)
      PROVE  w[1] = Item("FA", H[k + 1].bid) /\ Tail(w) = Ask(H, k + 1)
  <2>1. w[1] = Item("FA", H[k + 1].bid)
    BY <1>1, <1>3, <1>4, <1>6
  <2> DEFINE z == Ask(H, k + 1)
  <2>2. k + 1 \in 0..Len(H) /\ Len(H) - (k + 1) + 1 = n /\ Len(H) - (k + 1) = n - 1
    BY <1>1, <1>6
  <2>3. z \in Seq(Items) /\ Len(z) = n
    BY <2>2, AskIs
  <2>4. \A i \in 1..n : z[i] = IF i <= n - 1 THEN Item("FA", H[k + 1 + i].bid) ELSE Line("F>")
    BY <1>1, <2>2 DEF Ask
  <2> HIDE DEF z
  <2>5. \A i \in 1..n : Tail(w)[i] = z[i]
    <3> TAKE i \in 1..n
    <3>1. /\ Tail(w)[i] = w[i + 1] /\ i + 1 \in 1..(n + 1) /\ k + (i + 1) = k + 1 + i
          /\ (i + 1 <= n <=> i <= n - 1)
      BY <1>1, <1>5
    <3> HIDE DEF n
    <3> QED BY <1>3, <2>4, <3>1
  <2>6. Tail(w) = z
    <3> HIDE DEF n
    <3> QED BY <1>1, <1>5, <2>3, <2>5, SeqEqual
  <2> QED BY <2>1, <2>6 DEF z
<1>7. ASSUME k = Len(H)
      PROVE  w[1] = Line("F>") /\ Tail(w) = << >>
  <2>1. n = 0
    BY <1>1, <1>7
  <2>2. w[1] = Line("F>")
    BY <1>3, <1>4, <2>1
  <2>3. Tail(w) = << >>
    BY <1>5, <2>1
  <2> QED BY <2>2, <2>3
<1> QED BY <1>6, <1>7 DEF w

\* An answer more to the proposals H.
LEMMA NotesNext ==
    ASSUME NEW H \in Seq(Headers), NEW r \in Seq(Replies), NEW k \in Nat, k = Len(r), k < Len(H),
           NEW d, NEW d2, d.FBBHeaders \in Seq(Headers), Notes(d, H, r, k), NEW a \in Replies,
           d2.FBBReplyChars = Append(r, a),
           \/ a.reply \in Refused /\ d2.FBBHeaders = d.FBBHeaders
           \/ /\ a.reply \in Wanted
              /\ d2.FBBHeaders = d.FBBHeaders \o << [bid |-> H[k + 1].bid, FwdMsg |-> 0] >>
    PROVE  Notes(d2, H, d2.FBBReplyChars, k + 1)
<1> DEFINE s == Append(r, a)
           h == d.FBBHeaders
           h2 == d2.FBBHeaders
           new == [bid |-> H[k + 1].bid, FwdMsg |-> 0]
<1>1. /\ s \in Seq(Replies) /\ Len(s) = k + 1 /\ s[k + 1] = a
      /\ \A i \in 1..k : s[i] = r[i]
  OBVIOUS
<1> HIDE DEF s
<1>2. WantedOf(s, k) = WantedOf(r, k)
  BY <1>1 DEF WantedOf
<1>3. /\ Cardinality(WantedOf(s, k)) \in Nat
      /\ a.reply \in Wanted => Cardinality(WantedOf(s, k + 1)) = Cardinality(WantedOf(s, k)) + 1
      /\ a.reply \notin Wanted => WantedOf(s, k + 1) = WantedOf(s, k)
  <2>1. k < Len(s)
    BY <1>1
  <2> QED BY <1>1, <2>1, WantedNext
<1>4. \A i \in WantedOf(s, k + 1) : i \in WantedOf(s, k) \/ i = k + 1
  BY DEF WantedOf
<1>5. /\ Len(h) = Cardinality(WantedOf(s, k))
      /\ \A i \in WantedOf(s, k) : \E j \in DOMAIN h : h[j].bid = H[i].bid
  BY <1>2 DEF Notes
<1>6. CASE a.reply \in Refused
  <2>1. a.reply \notin Wanted
    BY <1>6 DEF Refused, Wanted
  <2>2. h2 = h
    BY <2>1
  <2> QED BY <1>3, <1>5, <2>1, <2>2 DEF Notes, s
<1>7. CASE a.reply \notin Refused
  <2>1. a.reply \in Wanted /\ h2 = h \o << new >>
    BY <1>7
  <2>2. new.bid = H[k + 1].bid
    OBVIOUS
  <2> HIDE DEF new
  <2>3. /\ Len(h2) = Len(h) + 1 /\ h2[Len(h) + 1] = new /\ \A j \in DOMAIN h : h2[j] = h[j]
        /\ DOMAIN h2 = 1..(Len(h) + 1) /\ DOMAIN h = 1..Len(h) /\ Len(h) \in Nat
    BY <2>1
  <2> HIDE DEF h, h2
  <2>4. Len(h2) = Cardinality(WantedOf(s, k + 1))
    BY <1>3, <1>5, <2>1, <2>3
  <2>5. ASSUME NEW i \in WantedOf(s, k + 1) PROVE \E j \in DOMAIN h2 : h2[j].bid = H[i].bid
    <3>1. CASE i \in WantedOf(s, k)
      <4>1. PICK j \in DOMAIN h : h[j].bid = H[i].bid
        BY <1>5, <3>1
      <4>2. j \in DOMAIN h2
        BY <2>3
      <4> QED BY <2>3, <4>1, <4>2
    <3>2. CASE i = k + 1
      <4>1. Len(h) + 1 \in DOMAIN h2
        BY <2>3
      <4> QED BY <2>2, <2>3, <3>2, <4>1
    <3> QED BY <1>4, <3>1, <3>2
  <2> QED BY <2>4, <2>5 DEF Notes, h2, s
<1> QED BY <1>6, <1>7

\* A proposal arrives.
LEMMA ProposalTo ==
    ASSUME NEW S, NEW R, NEW b, NEW p, NEW i, NEW u, Held(S, R, b, p, i, u),
           NEW nb, NEW c \in Streams, NEW v \in Seq(Items), Quiet(v),
           Own(nb, c.FBBHeaders), c.FBBHeaders # << >>, Waits(c), ~c.FBBMsgsSent,
           NEW k \in Nat, k < Len(c.FBBHeaders), i = Item("FA", c.FBBHeaders[k + 1].bid),
           Carries(Tail(u), Ask(c.FBBHeaders, k + 1)),
           S.c.InputMode = "line", Len(S.c.FBBReplyChars) = k,
           S.c.FBBMsgsSent => /\ Own(S.n, S.c.FBBHeaders)
                              /\ \A j \in DOMAIN S.c.FBBHeaders : Has(nb, S.c.FBBHeaders[j].bid),
           \A j \in 1..k : S.c.FBBReplyChars[j].reply = "-" => Has(S.n, c.FBBHeaders[j].bid),
           Notes([FBBHeaders |-> IF S.c.FBBMsgsSent THEN << >> ELSE S.c.FBBHeaders],
                 c.FBBHeaders, S.c.FBBReplyChars, k)
    PROVE  Proposed(nb, R.n, c, R.c, Tail(u), v \o R.out)
<1> DEFINE H == c.FBBHeaders
           m == H[k + 1].bid
           h == IF S.c.FBBMsgsSent THEN << >> ELSE S.c.FBBHeaders
           r == S.c.FBBReplyChars
           Q == Proposal(S, b, p, m)
           d == [FBBHeaders |-> h]
<1>1. /\ S \in Results /\ S.out = << >> /\ R = Handle(S, b, p, i) /\ b \in BBSs /\ p \in BBSs
      /\ H \in Seq(Headers) /\ r \in Seq(Replies) /\ S.c.FBBHeaders \in Seq(Headers)
  BY ResultIs, StreamIs DEF Held
<1>2. m \in Messages /\ k + 1 \in 1..Len(H)
  <2>1. k + 1 \in 1..Len(H) /\ H[k + 1] \in Headers
    BY <1>1
  <2> QED BY <2>1 DEF Headers
<1>3. R = Q
  <2>1. i.t = "FA" /\ i.x = m
    BY DEF Item
  <2> QED BY <1>1, <2>1 DEF Handle, ProcessFBBLine
<1> HIDE DEF m
<1>4. /\ Q \in Results /\ Later(S.n, Q.n, p, nb) /\ Q.out = S.out
      /\ Rest(S.c, Q.c) /\ Q.c.FBBMsgsSent = FALSE
      /\ \E a \in Replies :
            /\ Q.c.FBBReplyChars = Append(S.c.FBBReplyChars, a)
            /\ a.reply = "-" => Has(Q.n, m)
            /\ ~B1(b, p) => a.from = 0
            /\ \/ a.reply \in Refused /\ Q.c.FBBHeaders = h
               \/ a.reply \in Wanted /\ Q.c.FBBHeaders = h \o << [bid |-> m, FwdMsg |-> 0] >>
  BY <1>1, <1>2, ProposalIs
<1> HIDE DEF Q
<1>5. PICK a \in Replies :
            /\ R.c.FBBReplyChars = Append(r, a)
            /\ a.reply = "-" => Has(R.n, m)
            /\ \/ a.reply \in Refused /\ R.c.FBBHeaders = h
               \/ a.reply \in Wanted /\ R.c.FBBHeaders = h \o << [bid |-> m, FwdMsg |-> 0] >>
  BY <1>3, <1>4
<1>6. Notes(R.c, H, R.c.FBBReplyChars, k + 1)
  <2>1. d.FBBHeaders = h /\ h \in Seq(Headers) /\ Notes(d, H, r, k)
    BY <1>1
  <2> HIDE DEF d, h, r, H
  <2>2. k = Len(r) /\ k < Len(H)
    BY DEF r, H
  <2>3. \/ a.reply \in Refused /\ R.c.FBBHeaders = d.FBBHeaders
        \/ /\ a.reply \in Wanted
           /\ R.c.FBBHeaders = d.FBBHeaders \o << [bid |-> H[k + 1].bid, FwdMsg |-> 0] >>
    BY <1>5, <2>1 DEF m
  <2>4. d.FBBHeaders \in Seq(Headers) /\ R.c.FBBReplyChars = Append(r, a)
    BY <1>5, <2>1
  <2> QED BY <1>1, <2>1, <2>2, <2>3, <2>4, NotesNext
<1>7. Len(R.c.FBBReplyChars) = k + 1 /\ \A j \in 1..(k + 1) :
         R.c.FBBReplyChars[j].reply = "-" => Has(R.n, H[j].bid)
  <2>1. /\ Len(Append(r, a)) = k + 1 /\ Append(r, a)[k + 1] = a
        /\ \A j \in 1..k : Append(r, a)[j] = r[j]
    BY <1>1
  <2>2. \A y : Has(S.n, y) => Has(R.n, y)
    BY <1>3, <1>4, MoreHas DEF Later
  <2>3. \A j \in 1..(k + 1) : j \in 1..k \/ j = k + 1
    OBVIOUS
  <2> HIDE DEF H
  <2>4. \A j \in 1..k : r[j].reply = "-" => Has(R.n, H[j].bid)
    BY <2>2 DEF H
  <2>5. a.reply = "-" => Has(R.n, H[k + 1].bid)
    BY <1>5 DEF m
  <2> HIDE DEF r
  <2> QED BY <1>5, <2>1, <2>3, <2>4, <2>5
<1>8. v \o R.out = v /\ R.c.InputMode = "line" /\ ~R.c.FBBMsgsSent
  <2>1. R.out = << >> /\ R.c.InputMode = S.c.InputMode /\ R.c.FBBMsgsSent = FALSE
    BY <1>1, <1>3, <1>4 DEF Rest
  <2>2. v \o << >> = v
    OBVIOUS
  <2> QED BY <2>1, <2>2
<1> QED BY <1>2, <1>6, <1>7, <1>8 DEF Proposed
\* The end of the block arrives.
LEMMA EndTo ==
    ASSUME NEW S, NEW R, NEW b, NEW p, NEW i, NEW u, Held(S, R, b, p, i, u),
           NEW nb, NEW c \in Streams, NEW v \in Seq(Items), Quiet(v),
           Own(nb, c.FBBHeaders), Waits(c), ~c.FBBMsgsSent,
           i = Line("F>"), Quiet(Tail(u)), S.c.InputMode = "line", ~S.c.FBBMsgsSent,
           Len(S.c.FBBReplyChars) = Len(c.FBBHeaders),
           \A j \in 1..Len(c.FBBHeaders) :
              S.c.FBBReplyChars[j].reply = "-" => Has(S.n, c.FBBHeaders[j].bid),
           Notes(S.c, c.FBBHeaders, S.c.FBBReplyChars, Len(c.FBBHeaders))
    PROVE  Live(nb, R.n, c, R.c, Tail(u), v \o R.out)
<1> DEFINE H == c.FBBHeaders
           h == S.c.FBBHeaders
           r == S.c.FBBReplyChars
           f == << Item("FS", r) >>
           T == Put([S EXCEPT !.c.FBBReplyChars = << >>], << Item("FS", S.c.FBBReplyChars) >>)
           Q == EndOfBlock(S, p)
           y == v \o R.out
           z == Tail(u)
<1>1. /\ S \in Results /\ S.out = << >> /\ R = Handle(S, b, p, i) /\ b \in BBSs /\ p \in BBSs
      /\ H \in Seq(Headers) /\ r \in Seq(Replies) /\ h \in Seq(Headers)
      /\ z \in Seq(Items)
  BY ResultIs, StreamIs, TailIs DEF Held, Arrives
<1>2. R = Q
  <2>1. i.t = "F>"
    BY DEF Line, Item
  <2> QED BY <1>1, <2>1 DEF Handle, ProcessFBBLine
<1>3. /\ Onward(T, S.c.FBBHeaders, Q) /\ Later(S.n, Q.n, p, nb)
      /\ T \in Results /\ T.n = S.n
      /\ T.out = S.out \o << Item("FS", S.c.FBBReplyChars) >>
      /\ T.c.Active = S.c.Active /\ T.c.FBBHeaders = S.c.FBBHeaders
      /\ T.c.FBBMsgsSent = S.c.FBBMsgsSent /\ T.c.FBBReplyChars = << >>
      /\ T.c.closing = S.c.closing /\ T.c.sumOK = S.c.sumOK /\ T.c.TempMsg = S.c.TempMsg
  BY <1>1, EndOfBlockIs
<1> HIDE DEF T, Q
<1>4. f \in Seq(Items) /\ T.out = f /\ Len(f) = 1 /\ f[1].t = "FS" /\ f[1].x = r
  <2>1. << Item("FS", r) >> \in Seq(Items)
    BY <1>1, LinesAreItems
  <2>2. f \in Seq(Items) /\ Len(f) = 1 /\ f[1].t = "FS" /\ f[1].x = r
    BY <2>1 DEF Item
  <2>3. T.out = f
    BY <1>1, <1>3, <2>1, NoneBefore
  <2> QED BY <2>2, <2>3
<1>5. Onward(T, h, R) /\ MoreOf(S.n, R.n)
  BY <1>2, <1>3 DEF Later
<1>6. AnswersOK(R.n, H, r)
  <2>1. \A m : Has(S.n, m) => Has(R.n, m)
    BY <1>5, MoreHas
  <2> QED BY <2>1 DEF AnswersOK
<1>7. CASE h # << >>
  <2>1. PICK q : SomeText(q) /\ R.out = f \o q
    BY <1>4, <1>5, <1>7 DEF Onward
  <2> HIDE DEF f
  <2>2. q \in Seq(Items)
    BY <2>1, SomeTextIs
  <2> DEFINE w == v \o f
  <2>3. w \in Seq(Items) /\ Carries(w, f)
    <3>1. \A j \in 1..Len(f) : f[j].t # "text"
      BY <1>4
    <3> QED BY <1>4, <3>1, CarriesPut, ConcatIs
  <2>4. y = w \o q
    <3>1. v \in Seq(Items) /\ f \in Seq(Items) /\ q \in Seq(Items)
      BY <1>4, <2>2
    <3>2. (v \o f) \o q = v \o (f \o q)
      BY <3>1, ConcatThree
    <3> QED BY <2>1, <3>2
  <2>5. w[Len(v) + 1] = f[1] /\ Len(v) + 1 \in 1..Len(w)
    <3>1. /\ v \in Seq(Items) /\ f \in Seq(Items) /\ 1 \in 1..Len(f)
      BY <1>4
    <3>2. \A j \in 1..Len(f) : (v \o f)[Len(v) + j] = f[j] /\ Len(v) + j \in 1..Len(v \o f)
      BY <3>1, ConcatIs
    <3> QED BY <3>1, <3>2
  <2> HIDE DEF w
  <2>6. Carries(y, f) /\ y \in Seq(Items)
    <3>1. Like(w, w \o q)
      BY <2>1, <2>3, LikePut
    <3> QED BY <1>4, <2>3, <2>4, <3>1 DEF Like
  <2> DEFINE k == Len(v) + 1
  <2>7. k \in DOMAIN y /\ y[k] = f[1]
    <3>1. /\ \A j \in 1..Len(w) : (w \o q)[j] = w[j] /\ j \in 1..Len(w \o q)
      BY <2>2, <2>3, ConcatIs
    <3>2. (w \o q)[k] = f[1] /\ k \in 1..Len(w \o q)
      BY <2>5, <3>1
    <3>3. DOMAIN y = 1..Len(y)
      BY <2>6
    <3> HIDE DEF y, k
    <3> QED BY <2>4, <3>2, <3>3
  <2> HIDE DEF y, k
  <2>8. f = << y[k] >>
    BY <1>4, <2>7 DEF f
  <2>9. /\ R.c.InputMode = "binary" /\ R.c.FBBReplyChars = << >> /\ ~R.c.FBBMsgsSent
        /\ Receives(R.n, R.c) /\ R.c.FBBHeaders = h
    BY <1>3, <1>5, <1>7 DEF Onward
  <2>10. Notes(R.c, H, r, Len(H))
    BY <2>9 DEF Notes
  <2>11. y[k].t = "FS" /\ y[k].x = r
    BY <1>4, <2>7
  <2>12. Carries(y, << y[k] >>)
    BY <2>6, <2>8
  <2>13. Answered(nb, R.n, c, R.c, z, y)
    BY <1>6, <2>7, <2>9, <2>10, <2>11, <2>12 DEF Answered
  <2> QED BY <2>13 DEF Live, Stage, y
<1>8. CASE h = << >>
  <2> DEFINE x == "FF"
             q == IF R.c.FBBHeaders = << >> THEN << Line(x) >> ELSE Ask(R.c.FBBHeaders, 0)
  <2>1. /\ R \in Results /\ R.c.InputMode = "line" /\ Own(R.n, R.c.FBBHeaders)
        /\ R.c.FBBReplyChars = << >> /\ ~R.c.FBBMsgsSent
        /\ R.out = f \o q
    BY <1>3, <1>4, <1>5, <1>8 DEF Onward
  <2>2. \A j \in DOMAIN r : r[j].reply \in Refused
    <3>1. Cardinality(WantedOf(r, Len(H))) = 0
      BY <1>8 DEF Notes
    <3>2. WantedOf(r, Len(H)) = {}
      <4>1. IsFiniteSet(WantedOf(r, Len(H)))
        <5>1. IsFiniteSet(1..Len(H))
          BY <1>1, FS_Interval
        <5>2. WantedOf(r, Len(H)) \in SUBSET (1..Len(H))
          BY DEF WantedOf
        <5> QED BY <5>1, <5>2, FS_Subset
      <4> QED BY <3>1, <4>1, FS_EmptySet
    <3>3. DOMAIN r = 1..Len(H) /\ \A j \in DOMAIN r : r[j].reply \in Refused \cup Wanted
      <4>1. DOMAIN r = 1..Len(r) /\ \A j \in DOMAIN r : r[j] \in Replies
        BY <1>1
      <4> QED BY <4>1 DEF Replies
    <3> QED BY <3>2, <3>3 DEF WantedOf
  <2>3. Settled(nb, R.n, c, f)
    <3> HIDE DEF f
    <3> QED BY <1>4, <1>6, <2>2 DEF Settled
  <2>4. R.c \in Streams /\ Waits(R.c)
    BY <2>1, ResultIs DEF Waits
  <2>5. Live(nb, R.n, c, R.c, z, y)
    <3>1. f = << >> \/ \E s \in Seq(Replies) : f = << Item("FS", s) >>
      BY <1>1
    <3>2. y = v \o (f \o (IF R.c.FBBHeaders = << >> THEN << Line(x) >>
                          ELSE Ask(R.c.FBBHeaders, 0)))
      BY <2>1
    <3>3. x \in {"FF", "FQ"} /\ Quiet(z) /\ z \in Seq(Items)
      BY <1>1
    <3> HIDE DEF x, f, y, z
    <3> QED BY <2>1, <2>3, <2>4, <3>1, <3>2, <3>3, TurnBegins
  <2> QED BY <2>5
<1> QED BY <1>7, <1>8

\* A BBS hears what is proposed, and before that what it proposed itself.
LEMMA ProposedTo ==
    ASSUME NEW S, NEW R, NEW b, NEW p, NEW i, NEW u, Held(S, R, b, p, i, u),
           NEW nb, NEW c \in Streams, NEW v \in Seq(Items), Proposed(nb, S.n, c, S.c, u, v)
    PROVE  Live(nb, R.n, c, R.c, Tail(u), v \o R.out)
<1> DEFINE H == c.FBBHeaders
<1>0. CASE i.t = "text"
  <2>1. Stage(nb, S.n, c, S.c, u, v)
    BY DEF Stage
  <2>2. Stage(nb, R.n, c, R.c, Tail(u), v \o R.out)
    BY <1>0, <2>1, TextToOther
  <2> QED BY <2>2 DEF Live
<1>1. CASE i.t # "text"
  <2>1. /\ S \in Results /\ S.out = << >> /\ R = Handle(S, b, p, i) /\ b \in BBSs /\ p \in BBSs
        /\ u \in Seq(Items) /\ u # << >> /\ i \in Items /\ i.t = u[1].t
        /\ i.t # "data" => i = u[1]
    BY DEF Held, Arrives
  <2>2. /\ Own(nb, H) /\ H # << >> /\ Waits(c) /\ ~c.FBBMsgsSent /\ Quiet(v)
        /\ H \in Seq(Headers) /\ Len(H) \in Nat /\ Len(H) > 0
    <3>1. H \in Seq(Headers)
      BY StreamIs
    <3>2. Own(nb, H) /\ H # << >> /\ Waits(c) /\ ~c.FBBMsgsSent /\ Quiet(v)
      BY DEF Proposed
    <3> QED BY <3>1, <3>2
  <2>3. ASSUME NEW core \in Seq(Items), Carries(u, core)
        PROVE  core # << >> /\ u[1] = core[1] /\ Carries(Tail(u), Tail(core))
    BY <1>1, <2>1, <2>3, CarriesHead
  <2>4. \A k \in 0..Len(H) : Ask(H, k) \in Seq(Items)
    <3> HIDE DEF H
    <3> QED BY <2>2, AskIs
  <2>5. \A k \in 0..Len(H) :
           /\ k < Len(H) => /\ Ask(H, k)[1] = Item("FA", H[k + 1].bid)
                            /\ Tail(Ask(H, k)) = Ask(H, k + 1)
           /\ k = Len(H) => /\ Ask(H, k)[1] = Line("F>") /\ Tail(Ask(H, k)) = << >>
    <3> HIDE DEF H
    <3> QED BY <2>2, AskNext
  <2>6. ASSUME NEW fs \in Fronts(u), Settled(S.n, nb, S.c, fs), Carries(u, fs \o Ask(H, 0))
        PROVE  Live(nb, R.n, c, R.c, Tail(u), v \o R.out)
    <3> DEFINE q == Ask(H, 0)
    <3>0. 0 \in 0..Len(H) /\ q \in Seq(Items)
      BY <2>2, <2>4
    <3>1. /\ fs \in Seq(Items)
          /\ \/ fs = << >>
             \/ \E k \in 1..Len(u) : fs = << u[k] >> /\ u[k].t = "FS" /\ u[k] \in Items
          /\ \A v2 : Like(u, v2) => fs \in Fronts(v2)
      BY <2>1, <2>6, FrontIs
    <3> HIDE DEF q
    <3>2. CASE fs = << >>
      <4>1. fs \o q = q
        BY <3>0, <3>2, NoneBefore
      <4>2. u[1] = q[1] /\ Carries(Tail(u), Tail(q))
        BY <2>3, <2>6, <3>0, <4>1 DEF q
      <4>3. q[1] = Item("FA", H[0 + 1].bid) /\ Tail(q) = Ask(H, 0 + 1)
        BY <2>2, <2>5, <3>0 DEF q
      <4>4. i = Item("FA", H[0 + 1].bid)
        <5>1. Item("FA", H[0 + 1].bid).t = "FA"
          BY DEF Item
        <5> QED BY <2>1, <4>2, <4>3, <5>1
      <4>5. /\ Waits(S.c)
            /\ S.c.FBBMsgsSent => /\ Own(S.n, S.c.FBBHeaders)
                                  /\ \A k \in DOMAIN S.c.FBBHeaders : Has(nb, S.c.FBBHeaders[k].bid)
            /\ ~S.c.FBBMsgsSent => S.c.FBBHeaders = << >>
        BY <2>6, <3>2, SettledMarks
      <4>6. Len(S.c.FBBReplyChars) = 0 /\ S.c.InputMode = "line"
        BY <4>5 DEF Waits
      <4>7. Notes([FBBHeaders |-> IF S.c.FBBMsgsSent THEN << >> ELSE S.c.FBBHeaders],
                  H, S.c.FBBReplyChars, 0)
        <5>1. WantedOf(S.c.FBBReplyChars, 0) = {}
          BY DEF WantedOf
        <5>2. Cardinality(WantedOf(S.c.FBBReplyChars, 0)) = 0
          BY <5>1, FS_EmptySet
        <5> DEFINE e == [FBBHeaders |-> IF S.c.FBBMsgsSent THEN << >> ELSE S.c.FBBHeaders]
        <5>3. e.FBBHeaders = << >> /\ Len(<< >>) = 0
          BY <4>5
        <5> HIDE DEF e
        <5>4. Notes(e, H, S.c.FBBReplyChars, 0)
          BY <5>1, <5>2, <5>3 DEF Notes
        <5> QED BY <5>4 DEF e
      <4>8. Proposed(nb, R.n, c, R.c, Tail(u), v \o R.out)
        <5> DEFINE k == 0
        <5>1. /\ k \in Nat /\ k < Len(H) /\ i = Item("FA", H[k + 1].bid)
              /\ Len(S.c.FBBReplyChars) = k
          BY <2>2, <4>4, <4>6
        <5>2. Carries(Tail(u), Ask(H, k + 1))
          BY <4>2, <4>3
        <5>3. \A j \in 1..k : S.c.FBBReplyChars[j].reply = "-" => Has(S.n, H[j].bid)
          <6>1. 1..0 = {}
            OBVIOUS
          <6> QED BY <6>1
        <5>4. Notes([FBBHeaders |-> IF S.c.FBBMsgsSent THEN << >> ELSE S.c.FBBHeaders],
                    H, S.c.FBBReplyChars, k)
          BY <4>7
        <5> HIDE DEF k
        <5> QED BY <2>2, <4>5, <4>6, <5>1, <5>2, <5>3, <5>4, ProposalTo
      <4> QED BY <4>8 DEF Live, Stage
    <3>3. CASE fs # << >>
      <4>1. PICK k \in 1..Len(u) : fs = << u[k] >> /\ u[k].t = "FS" /\ u[k] \in Items
        BY <3>1, <3>3
      <4>2. (fs \o q)[1] = u[k] /\ Tail(fs \o q) = q /\ fs \o q \in Seq(Items)
        <5>1. (<< u[k] >> \o q)[1] = u[k] /\ Tail(<< u[k] >> \o q) = q
          BY <3>0, <4>1
        <5>2. fs \o q \in Seq(Items)
          BY <3>0, <3>1, ConcatIs
        <5> QED BY <4>1, <5>1, <5>2
      <4>3. u[1] = u[k] /\ Carries(Tail(u), q)
        BY <2>3, <2>6, <4>2 DEF q
      <4>4. i = u[k]
        BY <2>1, <4>1, <4>3
      <4>5. R \in Results /\ MoreOf(S.n, R.n) /\ R.out = << >> /\ Settled(R.n, nb, R.c, << >>)
        <5>1. Settled(S.n, nb, S.c, << i >>) /\ i.t = "FS"
          BY <2>6, <4>1, <4>4
        <5> QED BY <2>1, <5>1, RefusalIs
      <4>6. << >> \o q = q /\ << >> \in Fronts(Tail(u)) /\ v \o R.out = v
        BY <3>0, <4>5, NoneBefore DEF Fronts
      <4>7. Carries(Tail(u), << >> \o Ask(H, 0))
        BY <4>3, <4>6 DEF q
      <4>8. Proposed(nb, R.n, c, R.c, Tail(u), v \o R.out)
        BY <2>2, <4>5, <4>6, <4>7 DEF Proposed
      <4> QED BY <4>8 DEF Live, Stage
    <3> QED BY <3>2, <3>3
  <2>7. ASSUME NEW k \in 1..Len(H), Carries(u, Ask(H, k)),
               Len(S.c.FBBReplyChars) = k, S.c.InputMode = "line", ~S.c.FBBMsgsSent,
               \A j \in 1..k : S.c.FBBReplyChars[j].reply = "-" => Has(S.n, H[j].bid),
               Notes(S.c, H, S.c.FBBReplyChars, k)
        PROVE  Live(nb, R.n, c, R.c, Tail(u), v \o R.out)
    <3>1. k \in 0..Len(H) /\ k \in Nat /\ (k < Len(H) \/ k = Len(H))
      BY <2>2
    <3>2. u[1] = Ask(H, k)[1] /\ Carries(Tail(u), Tail(Ask(H, k)))
      BY <2>3, <2>4, <2>7, <3>1
    <3>3. CASE k < Len(H)
      <4>1. Ask(H, k)[1] = Item("FA", H[k + 1].bid) /\ Tail(Ask(H, k)) = Ask(H, k + 1)
        BY <2>5, <3>1, <3>3
      <4>2. i = Item("FA", H[k + 1].bid)
        <5>1. Item("FA", H[k + 1].bid).t = "FA"
          BY DEF Item
        <5> QED BY <2>1, <3>2, <4>1, <5>1
      <4>3. Notes([FBBHeaders |-> IF S.c.FBBMsgsSent THEN << >> ELSE S.c.FBBHeaders],
                  H, S.c.FBBReplyChars, k)
        BY <2>7 DEF Notes
      <4>4. Carries(Tail(u), Ask(H, k + 1))
        BY <3>2, <4>1
      <4>5. Proposed(nb, R.n, c, R.c, Tail(u), v \o R.out)
        BY <2>2, <2>7, <3>1, <3>3, <4>2, <4>3, <4>4, ProposalTo
      <4> QED BY <4>5 DEF Live, Stage
    <3>4. CASE k = Len(H)
      <4>1. Ask(H, k)[1] = Line("F>") /\ Tail(Ask(H, k)) = << >>
        BY <2>5, <3>1, <3>4
      <4>2. i = Line("F>")
        <5>1. Line("F>").t = "F>"
          BY DEF Line, Item
        <5> QED BY <2>1, <3>2, <4>1, <5>1
      <4>3. Quiet(Tail(u))
        BY <3>2, <4>1 DEF Quiet
      <4>4. /\ Len(S.c.FBBReplyChars) = Len(c.FBBHeaders)
            /\ \A j \in 1..Len(c.FBBHeaders) :
                  S.c.FBBReplyChars[j].reply = "-" => Has(S.n, c.FBBHeaders[j].bid)
            /\ Notes(S.c, c.FBBHeaders, S.c.FBBReplyChars, Len(c.FBBHeaders))
        BY <2>7, <3>4
      <4> QED BY <2>2, <2>7, <4>2, <4>3, <4>4, EndTo
    <3> QED BY <3>1, <3>3, <3>4
  <2>8. \/ \E fs \in Fronts(u) : Settled(S.n, nb, S.c, fs) /\ Carries(u, fs \o Ask(H, 0))
        \/ \E k \in 1..Len(H) :
            /\ Carries(u, Ask(H, k))
            /\ Len(S.c.FBBReplyChars) = k /\ S.c.InputMode = "line" /\ ~S.c.FBBMsgsSent
            /\ \A j \in 1..k : S.c.FBBReplyChars[j].reply = "-" => Has(S.n, H[j].bid)
            /\ Notes(S.c, H, S.c.FBBReplyChars, k)
    BY DEF Proposed
  <2> HIDE DEF H
  <2> QED BY <2>6, <2>7, <2>8
<1> QED BY <1>0, <1>1
(***************************************************************************)
(* A session: messages are sent and received.                              *)
(***************************************************************************)

\* An answer to what was proposed.
LEMMA AnswerIs ==
    ASSUME NEW S \in Results, S.out = << >>, NEW b \in BBSs, NEW p \in BBSs, NEW np,
           NEW i \in Items, i.t = "FS", S.c.InputMode = "line", Own(S.n, S.c.FBBHeaders),
           AnswersOK(np, S.c.FBBHeaders, i.x)
    PROVE  LET R == Handle(S, b, p, i)
               H == S.c.FBBHeaders
               q == Kept(H, i.x)
           IN  /\ R \in Results /\ MoreOf(S.n, R.n) /\ Rest(S.c, R.c)
               /\ R.c.FBBReplyChars = S.c.FBBReplyChars
               /\ R.c.FBBHeaders = q.h /\ R.out = q.out
               /\ R.c.FBBMsgsSent = (S.c.FBBMsgsSent \/ WantedOf(i.x, Len(H)) # {})
               /\ Sifted(q, H, i.x, Len(H), FALSE)
               /\ Own(R.n, R.c.FBBHeaders)
<1> DEFINE R == Handle(S, b, p, i)
           r == i.x
           H == S.c.FBBHeaders
           q == Kept(H, r)
<1> SUFFICES /\ R \in Results /\ MoreOf(S.n, R.n) /\ Rest(S.c, R.c)
             /\ R.c.FBBReplyChars = S.c.FBBReplyChars
             /\ R.c.FBBHeaders = q.h /\ R.out = q.out
             /\ R.c.FBBMsgsSent = (S.c.FBBMsgsSent \/ WantedOf(r, Len(H)) # {})
             /\ Sifted(q, H, r, Len(H), FALSE)
             /\ Own(R.n, R.c.FBBHeaders)
  OBVIOUS
<1>1. R = ProposalResponse(S, p, r) /\ r \in Seq(Replies) /\ AnswersOK(np, H, r)
  BY ItemIs DEF Handle, ProcessFBBLine
<1> HIDE DEF R, r
<1> DEFINE Q == ProposalResponse(S, p, r)
           zero == FALSE
<1>2. /\ r \in Seq(Replies) /\ Own(S.n, S.c.FBBHeaders) /\ AnswersOK(np, S.c.FBBHeaders, r)
      /\ zero => \A k \in 1..Len(r) : r[k].from = 0
  BY <1>1
<1>3. zero = FALSE
  OBVIOUS
<1> HIDE DEF zero
<1>4. /\ Q \in Results /\ Later(S.n, Q.n, p, np) /\ Rest(S.c, Q.c)
      /\ Q.c.FBBReplyChars = S.c.FBBReplyChars
      /\ Q.c.FBBHeaders = q.h /\ Q.out = S.out \o q.out
      /\ Q.c.FBBMsgsSent = (S.c.FBBMsgsSent \/ WantedOf(r, Len(H)) # {})
      /\ Sifted(q, H, r, Len(H), zero)
      /\ Own(Q.n, Q.c.FBBHeaders)
  BY <1>2, ResponseIs
<1>5. R = Q
  BY <1>1
<1> HIDE DEF Q, q
<1>6. q.out \in Seq(Items)
  BY <1>4 DEF Sifted
<1>7. R.out = q.out
  BY <1>4, <1>5, <1>6, NoneBefore
<1>8. MoreOf(S.n, R.n)
  BY <1>4, <1>5 DEF Later
<1> QED BY <1>3, <1>4, <1>5, <1>7, <1>8

\* The answer arrives, and what is wanted is sent.
LEMMA AnsweredTo ==
    ASSUME NEW S, NEW R, NEW b, NEW p, NEW i, NEW v, Held(S, R, b, p, i, v),
           NEW np, NEW d \in Streams, NEW u \in Seq(Items), Answered(S.n, np, S.c, d, u, v)
    PROVE  Live(R.n, np, R.c, d, u \o R.out, Tail(v))
<1>1. CASE i.t = "text"
  <2>1. Stage(S.n, np, S.c, d, u, v)
    BY DEF Stage
  <2>2. Stage(R.n, np, R.c, d, u \o R.out, Tail(v))
    BY <1>1, <2>1, TextToTurn
  <2> QED BY <2>2 DEF Live
<1>2. CASE i.t # "text"
  <2> DEFINE H == S.c.FBBHeaders
             r == i.x
             q == Kept(H, r)
  <2>1. /\ S \in Results /\ S.out = << >> /\ R = Handle(S, b, p, i) /\ b \in BBSs /\ p \in BBSs
        /\ v \in Seq(Items) /\ v # << >> /\ i \in Items /\ i.t = v[1].t
        /\ i.t # "data" => i = v[1]
    BY DEF Held, Arrives
  <2>2. /\ Own(S.n, H) /\ Waits(S.c) /\ ~S.c.FBBMsgsSent /\ Quiet(u)
        /\ d.FBBReplyChars = << >> /\ ~d.FBBMsgsSent /\ Receives(np, d)
    BY DEF Answered
  <2>3. PICK k \in DOMAIN v : /\ v[k].t = "FS" /\ Carries(v, << v[k] >>)
                              /\ AnswersOK(np, H, v[k].x) /\ Notes(d, H, v[k].x, Len(H))
    BY DEF Answered
  <2>4. v[1] = v[k] /\ Carries(Tail(v), << >>)
    <3> DEFINE core == << v[k] >>
    <3>1. core \in Seq(Items) /\ Carries(v, core) /\ core[1] = v[k] /\ Tail(core) = << >>
      <4>1. v[k] \in Items
        BY <2>1
      <4> QED BY <2>3, <4>1
    <3> HIDE DEF core
    <3>2. v[1] = core[1] /\ Carries(Tail(v), Tail(core))
      BY <1>2, <2>1, <3>1, CarriesHead
    <3> QED BY <3>1, <3>2
  <2>5. i = v[k] /\ i.t = "FS" /\ AnswersOK(np, H, r) /\ Notes(d, H, r, Len(H))
    BY <2>1, <2>3, <2>4
  <2>6. S.c.InputMode = "line" /\ S.c.FBBReplyChars = << >>
    BY <2>2 DEF Waits
  <2>7. /\ R \in Results /\ MoreOf(S.n, R.n) /\ Rest(S.c, R.c)
        /\ R.c.FBBReplyChars = S.c.FBBReplyChars
        /\ R.c.FBBHeaders = q.h /\ R.out = q.out
        /\ R.c.FBBMsgsSent = (S.c.FBBMsgsSent \/ WantedOf(r, Len(H)) # {})
        /\ Sifted(q, H, r, Len(H), FALSE)
        /\ Own(R.n, R.c.FBBHeaders)
    <3> DEFINE Q == Handle(S, b, p, i)
    <3>1. /\ Q \in Results /\ MoreOf(S.n, Q.n) /\ Rest(S.c, Q.c)
          /\ Q.c.FBBReplyChars = S.c.FBBReplyChars
          /\ Q.c.FBBHeaders = q.h /\ Q.out = q.out
          /\ Q.c.FBBMsgsSent = (S.c.FBBMsgsSent \/ WantedOf(r, Len(H)) # {})
          /\ Sifted(q, H, r, Len(H), FALSE)
          /\ Own(Q.n, Q.c.FBBHeaders)
      <4>1. /\ S \in Results /\ S.out = << >> /\ b \in BBSs /\ p \in BBSs
            /\ i \in Items /\ i.t = "FS" /\ S.c.InputMode = "line"
            /\ Own(S.n, S.c.FBBHeaders) /\ AnswersOK(np, S.c.FBBHeaders, i.x)
        BY <2>1, <2>2, <2>5, <2>6
      <4> QED BY <4>1, AnswerIs
    <3>2. R = Q
      BY <2>1
    <3> HIDE DEF Q, q, r, H
    <3> QED BY <3>1, <3>2
  <2>8. r \in Seq(Replies)
    BY <2>1, <2>5, ItemIs
  <2> HIDE DEF q, r
  <2>9. /\ q.h \in Seq(Headers) /\ q.out \in Seq(Items)
        /\ Len(q.h) = Cardinality(WantedOf(r, Len(H)))
        /\ \A j \in 1..Len(q.h) : \E l \in WantedOf(r, Len(H)) : q.h[j] = H[l]
        /\ \A j \in 1..Len(q.out) : q.out[j].t \in {"head", "data", "eom"}
        /\ \A w \in Seq(Items) : Quiet(w) => Load(w \o q.out, Len(q.h))
    BY <2>7 DEF Sifted
  <2>10. /\ Len(d.FBBHeaders) = Len(q.h) /\ d.FBBHeaders # << >>
         /\ \A l \in WantedOf(r, Len(H)) : \E j \in DOMAIN d.FBBHeaders :
               d.FBBHeaders[j].bid = H[l].bid
    BY <2>2, <2>5, <2>9 DEF Notes, Receives
  <2>11. R.c.FBBMsgsSent
    <3>1. d.FBBHeaders \in Seq(Headers)
      BY StreamIs
    <3>2. Len(d.FBBHeaders) # 0
      BY <2>10, <3>1
    <3>3. WantedOf(r, Len(H)) # {}
      BY <2>9, <2>10, <3>2, FS_EmptySet
    <3> QED BY <2>7, <3>3
  <2>12. Waits(R.c)
    BY <2>6, <2>7 DEF Rest, Waits
  <2>13. \A j \in DOMAIN (u \o R.out) : (u \o R.out)[j].t \in {"text", "head", "data", "eom"}
    <3>1. \A j \in 1..Len(u) : u[j].t = "text"
      BY <2>2, QuietIs, LinesAreItems
    <3>2. /\ u \o R.out \in Seq(Items) /\ Len(u) \in Nat
          /\ \A j \in 1..Len(u) : (u \o R.out)[j] = u[j]
          /\ \A j \in 1..Len(u \o R.out) : j > Len(u) => /\ j - Len(u) \in 1..Len(R.out)
                                                         /\ (u \o R.out)[j] = R.out[j - Len(u)]
      <4>1. R.out \in Seq(Items) /\ u \in Seq(Items)
        BY <2>7, <2>9
      <4> QED BY <4>1, ConcatIs
    <3>3. DOMAIN (u \o R.out) = 1..Len(u \o R.out)
      BY <3>2
    <3>4. ASSUME NEW j \in 1..Len(u \o R.out)
          PROVE  (u \o R.out)[j].t \in {"text", "head", "data", "eom"}
      <4>1. CASE j > Len(u)
        <5>1. R.out[j - Len(u)].t \in {"head", "data", "eom"}
          BY <2>7, <2>9, <3>2, <4>1
        <5> QED BY <3>2, <4>1, <5>1
      <4>2. CASE ~(j > Len(u))
        <5>1. j \in 1..Len(u)
          BY <3>2, <4>2
        <5> QED BY <3>1, <3>2, <5>1
      <4> QED BY <4>1, <4>2
    <3> QED BY <3>3, <3>4
  <2>14. \A j \in DOMAIN R.c.FBBHeaders : \E l \in DOMAIN d.FBBHeaders :
            d.FBBHeaders[l].bid = R.c.FBBHeaders[j].bid
    <3>1. DOMAIN q.h = 1..Len(q.h)
      BY <2>9
    <3>2. ASSUME NEW j \in 1..Len(q.h)
          PROVE  \E l \in DOMAIN d.FBBHeaders : d.FBBHeaders[l].bid = q.h[j].bid
      <4>1. PICK l \in WantedOf(r, Len(H)) : q.h[j] = H[l]
        BY <2>9
      <4>2. \E k2 \in DOMAIN d.FBBHeaders : d.FBBHeaders[k2].bid = H[l].bid
        BY <2>10
      <4> HIDE DEF H
      <4> QED BY <4>1, <4>2
    <3> QED BY <2>7, <3>1, <3>2
  <2>15. Load(u \o R.out, Len(d.FBBHeaders))
    BY <2>2, <2>7, <2>9, <2>10
  <2>16. Quiet(Tail(v))
    BY <2>4 DEF Quiet
  <2>17. Sending(R.n, np, R.c, d, u \o R.out, Tail(v))
    BY <2>2, <2>7, <2>11, <2>12, <2>13, <2>14, <2>15, <2>16 DEF Sending
  <2> QED BY <2>17 DEF Live, Stage
<1> QED BY <1>1, <1>2
\* What does not end the message that is received.
LEMMA SendingStirs ==
    ASSUME NEW S, NEW R, NEW b, NEW p, NEW i, NEW u, Held(S, R, b, p, i, u),
           NEW nb, NEW c \in Streams, NEW v \in Seq(Items), Sending(nb, S.n, c, S.c, u, v),
           i.t = "eom" => ~Healthy(S.c)
    PROVE  Sending(nb, R.n, c, R.c, Tail(u), v \o R.out)
<1>1. /\ S \in Results /\ S.out = << >> /\ R = Handle(S, b, p, i) /\ b \in BBSs /\ p \in BBSs
      /\ u \in Seq(Items) /\ u # << >> /\ i \in Items /\ i.t = u[1].t
  BY DEF Held, Arrives
<1>2. S.c \in Streams /\ S.c.InputMode \in {"line", "binary"}
  BY <1>1, ResultIs, StreamIs
<1>3. i.t \in {"text", "head", "data", "eom"}
  <2>1. 1 \in DOMAIN u
    BY <1>1
  <2> QED BY <1>1, <2>1 DEF Sending
<1>4. R \in Results /\ R.n = S.n /\ Still(S.c, R.c) /\ SomeText(R.out)
  <2> DEFINE Q == Handle(S, b, p, i)
  <2>1. \/ i.t \in {"text", "head", "data"}
        \/ i.t = "eom" /\ (S.c.InputMode = "line" \/ S.c.closing = "flush")
    BY <1>2, <1>3 DEF Healthy
  <2>2. Q \in Results /\ Q.n = S.n /\ Still(S.c, Q.c) /\ SomeText(Q.out)
    BY <1>1, <2>1, StirIs
  <2> QED BY <1>1, <2>2
<1>5. /\ Own(nb, c.FBBHeaders) /\ Waits(c) /\ c.FBBMsgsSent /\ Quiet(v)
      /\ \A k \in DOMAIN u : u[k].t \in {"text", "head", "data", "eom"}
      /\ S.c.FBBReplyChars = << >> /\ ~S.c.FBBMsgsSent
      /\ \A k \in DOMAIN c.FBBHeaders :
            \/ Has(S.n, c.FBBHeaders[k].bid)
            \/ \E j \in DOMAIN S.c.FBBHeaders : S.c.FBBHeaders[j].bid = c.FBBHeaders[k].bid
      /\ Healthy(S.c) => Receives(S.n, S.c) /\ Load(u, Len(S.c.FBBHeaders))
  BY DEF Sending
<1>6. Quiet(v \o R.out)
  <2>1. Like(v, v \o R.out)
    BY <1>4, LikePut
  <2> QED BY <1>5, <2>1, QuietLike
<1>7. \A k \in DOMAIN Tail(u) : Tail(u)[k].t \in {"text", "head", "data", "eom"}
  <2>1. /\ Tail(u) \in Seq(Items) /\ DOMAIN u = 1..Len(u)
        /\ \A k \in 1..Len(Tail(u)) : Tail(u)[k] = u[k + 1] /\ k + 1 \in 1..Len(u)
    BY <1>1, TailIs
  <2>2. DOMAIN Tail(u) = 1..Len(Tail(u))
    BY <2>1
  <2> QED BY <1>5, <2>1, <2>2
<1>8. Healthy(R.c) => Receives(R.n, R.c) /\ Load(Tail(u), Len(R.c.FBBHeaders))
  <2> SUFFICES ASSUME Healthy(R.c)
               PROVE  Receives(R.n, R.c) /\ Load(Tail(u), Len(R.c.FBBHeaders))
    OBVIOUS
  <2>1. Healthy(S.c) /\ R.c.FBBHeaders = S.c.FBBHeaders
    BY <1>4 DEF Still
  <2>2. Receives(S.n, S.c) /\ Load(u, Len(S.c.FBBHeaders)) /\ u[1].t # "eom"
    BY <1>1, <1>5, <2>1
  <2>3. Receives(R.n, R.c)
    BY <1>4, <2>2, ReceivesMore DEF MoreOf
  <2>4. Len(S.c.FBBHeaders) \in Nat
    BY <1>2, StreamIs
  <2>5. Load(Tail(u), Len(S.c.FBBHeaders))
    BY <1>1, <2>2, <2>4, LoadTail
  <2> QED BY <2>1, <2>3, <2>5
<1>9. /\ R.c.FBBHeaders = S.c.FBBHeaders /\ R.c.FBBReplyChars = << >> /\ ~R.c.FBBMsgsSent
      /\ R.n = S.n
  BY <1>4, <1>5 DEF Still
<1> QED BY <1>5, <1>6, <1>7, <1>8, <1>9 DEF Sending

\* The end of the message that is received.
LEMMA SendingEnds ==
    ASSUME net \in Networks,
           NEW S, NEW R, NEW b, NEW p, NEW i, NEW u, Held(S, R, b, p, i, u),
           NEW nb, NEW c \in Streams, NEW v \in Seq(Items), Sending(nb, S.n, c, S.c, u, v),
           i.t = "eom", Healthy(S.c), S.c.sumOK => S.c.TempMsg.whole \/ B1(b, p)
    PROVE  Live(nb, R.n, c, R.c, Tail(u), v \o R.out)
<1> DEFINE h == S.c.FBBHeaders
           z == Tail(u)
           y == v \o R.out
<1>1. /\ S \in Results /\ S.out = << >> /\ R = Handle(S, b, p, i) /\ b \in BBSs /\ p \in BBSs
      /\ u \in Seq(Items) /\ u # << >> /\ u[1].t = "eom"
  BY DEF Held, Arrives
<1>2. R = EndOfMessage(S, b, p)
  BY <1>1 DEF Handle, UnpackFBBBinary, Healthy
<1>3. /\ Own(nb, c.FBBHeaders) /\ Waits(c) /\ c.FBBMsgsSent /\ Quiet(v)
      /\ \A k \in DOMAIN u : u[k].t \in {"text", "head", "data", "eom"}
      /\ S.c.FBBReplyChars = << >> /\ ~S.c.FBBMsgsSent
      /\ \A k \in DOMAIN c.FBBHeaders :
            \/ Has(S.n, c.FBBHeaders[k].bid)
            \/ \E j \in DOMAIN h : h[j].bid = c.FBBHeaders[k].bid
      /\ Receives(S.n, S.c) /\ Load(u, Len(h))
  BY DEF Sending
<1>4. /\ S.c \in Streams /\ h \in Seq(Headers) /\ h # << >> /\ S.c.FBBMsgsSent = FALSE
      /\ Len(h) \in Nat
  BY <1>1, <1>3, ResultIs, StreamIs DEF Receives
<1>5. /\ Later(S.n, R.n, p, nb)
      /\ \/ /\ R \in Results /\ R.out = S.out \o << Text >>
            /\ R.c.closing = "flush"
            /\ R.c.Active = S.c.Active /\ R.c.FBBHeaders = S.c.FBBHeaders
            /\ R.c.FBBMsgsSent = S.c.FBBMsgsSent /\ R.c.FBBReplyChars = S.c.FBBReplyChars
            /\ R.c.TempMsg = S.c.TempMsg /\ R.c.sumOK = S.c.sumOK
         \/ /\ S.c.TempMsg.bid \in Messages => Has(R.n, S.c.TempMsg.bid)
            /\ S.c.TempMsg.whole
            /\ Onward(S, Tail(S.c.FBBHeaders), R)
  <2> DEFINE Q == EndOfMessage(S, b, p)
  <2>1. /\ Later(S.n, Q.n, p, nb)
        /\ \/ /\ Q \in Results /\ Q.out = S.out \o << Text >>
              /\ Q.c.closing = "flush"
              /\ Q.c.Active = S.c.Active /\ Q.c.FBBHeaders = S.c.FBBHeaders
              /\ Q.c.FBBMsgsSent = S.c.FBBMsgsSent /\ Q.c.FBBReplyChars = S.c.FBBReplyChars
              /\ Q.c.TempMsg = S.c.TempMsg /\ Q.c.sumOK = S.c.sumOK
           \/ /\ S.c.TempMsg.bid \in Messages => Has(Q.n, S.c.TempMsg.bid)
              /\ S.c.TempMsg.whole
              /\ Onward(S, Tail(S.c.FBBHeaders), Q)
    BY <1>1, <1>4, EndOfMessageIs
  <2>2. R = Q
    BY <1>2
  <2> HIDE DEF Q
  <2> QED BY <2>1, <2>2
<1>6. z \in Seq(Items) /\ \A k \in DOMAIN z : z[k].t \in {"text", "head", "data", "eom"}
  <2>1. /\ Tail(u) \in Seq(Items) /\ DOMAIN u = 1..Len(u)
        /\ \A k \in 1..Len(Tail(u)) : Tail(u)[k] = u[k + 1] /\ k + 1 \in 1..Len(u)
    BY <1>1, TailIs
  <2>2. DOMAIN Tail(u) = 1..Len(Tail(u))
    BY <2>1
  <2> QED BY <1>3, <2>1, <2>2
<1>7. \A m : Has(S.n, m) => Has(R.n, m)
  BY <1>5, MoreHas DEF Later
<1>8. << >> \o << Text >> = << Text >> /\ Like(v, v \o << Text >>)
  BY LinesAreItems, NoneBefore, LikeMore
<1> HIDE DEF z, y
<1>9. CASE /\ R \in Results /\ R.out = S.out \o << Text >>
           /\ R.c.closing = "flush"
           /\ R.c.Active = S.c.Active /\ R.c.FBBHeaders = S.c.FBBHeaders
           /\ R.c.FBBMsgsSent = S.c.FBBMsgsSent /\ R.c.FBBReplyChars = S.c.FBBReplyChars
           /\ R.c.TempMsg = S.c.TempMsg /\ R.c.sumOK = S.c.sumOK
  <2>1. Quiet(y)
    BY <1>1, <1>3, <1>8, <1>9, QuietLike DEF y
  <2>2. ~Healthy(R.c)
    BY <1>9 DEF Healthy
  <2>3. R.c.FBBHeaders = h /\ R.c.FBBReplyChars = << >> /\ ~R.c.FBBMsgsSent
    BY <1>3, <1>9
  <2> HIDE DEF h
  <2>4. Sending(nb, R.n, c, R.c, z, y)
    BY <1>3, <1>6, <1>7, <2>1, <2>2, <2>3 DEF Sending
  <2> QED BY <2>4 DEF Live, Stage, z, y
<1>10. CASE /\ S.c.TempMsg.bid \in Messages => Has(R.n, S.c.TempMsg.bid)
            /\ S.c.TempMsg.whole
            /\ Onward(S, Tail(S.c.FBBHeaders), R)
  <2> DEFINE g == Tail(h)
  <2>1. /\ g \in Seq(Headers) /\ Len(g) = Len(h) - 1
        /\ \A k \in 1..Len(g) : g[k] = h[k + 1] /\ k + 1 \in 1..Len(h)
    BY <1>4, TailIs
  <2>2. Load(z, Len(g))
    <3>1. Load(z, Len(h) - 1)
      BY <1>1, <1>3, <1>4, LoadEom DEF z
    <3> QED BY <2>1, <3>1
  <2>3. Has(R.n, h[1].bid)
    <3>1. h[1].bid \in Messages
      <4>1. h[1] \in Headers
        BY <1>4
      <4> QED BY <4>1 DEF Headers
    <3>2. CASE S.c.TempMsg.bid = h[1].bid
      BY <1>10, <3>1, <3>2
    <3>3. CASE S.c.TempMsg.bid = NoBid /\ Has(S.n, h[1].bid)
      BY <1>7, <3>3
    <3> QED BY <1>3, <3>2, <3>3 DEF Receives
  <2>4. \A k \in DOMAIN c.FBBHeaders :
           \/ Has(R.n, c.FBBHeaders[k].bid)
           \/ \E j \in DOMAIN g : g[j].bid = c.FBBHeaders[k].bid
    <3>1. DOMAIN h = 1..Len(h) /\ DOMAIN g = 1..Len(g)
      BY <1>4, <2>1
    <3>2. ASSUME NEW j \in 1..Len(h), j # 1
          PROVE  j - 1 \in 1..Len(g) /\ g[j - 1] = h[j]
      <4>1. j - 1 \in 1..Len(g) /\ (j - 1) + 1 = j
        BY <1>4, <2>1, <3>2
      <4> QED BY <2>1, <4>1
    <3> HIDE DEF g, h
    <3>3. ASSUME NEW k \in DOMAIN c.FBBHeaders
          PROVE  \/ Has(R.n, c.FBBHeaders[k].bid)
                 \/ \E j \in DOMAIN g : g[j].bid = c.FBBHeaders[k].bid
      <4>1. CASE Has(S.n, c.FBBHeaders[k].bid)
        BY <1>7, <4>1
      <4>2. CASE \E j \in DOMAIN h : h[j].bid = c.FBBHeaders[k].bid
        <5>1. PICK j \in DOMAIN h : h[j].bid = c.FBBHeaders[k].bid
          BY <4>2
        <5>2. CASE j = 1
          BY <2>3, <5>1, <5>2
        <5>3. CASE j # 1
          BY <3>1, <3>2, <5>1, <5>3
        <5> QED BY <5>2, <5>3
      <4> QED BY <1>3, <4>1, <4>2
    <3> QED BY <3>3
  <2>5. Onward(S, g, R)
    BY <1>10
  <2> HIDE DEF g
  <2>6. R \in Results /\ R.c.FBBReplyChars = << >> /\ ~R.c.FBBMsgsSent
    BY <1>3, <2>5 DEF Onward
  <2>7. CASE g # << >>
    <3>1. /\ R.c.FBBHeaders = g /\ Receives(R.n, R.c)
          /\ \E q : SomeText(q) /\ R.out = S.out \o q
      BY <2>5, <2>7 DEF Onward
    <3>2. PICK q : SomeText(q) /\ R.out = S.out \o q
      BY <3>1
    <3>3. R.out = q
      BY <1>1, <3>2, SomeTextIs, NoneBefore
    <3>4. Quiet(y)
      <4>1. Like(v, v \o q)
        BY <3>2, LikePut
      <4> QED BY <1>3, <3>3, <4>1, QuietLike DEF y
    <3>5. Sending(nb, R.n, c, R.c, z, y)
      BY <1>3, <1>6, <2>2, <2>4, <2>6, <3>1, <3>4 DEF Sending
    <3> QED BY <3>5 DEF Live, Stage, z, y
  <2>8. CASE g = << >>
    <3> DEFINE x == "FF"
               fs == << >>
    <3>1. /\ R.c.InputMode = "line" /\ Own(R.n, R.c.FBBHeaders)
          /\ R.out = S.out \o (IF R.c.FBBHeaders = << >> THEN << Line(x) >>
                               ELSE Ask(R.c.FBBHeaders, 0))
      BY <2>5, <2>8 DEF Onward
    <3>2. Quiet(z)
      <4>1. Len(g) = 0
        BY <2>8
      <4> QED BY <1>6, <2>2, <4>1, LoadNone
    <3>3. Settled(nb, R.n, c, fs)
      BY <1>3, <2>4, <2>8 DEF Settled
    <3>4. Waits(R.c) /\ R.c \in Streams
      BY <2>6, <3>1, ResultIs DEF Waits
    <3>5. y = v \o (fs \o (IF R.c.FBBHeaders = << >> THEN << Line(x) >>
                           ELSE Ask(R.c.FBBHeaders, 0)))
      BY <1>1, <3>1 DEF y
    <3>6. fs = << >> /\ x \in {"FF", "FQ"}
      OBVIOUS
    <3> HIDE DEF fs, x
    <3>7. Live(nb, R.n, c, R.c, z, y)
      BY <1>3, <1>6, <2>6, <3>1, <3>2, <3>3, <3>4, <3>5, <3>6, TurnBegins
    <3> QED BY <3>7 DEF z, y
  <2> QED BY <2>7, <2>8
<1> QED BY <1>5, <1>9, <1>10
\* What arrives from a quiet wire.
LEMMA QuietText ==
    ASSUME NEW S, NEW R, NEW b, NEW p, NEW i, NEW w, Held(S, R, b, p, i, w), Quiet(w)
    PROVE  i.t = "text"
<1>1. w \in Seq(Items) /\ w # << >> /\ i.t = w[1].t
  BY DEF Held, Arrives
<1>2. 1 \in 1..Len(w)
  BY <1>1
<1> QED BY <1>1, <1>2, QuietIs, LinesAreItems

\* The BBS whose turn it is handles an item.
LEMMA StageToTurn ==
    ASSUME NEW S, NEW R, NEW b, NEW p, NEW i, NEW v, Held(S, R, b, p, i, v),
           NEW np, NEW d \in Streams, NEW u \in Seq(Items), Stage(S.n, np, S.c, d, u, v)
    PROVE  Live(R.n, np, R.c, d, u \o R.out, Tail(v))
<1>1. CASE i.t = "text"
  BY <1>1, TextToTurn DEF Live
<1>2. CASE i.t # "text"
  <2>1. ~Quiet(v)
    BY <1>2, QuietText
  <2>2. Turn(S.n, np, S.c, d, u, v) \/ Answered(S.n, np, S.c, d, u, v)
    BY <2>1 DEF Stage, Proposed, Sending, Over
  <2> QED BY <2>2, TurnTo, AnsweredTo
<1> QED BY <1>1, <1>2

\* The other one handles an item.
LEMMA StageToOther ==
    ASSUME net \in Networks,
           NEW S, NEW R, NEW b, NEW p, NEW i, NEW u, Held(S, R, b, p, i, u),
           NEW nb, NEW c \in Streams, NEW v \in Seq(Items), Stage(nb, S.n, c, S.c, u, v),
           S.c.sumOK => S.c.TempMsg.whole \/ B1(b, p)
    PROVE  Live(nb, R.n, c, R.c, Tail(u), v \o R.out)
<1>1. CASE i.t = "text"
  BY <1>1, TextToOther DEF Live
<1>2. CASE i.t # "text"
  <2>1. ~Quiet(u)
    BY <1>2, QuietText
  <2>2. Proposed(nb, S.n, c, S.c, u, v) \/ Sending(nb, S.n, c, S.c, u, v)
    BY <2>1 DEF Stage, Turn, Answered, Over
  <2>3. CASE Proposed(nb, S.n, c, S.c, u, v)
    BY <2>3, ProposedTo
  <2>4. CASE Sending(nb, S.n, c, S.c, u, v) /\ i.t = "eom" /\ Healthy(S.c)
    BY <2>4, SendingEnds
  <2>5. CASE Sending(nb, S.n, c, S.c, u, v) /\ (i.t = "eom" => ~Healthy(S.c))
    BY <2>5, SendingStirs DEF Live, Stage
  <2> QED BY <2>2, <2>3, <2>4, <2>5
<1> QED BY <1>1, <1>2

\* A session goes on, whoever handles an item.
LEMMA LiveTo ==
    ASSUME net \in Networks,
           NEW S, NEW R, NEW b, NEW p, NEW i, NEW w, Held(S, R, b, p, i, w),
           NEW np, NEW d \in Streams, NEW u \in Seq(Items), Live(S.n, np, S.c, d, u, w),
           S.c.sumOK => S.c.TempMsg.whole \/ B1(b, p)
    PROVE  Live(R.n, np, R.c, d, u \o R.out, Tail(w))
<1>1. CASE Stage(S.n, np, S.c, d, u, w)
  BY <1>1, StageToTurn
<1>2. CASE Stage(np, S.n, d, S.c, w, u)
  <2>1. Live(np, R.n, d, R.c, Tail(w), u \o R.out)
    BY <1>2, StageToOther
  <2> QED BY <2>1 DEF Live
<1> QED BY <1>1, <1>2 DEF Live

(***************************************************************************)
(* A session: what each end awaits.                                        *)
(***************************************************************************)

\* On the wire w core is behind s lines of text.
At(w, core, s) ==
    /\ \A j \in 1..Len(core) : s + j \in 1..Len(w) /\ w[s + j] = core[j]
    /\ \A k \in 1..Len(w) : \/ w[k] = Text
                            \/ k - s \in 1..Len(core) /\ w[k] = core[k - s]
    /\ \A k \in 1..Len(w) : k <= s => w[k] = Text

\* What is carried is somewhere.
LEMMA CarriesAt ==
    ASSUME NEW w \in Seq(Items), NEW core \in Seq(Items), Carries(w, core)
    PROVE  \E s \in Nat : At(w, core, s)
<1>1. Len(w) \in Nat /\ Len(core) \in Nat
  OBVIOUS
<1>2. PICK s \in 0..(Len(w) - Len(core)) : \A i \in 1..Len(w) :
         w[i] = IF i > s /\ i <= s + Len(core) THEN core[i - s] ELSE Text
  BY DEF Carries
<1>3. ASSUME NEW j \in 1..Len(core)
      PROVE  s + j \in 1..Len(w) /\ w[s + j] = core[j]
  <2>1. s + j \in 1..Len(w) /\ s + j > s /\ s + j <= s + Len(core) /\ (s + j) - s = j
    BY <1>1, <1>2, <1>3
  <2> QED BY <1>2, <2>1
<1>4. ASSUME NEW k \in 1..Len(w)
      PROVE  \/ w[k] = Text
             \/ k - s \in 1..Len(core) /\ w[k] = core[k - s]
  <2>1. CASE k > s /\ k <= s + Len(core)
    <3>1. k - s \in 1..Len(core)
      BY <1>1, <1>2, <2>1
    <3> QED BY <1>2, <2>1, <3>1
  <2>2. CASE ~(k > s /\ k <= s + Len(core))
    BY <1>2, <2>2
  <2> QED BY <2>1, <2>2
<1>5. ASSUME NEW k \in 1..Len(w), k <= s
      PROVE  w[k] = Text
  BY <1>1, <1>2, <1>5
<1>6. s \in Nat
  BY <1>1, <1>2
<1>7. At(w, core, s)
  BY <1>3, <1>4, <1>5 DEF At
<1> QED BY <1>6, <1>7

\* The lines q begin with proposals, or end a turn.
Opens(q) == \A k \in 1..Len(q) :
               /\ q[k].t \in {"FA", "F>", "FF", "FQ"}
               /\ q[k].t = "F>" => \E j \in 1..Len(q) : j < k /\ q[j].t = "FA"

\* What a stream awaits that has nothing more to come than its answer and the
\* partner's proposals.
LEMMA SettledAwaits ==
    ASSUME NEW n, NEW np, NEW c, NEW v \in Seq(Items), NEW fs \in Seq(Items),
           NEW q \in Seq(Items), Opens(q),
           Settled(n, np, c, fs), Carries(v, fs \o q)
    PROVE  Awaits(n, np, c, v)
<1>1. /\ DOMAIN v = 1..Len(v) /\ Text.t = "text"
      /\ \A k \in 1..Len(q) : q[k].t \in {"FA", "F>", "FF", "FQ"}
  BY LinesAreItems DEF Opens
<1>2. CASE fs = << >>
  <2>1. Carries(v, q)
    BY <1>2, NoneBefore
  <2>0. PICK s \in Nat : At(v, q, s)
    BY <2>1, CarriesAt
  <2>2. /\ \A j \in 1..Len(q) : s + j \in 1..Len(v) /\ v[s + j] = q[j]
        /\ \A k \in 1..Len(v) : \/ v[k] = Text
                                \/ k - s \in 1..Len(q) /\ v[k] = q[k - s]
        /\ \A k \in 1..Len(v) : k <= s => v[k] = Text
    BY <2>0 DEF At
  <2>3. \A k \in 1..Len(v) : v[k].t \in {"text", "FA", "F>", "FF", "FQ"}
    BY <1>1, <2>2
  <2>4. ASSUME NEW k \in 1..Len(v), v[k].t = "F>"
        PROVE  \E i \in 1..Len(v) : i < k /\ v[i].t = "FA"
    <3>1. k - s \in 1..Len(q) /\ v[k] = q[k - s]
      BY <1>1, <2>2, <2>4
    <3>2. PICK j \in 1..Len(q) : j < k - s /\ q[j].t = "FA"
      BY <2>4, <3>1 DEF Opens
    <3>3. s + j \in 1..Len(v) /\ v[s + j] = q[j]
      BY <2>2
    <3>4. s + j < k
      BY <3>2
    <3> QED BY <3>2, <3>3, <3>4
  <2>5. /\ Waits(c)
        /\ c.FBBMsgsSent => /\ Own(n, c.FBBHeaders)
                            /\ \A i \in DOMAIN c.FBBHeaders : Has(np, c.FBBHeaders[i].bid)
        /\ ~c.FBBMsgsSent => c.FBBHeaders = << >>
    BY <1>2, SettledMarks
  <2>6. \A k \in DOMAIN v : v[k].t # "FS"
    BY <1>1, <2>3
  <2>7. c.FBBMsgsSent => /\ c.InputMode = "line" /\ Own(n, c.FBBHeaders)
                         /\ \A k \in DOMAIN v : v[k].t = "F>" =>
                               \E i \in DOMAIN v : i < k /\ v[i].t = "FA"
    BY <1>1, <2>4, <2>5 DEF Waits
  <2> QED BY <2>5, <2>6, <2>7 DEF Awaits
<1>3. CASE fs # << >>
  <2>1. /\ Len(fs) = 1 /\ fs[1].t = "FS" /\ ~c.FBBMsgsSent
        /\ AnswersOK(np, c.FBBHeaders, fs[1].x)
        /\ \A i \in DOMAIN fs[1].x : fs[1].x[i].reply \in Refused
        /\ c.InputMode = "line" /\ Own(n, c.FBBHeaders)
    BY <1>3 DEF Settled, Waits
  <2> DEFINE core == fs \o q
  <2>2. /\ core \in Seq(Items) /\ Len(core) = Len(q) + 1 /\ Len(q) \in Nat
        /\ core[1] = fs[1]
        /\ \A j \in 1..Len(core) : j > 1 => j - 1 \in 1..Len(q) /\ core[j] = q[j - 1]
    <3>1. /\ fs \o q \in Seq(Items) /\ Len(fs \o q) = Len(fs) + Len(q)
          /\ Len(fs) \in Nat /\ Len(q) \in Nat
          /\ \A i \in 1..Len(fs) : (fs \o q)[i] = fs[i] /\ i \in 1..Len(fs \o q)
          /\ \A i \in 1..Len(fs \o q) : i > Len(fs) => i - Len(fs) \in 1..Len(q)
                                                      /\ (fs \o q)[i] = q[i - Len(fs)]
      BY ConcatIs
    <3> QED BY <2>1, <3>1
  <2>3. Carries(v, core)
    OBVIOUS
  <2> HIDE DEF core
  <2>0. PICK s \in Nat : At(v, core, s)
    BY <2>2, <2>3, CarriesAt
  <2>4. /\ \A j \in 1..Len(core) : s + j \in 1..Len(v) /\ v[s + j] = core[j]
        /\ \A k \in 1..Len(v) : \/ v[k] = Text
                                \/ k - s \in 1..Len(core) /\ v[k] = core[k - s]
        /\ \A k \in 1..Len(v) : k <= s => v[k] = Text
    BY <2>0 DEF At
  <2>5. ASSUME NEW k \in 1..Len(v), k # s + 1
        PROVE  v[k].t # "FS"
    <3>1. CASE v[k] = Text
      BY <1>1, <3>1
    <3>2. CASE k - s \in 1..Len(core) /\ v[k] = core[k - s]
      <4>1. k - s > 1
        BY <2>2, <2>5, <3>2
      <4>2. (k - s) - 1 \in 1..Len(q) /\ v[k] = q[(k - s) - 1]
        BY <2>2, <3>2, <4>1
      <4> QED BY <1>1, <4>2
    <3> QED BY <2>4, <3>1, <3>2
  <2>6. s + 1 \in 1..Len(v) /\ v[s + 1] = fs[1]
    <3>1. 1 \in 1..Len(core)
      BY <2>2
    <3> QED BY <2>2, <2>4, <3>1
  <2>7. ASSUME NEW k \in DOMAIN v, v[k].t = "FS"
        PROVE  /\ ~c.FBBMsgsSent /\ c.InputMode = "line" /\ Own(n, c.FBBHeaders)
               /\ AnswersOK(np, c.FBBHeaders, v[k].x)
               /\ \A i \in DOMAIN v : (i < k => v[i] = Text) /\ (i > k => v[i].t # "FS")
               /\ \A i \in DOMAIN v[k].x : v[k].x[i].reply \in Refused
    <3>1. k = s + 1 /\ v[k] = fs[1]
      BY <1>1, <2>5, <2>6, <2>7
    <3>2. ASSUME NEW i \in 1..Len(v)
          PROVE  (i < k => v[i] = Text) /\ (i > k => v[i].t # "FS")
      <4>1. i < k => i <= s
        BY <3>1
      <4>2. i > k => i # s + 1
        BY <3>1
      <4> QED BY <2>4, <2>5, <4>1, <4>2
    <3> QED BY <1>1, <2>1, <3>1, <3>2
  <2> QED BY <2>1, <2>7 DEF Awaits
<1> QED BY <1>2, <1>3
\* On a quiet wire nothing is awaited.
LEMMA QuietAwaits ==
    ASSUME NEW n, NEW np, NEW c, ~c.FBBMsgsSent, NEW v \in Seq(Items), Quiet(v)
    PROVE  Awaits(n, np, c, v)
<1>1. \A k \in DOMAIN v : v[k].t = "text"
  BY QuietIs, LinesAreItems
<1> QED BY <1>1 DEF Awaits

\* A block of proposals ends after a proposal.
LEMMA AskOrder ==
    ASSUME NEW H \in Seq(Headers), H # << >>, NEW q, q = Ask(H, 0)
    PROVE  q \in Seq(Items) /\ Opens(q)
<1> DEFINE z == 0
<1>1. z \in 0..Len(H) /\ z < Len(H) /\ Len(H) \in Nat /\ q = Ask(H, z)
  OBVIOUS
<1>2. \A i \in 1..Len(q) : q[i].t \in {"FA", "F>"}
  BY AskTypes
<1> HIDE DEF z
<1>3. q \in Seq(Items) /\ Len(q) = Len(H) - z + 1
  BY <1>1, AskIs
<1>4. q[1] = Item("FA", H[z + 1].bid)
  BY <1>1, AskNext
<1>5. q[1].t = "FA" /\ 1 \in 1..Len(q)
  BY <1>1, <1>3, <1>4 DEF Item
<1>6. ASSUME NEW k \in 1..Len(q), q[k].t = "F>"
      PROVE  1 < k
  BY <1>3, <1>5, <1>6
<1> QED BY <1>2, <1>3, <1>5, <1>6 DEF Opens

\* What is still to come of a block is no answer.
LEMMA AskNoAnswer ==
    ASSUME NEW H \in Seq(Headers), NEW k \in 0..Len(H), NEW u \in Seq(Items),
           Carries(u, Ask(H, k))
    PROVE  \A j \in 1..Len(u) : u[j].t # "FS"
<1> DEFINE core == Ask(H, k)
<1>1. core \in Seq(Items) /\ Len(core) = Len(H) - k + 1 /\ Carries(u, core)
  BY AskIs
<1>2. \A j \in 1..Len(core) : core[j].t \in {"FA", "F>"}
  <2>1. ASSUME NEW j \in 1..Len(core)
        PROVE  core[j] = IF j <= Len(H) - k THEN Item("FA", H[k + j].bid) ELSE Line("F>")
    BY <1>1, <2>1 DEF Ask
  <2>2. \A x : Item("FA", x).t = "FA"
    BY DEF Item
  <2>3. Line("F>").t = "F>"
    BY DEF Line, Item
  <2> HIDE DEF core
  <2>4. ASSUME NEW j \in 1..Len(core)
        PROVE  core[j].t \in {"FA", "F>"}
    <3>1. CASE j <= Len(H) - k
      BY <2>1, <2>2, <3>1
    <3>2. CASE ~(j <= Len(H) - k)
      BY <2>1, <2>3, <3>2
    <3> QED BY <3>1, <3>2
  <2> QED BY <2>4
<1> HIDE DEF core
<1>3. PICK s \in Nat : At(u, core, s)
  BY <1>1, CarriesAt
<1>4. \A j \in 1..Len(u) : u[j] = Text \/ (j - s \in 1..Len(core) /\ u[j] = core[j - s])
  BY <1>3 DEF At
<1> QED BY <1>2, <1>4, LinesAreItems

\* Each end awaits what can come.
LEMMA StageAwaits ==
    ASSUME NEW nb, NEW np, NEW c \in Streams, NEW d \in Streams, NEW u \in Seq(Items),
           NEW v \in Seq(Items), Stage(nb, np, c, d, u, v)
    PROVE  Awaits(nb, np, c, v) /\ Awaits(np, nb, d, u)
<1>1. CASE Turn(nb, np, c, d, u, v)
  <2>1. PICK fs \in Fronts(v) : /\ Settled(nb, np, c, fs)
                                /\ \E x \in {"FF", "FQ"} : Carries(v, fs \o << Line(x) >>)
    BY <1>1 DEF Turn
  <2>2. PICK x \in {"FF", "FQ"} : Carries(v, fs \o << Line(x) >>)
    BY <2>1
  <2> DEFINE q == << Line(x) >>
  <2>3. /\ q \in Seq(Items) /\ Carries(v, fs \o q)
        /\ \A k \in 1..Len(q) : q[k].t \in {"FF", "FQ"}
    BY <2>2, LinesAreItems DEF Line, Item
  <2>4. fs \in Seq(Items)
    BY <2>1, FrontIs
  <2> HIDE DEF q
  <2>5. Awaits(nb, np, c, v)
    <3>1. Opens(q)
      BY <2>3 DEF Opens
    <3> QED BY <2>1, <2>3, <2>4, <3>1, SettledAwaits
  <2>6. Awaits(np, nb, d, u)
    BY <1>1, QuietAwaits DEF Turn, Free
  <2> QED BY <2>5, <2>6
<1>2. CASE Proposed(nb, np, c, d, u, v)
  <2> DEFINE H == c.FBBHeaders
  <2>1. Awaits(nb, np, c, v)
    BY <1>2, QuietAwaits DEF Proposed
  <2>2. H \in Seq(Headers) /\ H # << >>
    BY <1>2, StreamIs DEF Proposed
  <2>3. ASSUME NEW fs \in Fronts(u), Settled(np, nb, d, fs), Carries(u, fs \o Ask(H, 0))
        PROVE  Awaits(np, nb, d, u)
    <3> DEFINE q == Ask(H, 0)
    <3>1. q = Ask(H, 0) /\ Carries(u, fs \o q)
      BY <2>3
    <3> HIDE DEF q, H
    <3>2. q \in Seq(Items) /\ Opens(q)
      BY <2>2, <3>1, AskOrder
    <3>3. fs \in Seq(Items)
      BY <2>3, FrontIs
    <3> QED BY <2>3, <3>1, <3>2, <3>3, SettledAwaits
  <2>4. ASSUME NEW k \in 1..Len(H), Carries(u, Ask(H, k)), ~d.FBBMsgsSent
        PROVE  Awaits(np, nb, d, u)
    <3>1. k \in 0..Len(H)
      BY <2>2
    <3> HIDE DEF H
    <3>2. \A j \in 1..Len(u) : u[j].t # "FS"
      BY <2>2, <2>4, <3>1, AskNoAnswer
    <3>3. d.FBBMsgsSent = FALSE
      BY <2>4, StreamIs
    <3> QED BY <3>2, <3>3, AwaitsNone
  <2> QED BY <1>2, <2>1, <2>3, <2>4 DEF Proposed
<1>3. CASE Answered(nb, np, c, d, u, v)
  <2>1. Awaits(np, nb, d, u)
    BY <1>3, QuietAwaits DEF Answered
  <2>2. PICK k \in DOMAIN v : /\ v[k].t = "FS" /\ Carries(v, << v[k] >>)
                              /\ AnswersOK(np, c.FBBHeaders, v[k].x)
    BY <1>3 DEF Answered
  <2> DEFINE core == << v[k] >>
  <2>3. core \in Seq(Items) /\ Carries(v, core) /\ Len(core) = 1 /\ core[1] = v[k]
    <3>1. v[k] \in Items
      OBVIOUS
    <3> QED BY <2>2, <3>1
  <2> HIDE DEF core
  <2>4. PICK s \in Nat : At(v, core, s)
    BY <2>3, CarriesAt
  <2>5. \A j \in 1..Len(v) : j # s + 1 => v[j] = Text
    BY <2>3, <2>4 DEF At
  <2>6. DOMAIN v = 1..Len(v) /\ Text.t = "text"
    BY LinesAreItems
  <2>7. k = s + 1
    BY <2>2, <2>5, <2>6
  <2>8. Own(nb, c.FBBHeaders) /\ c.InputMode = "line" /\ ~c.FBBMsgsSent
    BY <1>3 DEF Answered, Waits
  <2>9. ASSUME NEW j \in DOMAIN v, j # k
        PROVE  v[j] = Text /\ v[j].t # "FS" /\ v[j].t \notin TurnLines \cup {"F>"}
    BY <2>5, <2>6, <2>7, <2>9 DEF TurnLines
  <2>10. ~\E j \in DOMAIN v : v[j].t \in TurnLines \cup {"F>"}
    BY <2>2, <2>9 DEF TurnLines
  <2>11. \A j \in DOMAIN v : (j < k => v[j] = Text) /\ (j > k => v[j].t # "FS")
    BY <2>6, <2>9
  <2>12. \A j \in DOMAIN v : v[j].t = "FS" => j = k
    BY <2>9
  <2>13. Awaits(nb, np, c, v)
    BY <2>2, <2>8, <2>10, <2>11, <2>12 DEF Awaits
  <2> QED BY <2>1, <2>13
<1>4. CASE Sending(nb, np, c, d, u, v)
  <2>1. \A k \in DOMAIN v : v[k].t = "text"
    BY <1>4, QuietIs, LinesAreItems DEF Sending
  <2>2. Awaits(nb, np, c, v)
    BY <1>4, <2>1 DEF Awaits, Sending, Waits, TurnLines
  <2>3. \A j \in 1..Len(u) : u[j].t # "FS"
    BY <1>4 DEF Sending
  <2>4. d.FBBMsgsSent = FALSE
    BY <1>4, StreamIs DEF Sending
  <2> QED BY <2>2, <2>3, <2>4, AwaitsNone
<1>5. CASE Over(nb, np, c, d, u, v)
  BY <1>5, QuietAwaits DEF Over, Free
<1> QED BY <1>1, <1>2, <1>3, <1>4, <1>5 DEF Stage

\* Whoever's turn it is.
LEMMA LiveAwaits ==
    ASSUME NEW nb, NEW np, NEW c \in Streams, NEW d \in Streams, NEW u \in Seq(Items),
           NEW v \in Seq(Items), Live(nb, np, c, d, u, v)
    PROVE  Awaits(nb, np, c, v) /\ Awaits(np, nb, d, u)
  BY StageAwaits DEF Live
(***************************************************************************)
(* What keeps a message whole: what is done to a stream and its wire.      *)
(***************************************************************************)

\* An item has been handled.
LEMMA ReceiverExact ==
    ASSUME NEW w \in Seq(Items), NEW i, Arrives(w, i), NEW c, NEW zero, NEW there,
           Exact(c, w, zero, there), NEW c2, Sane(c2, zero),
           Spoilt(c2) => i.t \in {"head", "data"}
    PROVE  Exact(c2, Tail(w), zero, there)
<1>1. w # << >> /\ i.t = w[1].t
  BY DEF Arrives
<1>2. Framed(w) /\ (there => Ended(w)) /\ (zero => Zero(w))
  BY DEF Exact
<1>3. /\ Tail(w) \in Seq(Items) /\ Len(Tail(w)) = Len(w) - 1 /\ Len(w) \in Nat /\ Len(w) >= 1
      /\ \A k \in 1..Len(Tail(w)) : Tail(w)[k] = w[k + 1] /\ k + 1 \in 1..Len(w)
  BY <1>1, TailIs
<1>4. Framed(Tail(w)) /\ (there => Ended(Tail(w))) /\ (zero => Zero(Tail(w)))
  BY <1>1, <1>2, SoundTail
<1>5. ASSUME Spoilt(c2), Tail(w) # << >>
      PROVE  Tail(w)[1].t \in {"data", "eom"}
  <2>1. Len(Tail(w)) # 0
    BY <1>3, <1>5
  <2>2. 1 \in 1..(Len(w) - 1) /\ 1 \in 1..Len(Tail(w))
    BY <1>3, <2>1
  <2>3. w[1 + 1].t \in {"data", "eom"}
    BY <1>1, <1>2, <1>5, <2>2 DEF Framed
  <2> QED BY <1>3, <2>2, <2>3
<1>6. ASSUME Spoilt(c2), there, Tail(w) = << >>
      PROVE  FALSE
  <2>0. Len(<< >>) = 0
    OBVIOUS
  <2>1. Len(w) = 1
    <3>1. Len(Tail(w)) = 0
      BY <1>6, <2>0
    <3> DEFINE n == Len(w)
               m == Len(Tail(w))
    <3>2. n \in Nat /\ m = n - 1 /\ m = 0
      BY <1>3, <3>1
    <3> HIDE DEF n, m
    <3>3. n = 1
      BY <3>2
    <3> QED BY <3>3 DEF n
  <2>2. w[Len(w)].t \notin {"head", "data"}
    BY <1>1, <1>2, <1>6 DEF Ended
  <2> QED BY <1>1, <1>6, <2>1, <2>2
<1> QED BY <1>4, <1>5, <1>6 DEF Exact

\* Something sound is sent.
LEMMA SenderExact ==
    ASSUME NEW u \in Seq(Items), NEW q \in Seq(Items), NEW c, NEW zero,
           Exact(c, u, zero, TRUE), Sound(q, zero)
    PROVE  Exact(c, u \o q, zero, TRUE)
<1>1. Framed(u) /\ Ended(u) /\ (zero => Zero(u)) /\ Sane(c, zero)
  BY DEF Exact
<1>2. Sound(u \o q, zero)
  BY <1>1, SoundPut
<1>3. ASSUME Spoilt(c)
      PROVE  u \o q # << >> /\ (u \o q)[1].t \in {"data", "eom"}
  <2>1. u # << >> /\ u[1].t \in {"data", "eom"}
    BY <1>3 DEF Exact
  <2>2. /\ Len(u \o q) = Len(u) + Len(q) /\ Len(u) \in Nat /\ Len(q) \in Nat
        /\ \A i \in 1..Len(u) : (u \o q)[i] = u[i]
    BY ConcatIs
  <2>3. 1 \in 1..Len(u)
    BY <2>1
  <2>4. (u \o q)[1] = u[1] /\ Len(u \o q) # 0
    BY <2>2, <2>3
  <2> QED BY <2>1, <2>4
<1> QED BY <1>1, <1>2, <1>3 DEF Exact, Sound

\* The other end has gone, and some of what it sent does not arrive.
LEMMA LeftExact ==
    ASSUME NEW w \in Seq(Items), NEW a \in 0..Len(w), NEW c, NEW zero, NEW there,
           Exact(c, w, zero, there)
    PROVE  Exact(c, SubSeq(w, 1, a), zero, FALSE)
<1> DEFINE v == SubSeq(w, 1, a)
<1>1. Framed(w) /\ (zero => Zero(w)) /\ Sane(c, zero)
  BY DEF Exact
<1>2. Framed(v) /\ (zero => Zero(v)) /\ v \in Seq(Items)
  BY <1>1, SoundPrefix
<1>3. ASSUME Spoilt(c), v # << >>
      PROVE  v[1].t \in {"data", "eom"}
  <2>1. Len(v) = a /\ \A i \in 1..a : v[i] = w[i]
    OBVIOUS
  <2>2. a # 0
    BY <1>2, <1>3, <2>1
  <2>3. 1 \in 1..a /\ w # << >>
    BY <2>2
  <2>4. w[1].t \in {"data", "eom"}
    BY <1>3, <2>3 DEF Exact
  <2> QED BY <2>1, <2>3, <2>4
<1> HIDE DEF v
<1>4. Exact(c, v, zero, FALSE)
  BY <1>1, <1>2, <1>3 DEF Exact
<1> QED BY <1>4 DEF v

\* An empty wire to a stream that receives no message.
LEMMA FreshExact ==
    ASSUME NEW c, c.InputMode = "line", c.TempMsg.whole, c.FBBReplyChars = << >>,
           NEW zero, NEW there
    PROVE  Exact(c, << >>, zero, there)
<1>1. Sane(c, zero)
  BY DEF Sane
<1>2. ~Spoilt(c)
  BY DEF Spoilt, Healthy
<1>3. Framed(<< >>) /\ Ended(<< >>) /\ Zero(<< >>)
  <2>1. Len(<< >>) = 0
    OBVIOUS
  <2> QED BY <2>1 DEF Framed, Ended, Zero
<1> QED BY <1>1, <1>2, <1>3 DEF Exact

(***************************************************************************)
(* Steps.                                                                  *)
(***************************************************************************)

\* Between b and p, and nowhere else, f and g may differ.
Only(f, g, b, p) ==
    \A q, r \in BBSs : (q = b /\ r = p) \/ (q = p /\ r = b) \/ g[q][r] = f[q][r]

\* What there is of each BBS for each other.
Maps(T) == [BBSs -> [BBSs -> T]]

\* g is x from b to p and y from p to b, and otherwise it is f.
Sided(g, f, T, b, p, x, y) == /\ g \in Maps(T) /\ Only(f, g, b, p)
                              /\ g[b][p] = x /\ g[p][b] = y

\* Both sides of a pair change.
Sides(f, b, p, x, y) == [f EXCEPT ![b][p] = x, ![p][b] = y]

\* Nothing else does.
LEMMA BothSides ==
    ASSUME NEW T, NEW f \in Maps(T), NEW b \in BBSs, NEW p \in BBSs, b # p,
           NEW x \in T, NEW y \in T
    PROVE  Sided(Sides(f, b, p, x, y), f, T, b, p, x, y)
<1> DEFINE g == Sides(f, b, p, x, y)
<1>1. g \in [BBSs -> [BBSs -> T]]
  BY DEF Sides, Maps
<1>2. g[b][p] = x /\ g[p][b] = y
  BY DEF Sides, Maps
<1>3. \A q, r \in BBSs : (q = b /\ r = p) \/ (q = p /\ r = b) \/ g[q][r] = f[q][r]
  BY DEF Sides, Maps
<1> HIDE DEF g
<1>4. Sided(g, f, T, b, p, x, y)
  BY <1>1, <1>2, <1>3 DEF Only, Sided, Maps
<1> QED BY <1>4 DEF g

\* What is marked as sent has been received, and everything is whole.
LEMMA KeepNodes ==
    ASSUME TypeOK, NoLoss, Whole, NEW b \in BBSs, NEW p \in BBSs, NEW n2 \in Nodes,
           bbs' = [bbs EXCEPT ![b] = n2], Later(bbs[b], n2, p, bbs[p])
    PROVE  /\ NoLoss' /\ Whole' /\ bbs' \in [BBSs -> Nodes]
           /\ \A q \in BBSs : MoreOf(bbs[q], bbs'[q])
<1>1. /\ bbs \in [BBSs -> Nodes] /\ bbs' \in [BBSs -> Nodes] /\ bbs'[b] = n2
      /\ \A q \in BBSs : q # b => bbs'[q] = bbs[q]
  BY DEF TypeOK
<1>2. \A q \in BBSs : MoreOf(bbs[q], bbs'[q])
  BY <1>1 DEF Later, MoreOf
<1>3. \A q \in BBSs : \A m : Has(bbs[q], m) => Has(bbs'[q], m)
  BY <1>2, MoreHas
<1>4. \A n, m : LookupBID(n, m) # {} <=> Has(n, m)
  BY DEF LookupBID, Has
<1>5. \A q, r \in BBSs : \A i \in DOMAIN bbs[q].MsgHddrPtr :
         r \in bbs[q].MsgHddrPtr[i].forw => Has(bbs[r], bbs[q].MsgHddrPtr[i].bid)
  BY <1>4 DEF NoLoss
<1>6. ASSUME NEW q \in BBSs, NEW r \in BBSs, NEW i \in DOMAIN bbs'[q].MsgHddrPtr,
             r \in bbs'[q].MsgHddrPtr[i].forw
      PROVE  Has(bbs'[r], bbs'[q].MsgHddrPtr[i].bid)
  <2>1. CASE q # b
    BY <1>1, <1>3, <1>5, <1>6, <2>1
  <2>2. CASE q = b
    <3>1. \/ i \in DOMAIN bbs[b].MsgHddrPtr /\ r \in bbs[b].MsgHddrPtr[i].forw
          \/ r = p /\ Has(bbs[p], n2.MsgHddrPtr[i].bid)
      BY <1>1, <1>6, <2>2 DEF Later
    <3>2. CASE i \in DOMAIN bbs[b].MsgHddrPtr /\ r \in bbs[b].MsgHddrPtr[i].forw
      <4>1. n2.MsgHddrPtr[i].bid = bbs[b].MsgHddrPtr[i].bid
        BY <3>2 DEF Later, MoreOf
      <4> QED BY <1>1, <1>3, <1>5, <2>2, <3>2, <4>1
    <3>3. CASE r = p /\ Has(bbs[p], n2.MsgHddrPtr[i].bid)
      BY <1>1, <1>3, <2>2, <3>3
    <3> QED BY <3>1, <3>2, <3>3
  <2> QED BY <2>1, <2>2
<1>7. NoLoss'
  BY <1>4, <1>6 DEF NoLoss
<1>8. ASSUME NEW q \in BBSs, NEW i \in DOMAIN bbs'[q].MsgHddrPtr
      PROVE  bbs'[q].MsgHddrPtr[i].whole
  <2>1. CASE q # b
    BY <1>1, <1>8, <2>1 DEF Whole
  <2>2. CASE q = b
    <3>1. \/ n2.MsgHddrPtr[i].whole
          \/ i \in DOMAIN bbs[b].MsgHddrPtr /\ ~bbs[b].MsgHddrPtr[i].whole
      BY <1>1, <1>8, <2>2 DEF Later
    <3> QED BY <1>1, <2>2, <3>1 DEF Whole
  <2> QED BY <2>1, <2>2
<1>9. Whole'
  BY <1>8 DEF Whole
<1> QED BY <1>1, <1>2, <1>7, <1>9
\* Two BBSs, their streams to each other and what is on the way between them.
Two(nb, np, c, d, u, v, zero) ==
    /\ (c.Active \/ c = Idle) /\ (d.Active \/ d = Idle)
    /\ c.Active => Awaits(nb, np, c, v)
    /\ d.Active => Awaits(np, nb, d, u)
    /\ c.Active /\ d.Active => Live(nb, np, c, d, u, v)
    /\ Exact(c, v, zero, d.Active) /\ Exact(d, u, zero, c.Active)

\* So it is for every two of them.
LEMMA TwoIs ==
    ASSUME IInv, NEW b \in BBSs, NEW p \in BBSs
    PROVE  Two(bbs[b], bbs[p], conn[b][p], conn[p][b], wire[b][p], wire[p][b], ~B1(b, p))
<1>1. /\ conn[b][p].Active \/ conn[b][p] = Idle
      /\ conn[b][p].Active => Awaits(bbs[b], bbs[p], conn[b][p], wire[p][b])
      /\ conn[b][p].Active /\ conn[p][b].Active =>
           Live(bbs[b], bbs[p], conn[b][p], conn[p][b], wire[b][p], wire[p][b])
  BY DEF IInv, Links, Pair
<1>2. /\ conn[p][b].Active \/ conn[p][b] = Idle
      /\ conn[p][b].Active => Awaits(bbs[p], bbs[b], conn[p][b], wire[b][p])
  BY DEF IInv, Links, Pair
<1>3. B1(p, b) = B1(b, p)
  <2>1. {p, b} = {b, p}
    OBVIOUS
  <2> QED BY <2>1 DEF B1
<1>4. Exact(conn[b][p], wire[p][b], ~B1(b, p), conn[p][b].Active)
  BY DEF IInv, Exactness
<1>5. Exact(conn[p][b], wire[b][p], ~B1(b, p), conn[b][p].Active)
  BY <1>3 DEF IInv, Exactness
<1> QED BY <1>1, <1>2, <1>4, <1>5 DEF Two

\* The BBSs get messages, and nothing else changes between two of them.
LEMMA TwoMore ==
    ASSUME NEW nb, NEW nb2, MoreOf(nb, nb2), NEW np, NEW np2, MoreOf(np, np2),
           NEW c \in Streams, NEW d \in Streams, NEW u \in Seq(Items), NEW v \in Seq(Items),
           NEW zero, Two(nb, np, c, d, u, v, zero)
    PROVE  Two(nb2, np2, c, d, u, v, zero)
<1>1. c.Active => Awaits(nb2, np2, c, v)
  <2>1. c.Active => Awaits(nb, np, c, v)
    BY DEF Two
  <2> QED BY <2>1, AwaitsMore
<1>2. d.Active => Awaits(np2, nb2, d, u)
  <2>1. d.Active => Awaits(np, nb, d, u)
    BY DEF Two
  <2> QED BY <2>1, AwaitsMore
<1>3. c.Active /\ d.Active => Live(nb2, np2, c, d, u, v)
  <2>1. Still(c, c) /\ Still(d, d)
    BY DEF Still
  <2>2. Like(u, u) /\ Like(v, v)
    BY LikeSame
  <2>3. Calm(nb, nb2, np, np2, c, c, d, d, u, u, v, v)
    BY <2>1, <2>2 DEF Calm
  <2>4. c.Active /\ d.Active => Live(nb, np, c, d, u, v)
    BY DEF Two
  <2> QED BY <2>3, <2>4, LiveCalm
<1>4. /\ (c.Active \/ c = Idle) /\ (d.Active \/ d = Idle)
      /\ Exact(c, v, zero, d.Active) /\ Exact(d, u, zero, c.Active)
  BY DEF Two
<1> QED BY <1>1, <1>2, <1>3, <1>4 DEF Two

\* If it is so for every two of them after a step, the invariant holds again.
LEMMA AllTwo ==
    ASSUME TypeOK', NoLoss', Whole', net' = net, \A b \in BBSs : conn'[b][b] = Idle,
           \A b, p \in BBSs : Two(bbs'[b], bbs'[p], conn'[b][p], conn'[p][b],
                                  wire'[b][p], wire'[p][b], ~B1(b, p))
    PROVE  IInv'
<1>1. \A q, r \in BBSs : B1(q, r)' = B1(q, r)
  BY DEF B1
<1>2. ASSUME NEW q \in BBSs, NEW r \in BBSs
      PROVE  Pair(q, r)' /\ Exact(conn[q][r], wire[r][q], ~B1(q, r), conn[r][q].Active)'
  <2>1. Two(bbs'[q], bbs'[r], conn'[q][r], conn'[r][q], wire'[q][r], wire'[r][q], ~B1(q, r))
    OBVIOUS
  <2>2. Pair(q, r)'
    BY <2>1 DEF Two, Pair
  <2>3. Exact(conn'[q][r], wire'[r][q], ~B1(q, r), conn'[r][q].Active)
    BY <2>1 DEF Two
  <2> QED BY <1>1, <2>2, <2>3
<1>3. Links'
  BY <1>2 DEF Links
<1>4. Exactness'
  BY <1>2 DEF Exactness
<1> QED BY <1>3, <1>4 DEF IInv

\* Something happens between b and p, and b is no longer the same.
LEMMA SessionKeeps ==
    ASSUME IInv, NEW b \in BBSs, NEW p \in BBSs, b # p, NEW n2 \in Nodes,
           NEW c2 \in Streams, NEW d2 \in Streams, NEW u2 \in Seq(Items), NEW v2 \in Seq(Items),
           net' = net, bbs' = [bbs EXCEPT ![b] = n2], Later(bbs[b], n2, p, bbs[p]),
           Sided(conn', conn, Streams, b, p, c2, d2),
           Sided(wire', wire, Seq(Items), b, p, u2, v2),
           Two(n2, bbs[p], c2, d2, u2, v2, ~B1(b, p))
    PROVE  IInv'
<1>1. /\ TypeOK /\ NoLoss /\ Whole
      /\ conn' \in [BBSs -> [BBSs -> Streams]] /\ wire' \in [BBSs -> [BBSs -> Seq(Items)]]
      /\ Only(conn, conn', b, p) /\ Only(wire, wire', b, p)
      /\ conn'[b][p] = c2 /\ conn'[p][b] = d2 /\ wire'[b][p] = u2 /\ wire'[p][b] = v2
  BY DEF IInv, Sided, Maps
<1>2. /\ NoLoss' /\ Whole' /\ bbs' \in [BBSs -> Nodes]
      /\ \A q \in BBSs : MoreOf(bbs[q], bbs'[q])
  BY <1>1, KeepNodes
<1>3. bbs'[b] = n2 /\ bbs'[p] = bbs[p]
  BY <1>1 DEF TypeOK
<1>4. TypeOK'
  BY <1>1, <1>2 DEF TypeOK
<1>6. \A q \in BBSs : conn'[q][q] = Idle
  <2>1. \A q \in BBSs : conn[q][q] = Idle
    BY DEF IInv, Links
  <2>2. ASSUME NEW q \in BBSs
        PROVE  conn'[q][q] = conn[q][q]
    <3>1. \A x, y \in BBSs : (x = b /\ y = p) \/ (x = p /\ y = b) \/ conn'[x][y] = conn[x][y]
      BY <1>1 DEF Only
    <3> QED BY <3>1
  <2> QED BY <2>1, <2>2
<1>7. ASSUME NEW q \in BBSs, NEW r \in BBSs, ~((q = b /\ r = p) \/ (q = p /\ r = b))
      PROVE  Two(bbs'[q], bbs'[r], conn'[q][r], conn'[r][q], wire'[q][r], wire'[r][q], ~B1(q, r))
  <2>1. /\ conn'[q][r] = conn[q][r] /\ conn'[r][q] = conn[r][q]
        /\ wire'[q][r] = wire[q][r] /\ wire'[r][q] = wire[r][q]
    BY <1>1, <1>7 DEF Only
  <2>2. Two(bbs[q], bbs[r], conn[q][r], conn[r][q], wire[q][r], wire[r][q], ~B1(q, r))
    BY TwoIs
  <2>3. /\ conn[q][r] \in Streams /\ conn[r][q] \in Streams
        /\ wire[q][r] \in Seq(Items) /\ wire[r][q] \in Seq(Items)
    BY <1>1 DEF TypeOK
  <2>4. MoreOf(bbs[q], bbs'[q]) /\ MoreOf(bbs[r], bbs'[r])
    BY <1>2
  <2>5. Two(bbs'[q], bbs'[r], conn[q][r], conn[r][q], wire[q][r], wire[r][q], ~B1(q, r))
    BY <2>2, <2>3, <2>4, TwoMore
  <2> QED BY <2>1, <2>5
<1>8. Two(bbs'[b], bbs'[p], conn'[b][p], conn'[p][b], wire'[b][p], wire'[p][b], ~B1(b, p))
  BY <1>1, <1>3
<1>9. Two(bbs'[p], bbs'[b], conn'[p][b], conn'[b][p], wire'[p][b], wire'[b][p], ~B1(p, b))
  <2>1. B1(p, b) = B1(b, p)
    <3>1. {p, b} = {b, p}
      OBVIOUS
    <3> QED BY <3>1 DEF B1
  <2> QED BY <1>8, <2>1 DEF Two, Live
<1>10. \A q, r \in BBSs :
          Two(bbs'[q], bbs'[r], conn'[q][r], conn'[r][q], wire'[q][r], wire'[r][q], ~B1(q, r))
  BY <1>7, <1>8, <1>9
<1> QED BY <1>2, <1>4, <1>6, <1>10, AllTwo
\* An item arrives and is handled.
LEMMA ReceiveTwo ==
    ASSUME net \in Networks,
           NEW S, NEW R, NEW b, NEW p, NEW i, NEW w, Held(S, R, b, p, i, w),
           NEW np, NEW d \in Streams, NEW u \in Seq(Items), S.c.Active,
           Two(S.n, np, S.c, d, u, w, ~B1(b, p)),
           NEW u2, d.Active => u2 = u \o R.out, ~d.Active => u2 = u
    PROVE  R \in Results /\ Later(S.n, R.n, p, np) /\ Two(R.n, np, R.c, d, u2, Tail(w), ~B1(b, p))
<1>1. /\ S \in Results /\ S.out = << >> /\ R = Handle(S, b, p, i) /\ b \in BBSs /\ p \in BBSs
      /\ w \in Seq(Items) /\ Arrives(w, i)
  BY DEF Held
<1>2. /\ S.c \in Streams /\ S.c.Active = TRUE /\ d.Active \in BOOLEAN
  BY <1>1, ResultIs, StreamIs
<1> DEFINE zero == ~B1(b, p)
           there == d.Active
<1>3. /\ Exact(S.c, w, zero, there) /\ Exact(d, u, zero, TRUE) /\ Awaits(S.n, np, S.c, w)
      /\ (d.Active \/ d = Idle)
      /\ there => Live(S.n, np, S.c, d, u, w)
  BY <1>2 DEF Two
<1>4. Arrived(S, R, p, np, zero, w, i)
  <2>1. Exact(S.c, w, ~B1(b, p), there)
    BY <1>3
  <2> HIDE DEF there
  <2>2. Arrived(S, Handle(S, b, p, i), p, np, ~B1(b, p), w, i)
    BY <1>1, <1>3, <2>1, HandleOK
  <2> QED BY <1>1, <2>2
<1>5. /\ R \in Results /\ Later(S.n, R.n, p, np) /\ R.c.Active = TRUE
      /\ Sane(R.c, zero) /\ Sound(R.out, zero)
      /\ Spoilt(R.c) => i.t \in {"head", "data"}
      /\ Awaits(R.n, np, R.c, Tail(w))
  BY <1>2, <1>4 DEF Arrived, Handled
<1>6. R.out \in Seq(Items) /\ R.c \in Streams /\ Tail(w) \in Seq(Items)
  <2>1. w # << >>
    BY <1>1 DEF Arrives
  <2> QED BY <1>1, <1>5, <2>1, ResultIs, TailIs
<1>7. Exact(R.c, Tail(w), zero, there)
  <2> HIDE DEF zero, there
  <2> QED BY <1>1, <1>3, <1>5, ReceiverExact
<1>8. Exact(d, u2, zero, TRUE)
  <2> HIDE DEF zero
  <2>1. Exact(d, u \o R.out, zero, TRUE)
    BY <1>3, <1>5, <1>6, SenderExact
  <2> QED BY <1>3, <2>1
<1>9. ASSUME d.Active
      PROVE  Live(R.n, np, R.c, d, u2, Tail(w)) /\ Awaits(np, R.n, d, u2)
  <2>1. S.c.sumOK => S.c.TempMsg.whole \/ B1(b, p)
    BY <1>3 DEF Exact, Sane
  <2>2. Live(S.n, np, S.c, d, u, w)
    BY <1>3, <1>9
  <2>3. Live(R.n, np, R.c, d, u \o R.out, Tail(w))
    BY <2>1, <2>2, LiveTo
  <2>4. u2 = u \o R.out /\ u2 \in Seq(Items)
    <3>1. u2 = u \o R.out
      BY <1>9
    <3>2. u \o R.out \in Seq(Items)
      BY <1>6
    <3> QED BY <3>1, <3>2
  <2>5. Live(R.n, np, R.c, d, u2, Tail(w))
    BY <2>3, <2>4
  <2> QED BY <1>6, <2>4, <2>5, LiveAwaits
<1> HIDE DEF zero, there
<1>10. Two(R.n, np, R.c, d, u2, Tail(w), zero)
  BY <1>3, <1>5, <1>7, <1>8, <1>9 DEF Two, there
<1> QED BY <1>5, <1>10 DEF zero

\* A session is opened.
LEMMA OpenTwo ==
    ASSUME NEW nb \in Nodes, NEW np, NEW p, NEW zero
    PROVE  LET e == [Idle EXCEPT !.Active = TRUE]
               R == FBBDoForward([n |-> nb, c |-> e, out |-> << >>], p, << Line("FF") >>)
           IN  /\ R \in Results /\ Later(nb, R.n, p, np) /\ e \in Streams
               /\ Two(R.n, np, R.c, e, R.out, << >>, zero)
<1> DEFINE e == [Idle EXCEPT !.Active = TRUE]
           S == [n |-> nb, c |-> e, out |-> << >>]
           x == "FF"
           f == << Line(x) >>
           R == FBBDoForward(S, p, f)
           q == IF R.c.FBBHeaders = << >> THEN << Line(x) >> ELSE Ask(R.c.FBBHeaders, 0)
           z == << >>
<1> SUFFICES /\ R \in Results /\ Later(nb, R.n, p, np) /\ e \in Streams
             /\ Two(R.n, np, R.c, e, R.out, z, zero)
  OBVIOUS
<1>1. /\ e \in Streams /\ e.Active = TRUE /\ e.FBBHeaders = << >> /\ e.FBBMsgsSent = FALSE
      /\ e.FBBReplyChars = << >> /\ e.InputMode = "line" /\ e.TempMsg.whole = TRUE
  <2>1. Idle \in Streams
    BY IdleIs
  <2>2. e \in Streams
    BY <2>1 DEF Streams
  <2>3. /\ Idle.FBBHeaders = << >> /\ Idle.FBBMsgsSent = FALSE /\ Idle.FBBReplyChars = << >>
        /\ Idle.InputMode = "line" /\ Idle.TempMsg.whole = TRUE
    BY DEF Idle, NoMsg
  <2>4. /\ e.Active = TRUE /\ e.FBBHeaders = Idle.FBBHeaders /\ e.FBBMsgsSent = Idle.FBBMsgsSent
        /\ e.FBBReplyChars = Idle.FBBReplyChars /\ e.InputMode = Idle.InputMode
        /\ e.TempMsg = Idle.TempMsg
    BY <2>1 DEF Streams
  <2> QED BY <2>2, <2>3, <2>4
<1>2. /\ S \in Results /\ S.n = nb /\ S.c = e /\ S.out = << >> /\ f \in Seq(Items)
      /\ z \in Seq(Items) /\ x \in {"FF", "FQ"} /\ z = << >>
  <2>1. f \in Seq(Items)
    BY LinesAreItems
  <2>2. S \in Results
    <3> HIDE DEF e
    <3> QED BY <1>1 DEF Results
  <2> QED BY <2>1, <2>2
<1> HIDE DEF e
<1>3. /\ R \in Results /\ Later(S.n, R.n, p, np)
      /\ Rest(S.c, R.c) /\ R.c.FBBReplyChars = S.c.FBBReplyChars
      /\ R.c.FBBMsgsSent = S.c.FBBMsgsSent /\ Own(R.n, R.c.FBBHeaders)
      /\ R.out = S.out \o (IF R.c.FBBHeaders = << >> THEN f ELSE Ask(R.c.FBBHeaders, 0))
  <2> HIDE DEF S, f
  <2> QED BY <1>2, DoForwardIs
<1>4. R.out = S.out \o q
  BY <1>3
<1> HIDE DEF R, S
<1>5. /\ R.c.Active = TRUE /\ R.c.InputMode = "line" /\ R.c.FBBReplyChars = << >>
      /\ R.c.FBBMsgsSent = FALSE /\ R.c.TempMsg.whole = TRUE /\ R.c \in Streams
  BY <1>1, <1>2, <1>3, ResultIs DEF Rest
<1>6. q \in Seq(Items) /\ Sound(q, zero) /\ R.out = q
  <2> DEFINE H == R.c.FBBHeaders
  <2>1. H \in Seq(Headers)
    BY <1>5, StreamIs
  <2>2. x \in {"FF", "FQ"}
    OBVIOUS
  <2> HIDE DEF H, x
  <2>3. LET g == IF H = << >> THEN << Line(x) >> ELSE Ask(H, 0) IN
        g \in Seq(Items) /\ Sound(g, zero)
    BY <2>1, <2>2, TurnSound
  <2>4. q \in Seq(Items) /\ Sound(q, zero)
    BY <2>3 DEF H
  <2> HIDE DEF q
  <2> QED BY <1>2, <1>4, <2>4, NoneBefore
<1>7. Live(np, R.n, e, R.c, z, R.out)
  <2> DEFINE y == R.out
             n == R.n
             c == R.c
  <2>1. Quiet(z)
    <3>1. z \in Seq(Items) /\ Len(z) = 0
      BY <1>2
    <3> HIDE DEF z
    <3>2. \A j \in 1..Len(z) : z[j] = Text
      BY <3>1
    <3> QED BY <3>1, <3>2, QuietIs
  <2>2. Waits(c) /\ Settled(np, n, e, z)
    <3>1. Waits(R.c) /\ Free(e)
      BY <1>1, <1>5 DEF Waits, Free
    <3> QED BY <1>2, <3>1, FreeIsSettled
  <2>3. y = z \o (z \o q)
    BY <1>2, <1>6, NoneBefore
  <2>4. z = << >> \/ \E r \in Seq(Replies) : z = << Item("FS", r) >>
    OBVIOUS
  <2>5. y = z \o (z \o (IF c.FBBHeaders = << >> THEN << Line(x) >> ELSE Ask(c.FBBHeaders, 0)))
    BY <2>3
  <2>6. /\ c \in Streams /\ z \in Seq(Items) /\ x \in {"FF", "FQ"}
        /\ ~c.FBBMsgsSent /\ Own(n, c.FBBHeaders)
    BY <1>2, <1>3, <1>5
  <2> HIDE DEF z, x, q, y, n, c
  <2>7. Live(np, n, e, c, z, y)
    BY <2>1, <2>2, <2>4, <2>5, <2>6, TurnBegins
  <2> QED BY <2>7 DEF y, n, c
<1>8. Awaits(R.n, np, R.c, z) /\ Awaits(np, R.n, e, R.out)
  <2> HIDE DEF z
  <2> QED BY <1>1, <1>2, <1>5, <1>6, <1>7, LiveAwaits
<1>9. Exact(R.c, z, zero, e.Active)
  BY <1>5, FreshExact
<1>10. Exact(e, R.out, zero, R.c.Active)
  <2> DEFINE y == TRUE
  <2>1. Exact(e, << >>, zero, y)
    BY <1>1, FreshExact
  <2>2. Exact(e, << >> \o q, zero, TRUE)
    <3> HIDE DEF q
    <3> QED BY <1>2, <1>6, <2>1, SenderExact
  <2> HIDE DEF q
  <2> QED BY <1>5, <1>6, <2>2, NoneBefore
<1> HIDE DEF z
<1>11. Two(R.n, np, R.c, e, R.out, z, zero)
  BY <1>1, <1>5, <1>7, <1>8, <1>9, <1>10 DEF Two, Live
<1> QED BY <1>1, <1>2, <1>3, <1>11

\* One end goes.
LEMMA EndTwo ==
    ASSUME NEW nb, NEW n2, n2.MsgHddrPtr = nb.MsgHddrPtr, NEW np, NEW c, NEW d,
           NEW u \in Seq(Items), NEW v \in Seq(Items), NEW a \in 0..Len(u), NEW zero,
           Two(nb, np, c, d, u, v, zero)
    PROVE  Two(n2, np, Idle, d, SubSeq(u, 1, a), << >>, zero)
<1>1. Idle.Active = FALSE
  BY DEF Idle
<1>2. Exact(Idle, << >>, zero, d.Active)
  <2>1. Idle.InputMode = "line" /\ Idle.TempMsg.whole /\ Idle.FBBReplyChars = << >>
    BY DEF Idle, NoMsg
  <2> QED BY <2>1, FreshExact
<1>3. Exact(d, SubSeq(u, 1, a), zero, FALSE)
  <2> DEFINE there == c.Active
  <2>1. Exact(d, u, zero, there)
    BY DEF Two
  <2> HIDE DEF there
  <2> QED BY <2>1, LeftExact
<1>4. d.Active => Awaits(np, n2, d, SubSeq(u, 1, a))
  <2> SUFFICES ASSUME d.Active
               PROVE  Awaits(np, n2, d, SubSeq(u, 1, a))
    OBVIOUS
  <2>1. Awaits(np, nb, d, u)
    BY DEF Two
  <2>2. Awaits(np, nb, d, SubSeq(u, 1, a))
    BY <2>1, AwaitsPrefix
  <2>3. MoreOf(nb, n2) /\ MoreOf(np, np)
    BY DEF MoreOf
  <2> QED BY <2>2, <2>3, AwaitsMore
<1>5. d.Active \/ d = Idle
  BY DEF Two
<1> QED BY <1>1, <1>2, <1>3, <1>4, <1>5 DEF Two
\* A session is opened.
LEMMA OpenKeeps ==
    ASSUME IInv, NEW b \in BBSs, NEW p \in BBSs, Open(b, p)
    PROVE  IInv'
<1> DEFINE e == [Idle EXCEPT !.Active = TRUE]
           R == FBBDoForward([n |-> bbs[b], c |-> e, out |-> << >>], p, << Line("FF") >>)
           z == << >>
<1>1. /\ net' = net /\ bbs' = [bbs EXCEPT ![b] = R.n]
      /\ conn' = [conn EXCEPT ![b][p] = R.c, ![p][b] = e]
      /\ wire' = [wire EXCEPT ![b][p] = R.out, ![p][b] = z]
      /\ << b, p >> \in net.calls
  BY DEF Open, Answers, CanOpen
<1>2. TypeOK /\ net \in Networks /\ bbs[b] \in Nodes
  BY DEF IInv, TypeOK
<1>3. b # p
  <2>1. net.calls \in SUBSET {l \in BBSs \X BBSs : l[1] # l[2]}
    BY <1>2, NetworkAssumption
  <2> QED BY <1>1, <2>1
<1>4. /\ R \in Results /\ Later(bbs[b], R.n, p, bbs[p]) /\ e \in Streams
      /\ Two(R.n, bbs[p], R.c, e, R.out, z, ~B1(b, p))
  <2> DEFINE zero == ~B1(b, p)
             nb == bbs[b]
             np == bbs[p]
             Q == FBBDoForward([n |-> nb, c |-> [Idle EXCEPT !.Active = TRUE], out |-> << >>],
                               p, << Line("FF") >>)
  <2>1. nb \in Nodes
    BY <1>2
  <2> HIDE DEF zero, nb, np
  <2>2. /\ Q \in Results /\ Later(nb, Q.n, p, np) /\ [Idle EXCEPT !.Active = TRUE] \in Streams
        /\ Two(Q.n, np, Q.c, [Idle EXCEPT !.Active = TRUE], Q.out, << >>, zero)
    BY <2>1, OpenTwo
  <2>3. R = Q
    BY DEF nb
  <2> HIDE DEF Q, R
  <2> QED BY <2>2, <2>3 DEF zero, nb, np
<1> HIDE DEF R, e
<1>5. R.n \in Nodes /\ R.c \in Streams /\ R.out \in Seq(Items) /\ z \in Seq(Items)
  BY <1>4, ResultIs
<1> HIDE DEF z
<1>6. Sided(conn', conn, Streams, b, p, R.c, e)
  <2>1. conn \in Maps(Streams)
    BY <1>2 DEF TypeOK, Maps
  <2>2. R.c \in Streams /\ e \in Streams /\ conn' = Sides(conn, b, p, R.c, e)
    BY <1>1, <1>4, <1>5 DEF Sides
  <2> QED BY <1>3, <2>1, <2>2, BothSides
<1>7. Sided(wire', wire, Seq(Items), b, p, R.out, z)
  <2>1. wire \in Maps(Seq(Items))
    BY <1>2 DEF TypeOK, Maps
  <2>2. wire' = Sides(wire, b, p, R.out, z)
    BY <1>1 DEF Sides
  <2> QED BY <1>3, <1>5, <2>1, <2>2, BothSides
<1> QED BY <1>1, <1>3, <1>4, <1>5, <1>6, <1>7, SessionKeeps

\* An item arrives.
LEMMA ReceiveKeeps ==
    ASSUME IInv, NEW b \in BBSs, NEW p \in BBSs, DoReceivedData(b, p)
    PROVE  IInv'
<1> DEFINE w == wire[p][b]
           u == wire[b][p]
           c == conn[b][p]
           d == conn[p][b]
<1>1. /\ TypeOK /\ net \in Networks /\ bbs[b] \in Nodes /\ c \in Streams /\ d \in Streams
      /\ w \in Seq(Items) /\ u \in Seq(Items)
  BY DEF IInv, TypeOK
<1>2. c.Active /\ w # << >> /\ net' = net
  BY DEF DoReceivedData, CanReceive
<1>3. b # p
  <2>1. conn[b][b] = Idle /\ Idle.Active = FALSE
    BY DEF IInv, Links, Idle
  <2> QED BY <1>2, <2>1
<1>4. PICK damaged \in BOOLEAN :
         /\ damaged => Head(w).t = "data"
         /\ Leaves(b, p,
                   Handle([n |-> bbs[b], c |-> conn[b][p], out |-> << >>], b, p,
                          IF damaged THEN [Head(w) EXCEPT !.x = FALSE] ELSE Head(w)),
                   [wire EXCEPT ![p][b] = Tail(@)])
  BY DEF DoReceivedData
<1> DEFINE i == IF damaged THEN [Head(w) EXCEPT !.x = FALSE] ELSE Head(w)
           S == [n |-> bbs[b], c |-> conn[b][p], out |-> << >>]
           R == Handle(S, b, p, i)
           u2 == IF d.Active THEN u \o R.out ELSE u
<1>5. Arrives(w, i)
  <2>1. Head(w) = w[1] /\ Head(w) \in Items
    BY <1>1, <1>2, TailIs
  <2> DEFINE h == Head(w)
  <2> HIDE DEF h
  <2>2. CASE damaged
    <3>1. h.t = "data" /\ h \in Items
      BY <1>4, <2>1, <2>2 DEF h
    <3>2. h \in [t : {"data"}, x : BOOLEAN]
      BY <3>1 DEF Items
    <3>3. [h EXCEPT !.x = FALSE] \in [t : {"data"}, x : BOOLEAN]
      BY <3>2
    <3>4. i = [h EXCEPT !.x = FALSE]
      BY <2>2 DEF h
    <3>5. i \in Items /\ i.t = "data"
      <4> HIDE DEF i
      <4> QED BY <3>3, <3>4 DEF Items
    <3>6. w[1].t = "data"
      BY <2>1, <3>1 DEF h
    <3> HIDE DEF i, w
    <3> QED BY <1>2, <3>5, <3>6 DEF Arrives
  <2>3. CASE ~damaged
    BY <1>2, <2>1, <2>3 DEF Arrives
  <2> QED BY <2>2, <2>3
<1> HIDE DEF i
<1>6. /\ S \in Results /\ S.out = << >> /\ S.n = bbs[b] /\ S.c = c
  <2> HIDE DEF c
  <2>1. S = [n |-> bbs[b], c |-> c, out |-> << >>]
    BY DEF c
  <2> QED BY <1>1, <2>1 DEF Results
<1>7. /\ bbs' = [bbs EXCEPT ![b] = R.n] /\ conn' = [conn EXCEPT ![b][p] = R.c]
      /\ wire' = IF d.Active
                 THEN [[wire EXCEPT ![p][b] = Tail(@)] EXCEPT ![b][p] = @ \o R.out]
                 ELSE [wire EXCEPT ![p][b] = Tail(@)]
  <2>1. Leaves(b, p, R, [wire EXCEPT ![p][b] = Tail(@)])
    BY <1>4 DEF i
  <2> HIDE DEF R
  <2> QED BY <2>1 DEF Leaves, Goes
<1>8. Held(S, R, b, p, i, w)
  <2>1. R = Handle(S, b, p, i)
    OBVIOUS
  <2> HIDE DEF R, S
  <2> QED BY <1>1, <1>5, <1>6, <2>1 DEF Held
<1> HIDE DEF R, S
<1>9. Two(bbs[b], bbs[p], c, d, u, w, ~B1(b, p))
  BY TwoIs
<1>10. u2 = IF d.Active THEN u \o R.out ELSE u
  OBVIOUS
<1> HIDE DEF u2, c, d, u, w
<1>11. /\ R \in Results /\ Later(bbs[b], R.n, p, bbs[p])
       /\ Two(R.n, bbs[p], R.c, d, u2, Tail(w), ~B1(b, p))
  <2> DEFINE np == bbs[p]
  <2>1. /\ net \in Networks /\ Held(S, R, b, p, i, w) /\ d \in Streams /\ u \in Seq(Items)
        /\ S.c.Active /\ Two(S.n, np, S.c, d, u, w, ~B1(b, p))
    BY <1>1, <1>2, <1>6, <1>8, <1>9
  <2> HIDE DEF np
  <2>2. R \in Results /\ Later(S.n, R.n, p, np) /\ Two(R.n, np, R.c, d, u2, Tail(w), ~B1(b, p))
    <3> DEFINE v == u2
    <3>1. (d.Active => v = u \o R.out) /\ (~d.Active => v = u)
      BY <1>10
    <3> HIDE DEF v
    <3>2. R \in Results /\ Later(S.n, R.n, p, np) /\ Two(R.n, np, R.c, d, v, Tail(w), ~B1(b, p))
      BY <2>1, <3>1, ReceiveTwo
    <3> QED BY <3>2 DEF v
  <2> QED BY <1>6, <2>2 DEF np
<1>12. /\ R.n \in Nodes /\ R.c \in Streams /\ R.out \in Seq(Items)
       /\ Tail(w) \in Seq(Items) /\ u2 \in Seq(Items)
  <2>1. R.n \in Nodes /\ R.c \in Streams /\ R.out \in Seq(Items)
    BY <1>11, ResultIs
  <2>2. Tail(w) \in Seq(Items)
    BY <1>1, <1>2, TailIs
  <2>3. u \o R.out \in Seq(Items)
    BY <1>1, <2>1
  <2> QED BY <1>1, <2>1, <2>2, <2>3 DEF u2
<1>13. Sided(conn', conn, Streams, b, p, R.c, d)
  <2>1. conn \in Maps(Streams)
    BY <1>1 DEF TypeOK, Maps
  <2>2. conn' = Sides(conn, b, p, R.c, d)
    BY <1>3, <1>7, <1>12, <2>1 DEF d, Sides, Maps
  <2> QED BY <1>1, <1>3, <1>12, <2>1, <2>2, BothSides
<1>14. Sided(wire', wire, Seq(Items), b, p, u2, Tail(w))
  <2>1. wire \in [BBSs -> [BBSs -> Seq(Items)]]
    BY <1>1 DEF TypeOK
  <2>2. wire' = [wire EXCEPT ![b][p] = u2, ![p][b] = Tail(w)]
    <3>1. CASE d.Active
      <4>1. wire' = [[wire EXCEPT ![p][b] = Tail(@)] EXCEPT ![b][p] = @ \o R.out]
        BY <1>7, <3>1
      <4> DEFINE g == [wire EXCEPT ![p][b] = Tail(wire[p][b])]
      <4>2. g = [wire EXCEPT ![p][b] = Tail(@)]
        BY <2>1
      <4>3. g[b][p] = u
        BY <1>3, <2>1 DEF u
      <4>4. wire' = [g EXCEPT ![b][p] = u \o R.out]
        BY <4>1, <4>2, <4>3
      <4>5. u2 = u \o R.out
        BY <3>1 DEF u2
      <4>6. wire' = [g EXCEPT ![b][p] = u2]
        BY <4>4, <4>5
      <4> QED BY <1>3, <2>1, <4>6 DEF w
    <3>2. CASE ~d.Active
      <4>1. wire' = [wire EXCEPT ![p][b] = Tail(wire[p][b])] /\ u2 = wire[b][p]
        BY <1>7, <3>2 DEF u2, u
      <4> QED BY <1>3, <2>1, <4>1 DEF w
    <3> QED BY <3>1, <3>2
  <2>3. wire' = Sides(wire, b, p, u2, Tail(w)) /\ wire \in Maps(Seq(Items))
    BY <2>1, <2>2 DEF Sides, Maps
  <2> QED BY <1>3, <1>12, <2>3, BothSides
<1> QED BY <1>1, <1>2, <1>3, <1>7, <1>11, <1>12, <1>13, <1>14, SessionKeeps

\* One end of a session goes.
LEMMA EndsKeeps ==
    ASSUME IInv, NEW b \in BBSs, NEW p \in BBSs, conn[b][p].Active,
           NEW a \in 0..Len(wire[b][p]), Ends(b, p, a)
    PROVE  IInv'
<1> DEFINE w == wire[p][b]
           u == wire[b][p]
           d == conn[p][b]
           n2 == Disconnected(bbs[b], conn[b][p], b, p)
           u2 == SubSeq(u, 1, a)
           z == << >>
<1>1. /\ TypeOK /\ bbs[b] \in Nodes /\ conn[b][p] \in Streams /\ d \in Streams
      /\ w \in Seq(Items) /\ u \in Seq(Items)
  BY DEF IInv, TypeOK
<1>2. b # p
  <2>1. conn[b][b] = Idle /\ Idle.Active = FALSE
    BY DEF IInv, Links, Idle
  <2> QED BY <2>1
<1>3. /\ net' = net /\ bbs' = [bbs EXCEPT ![b] = n2] /\ conn' = [conn EXCEPT ![b][p] = Idle]
      /\ wire' = [wire EXCEPT ![p][b] = << >>, ![b][p] = SubSeq(@, 1, a)]
  BY DEF Ends
<1>4. n2 \in Nodes /\ n2.MsgHddrPtr = bbs[b].MsgHddrPtr
  <2> DEFINE n == bbs[b]
             c == conn[b][p]
  <2>1. n \in Nodes /\ c \in Streams
    BY <1>1
  <2> HIDE DEF n, c
  <2>2. Disconnected(n, c, b, p) \in Nodes /\ Disconnected(n, c, b, p).MsgHddrPtr = n.MsgHddrPtr
    BY <2>1, DisconnectedIs
  <2> QED BY <2>2 DEF n, c
<1> HIDE DEF n2
<1>5. Later(bbs[b], n2, p, bbs[p])
  BY <1>4, LaterSame
<1>6. Two(n2, bbs[p], Idle, d, u2, z, ~B1(b, p))
  <2> DEFINE nb == bbs[b]
             np == bbs[p]
             c == conn[b][p]
             zero == ~B1(b, p)
  <2>1. /\ Two(nb, np, c, d, u, w, zero) /\ n2.MsgHddrPtr = nb.MsgHddrPtr
        /\ u \in Seq(Items) /\ w \in Seq(Items) /\ a \in 0..Len(u)
    BY <1>1, <1>4, TwoIs
  <2> HIDE DEF nb, np, c, d, u, w, zero
  <2>2. Two(n2, np, Idle, d, SubSeq(u, 1, a), << >>, zero)
    BY <2>1, EndTwo
  <2> QED BY <2>2 DEF np, zero
<1>7. u2 \in Seq(Items) /\ z \in Seq(Items) /\ Idle \in Streams
  <2>1. a \in 0..Len(u)
    OBVIOUS
  <2> HIDE DEF u
  <2> QED BY <1>1, <2>1, SoundPrefix, IdleIs
<1>8. Sided(conn', conn, Streams, b, p, Idle, d)
  <2>1. conn \in Maps(Streams)
    BY <1>1 DEF TypeOK, Maps
  <2> DEFINE x == Idle
  <2>2. x \in Streams
    BY <1>7
  <2>3. conn' = Sides(conn, b, p, x, d)
    <3>1. conn' = [conn EXCEPT ![b][p] = x]
      BY <1>3
    <3> HIDE DEF x
    <3> QED BY <1>2, <2>1, <2>2, <3>1 DEF Sides, Maps
  <2> HIDE DEF x
  <2> HIDE DEF d
  <2>4. Sided(conn', conn, Streams, b, p, x, d)
    BY <1>1, <1>2, <2>1, <2>2, <2>3, BothSides
  <2> QED BY <2>4 DEF x
<1>9. Sided(wire', wire, Seq(Items), b, p, u2, z)
  <2>1. wire \in [BBSs -> [BBSs -> Seq(Items)]]
    BY <1>1 DEF TypeOK
  <2>2. [wire EXCEPT ![p][b] = << >>][b][p] = wire[b][p]
    BY <1>2, <2>1
  <2>3. wire' = [wire EXCEPT ![p][b] = << >>, ![b][p] = SubSeq(wire[b][p], 1, a)]
    BY <1>3, <2>2
  <2>4. wire' = Sides(wire, p, b, z, u2) /\ wire \in Maps(Seq(Items))
    BY <2>1, <2>3 DEF Sides, Maps
  <2> HIDE DEF z, u2
  <2>5. Sided(wire', wire, Seq(Items), p, b, z, u2)
    BY <1>2, <1>7, <2>4, BothSides
  <2> QED BY <2>5 DEF Sided, Only
<1> HIDE DEF z, u2, d, u, w
<1> QED BY <1>1, <1>2, <1>3, <1>4, <1>5, <1>6, <1>7, <1>8, <1>9, SessionKeeps
\* It does not matter whose side one looks from.
LEMMA TwoSwap ==
    ASSUME NEW nb, NEW np, NEW c, NEW d, NEW u, NEW v, NEW zero, Two(nb, np, c, d, u, v, zero)
    PROVE  Two(np, nb, d, c, v, u, zero)
  BY DEF Two, Live

\* A BBS is started again.
LEMMA RestartIs ==
    ASSUME NEW n \in Nodes, NEW p, NEW np, NEW n2,
           n2 = [MsgHddrPtr |-> [i \in DOMAIN n.MsgHddrPtr |->
                                   [n.MsgHddrPtr[i] EXCEPT !.Defered = 0]],
                 TempBIDs |-> {}, RestartData |-> n.file, file |-> n.file]
    PROVE  n2 \in Nodes /\ Later(n, n2, p, np)
<1> DEFINE M == n.MsgHddrPtr
<1>1. M \in Seq(Records) /\ n.file \in Seq(Restarts) /\ DOMAIN M = 1..Len(M) /\ Len(M) \in Nat
  BY NodeIs
<1>2. n2.MsgHddrPtr = [i \in DOMAIN M |-> [M[i] EXCEPT !.Defered = 0]]
  OBVIOUS
<1>3. DOMAIN n2.MsgHddrPtr = 1..Len(M)
  BY <1>1, <1>2
<1> HIDE DEF M
<1>4. ASSUME NEW i \in 1..Len(M)
      PROVE  /\ n2.MsgHddrPtr[i] \in Records /\ n2.MsgHddrPtr[i].bid = M[i].bid
             /\ n2.MsgHddrPtr[i].forw = M[i].forw /\ n2.MsgHddrPtr[i].whole = M[i].whole
  <2>1. M[i] \in Records
    BY <1>1
  <2>2. n2.MsgHddrPtr[i] = [M[i] EXCEPT !.Defered = 0]
    BY <1>1, <1>2
  <2> DEFINE r == M[i]
  <2> HIDE DEF r
  <2>3. /\ [r EXCEPT !.Defered = 0] \in Records /\ [r EXCEPT !.Defered = 0].bid = r.bid
        /\ [r EXCEPT !.Defered = 0].forw = r.forw /\ [r EXCEPT !.Defered = 0].whole = r.whole
    BY <2>1 DEF Records, r
  <2> QED BY <2>2, <2>3 DEF r
<1>5. n2.MsgHddrPtr \in Seq(Records)
  <2>1. n2.MsgHddrPtr \in [1..Len(M) -> Records]
    <3>1. n2.MsgHddrPtr = [i \in 1..Len(M) |-> n2.MsgHddrPtr[i]]
      BY <1>1, <1>2
    <3> QED BY <1>4, <3>1
  <2> QED BY <1>1, <2>1, MapIsSeq
<1>6. n2 \in Nodes
  BY <1>1, <1>5 DEF Nodes
<1>7. ASSUME NEW i \in DOMAIN n2.MsgHddrPtr
      PROVE  /\ i \in DOMAIN M /\ n2.MsgHddrPtr[i].bid = M[i].bid
             /\ n2.MsgHddrPtr[i].forw = M[i].forw /\ n2.MsgHddrPtr[i].whole = M[i].whole
  BY <1>1, <1>3, <1>4
<1>8. M[1] = M[1] /\ \A i \in DOMAIN n2.MsgHddrPtr :
         M[i].whole = TRUE \/ M[i].whole = FALSE
  <2>1. ASSUME NEW i \in 1..Len(M)
        PROVE  M[i].whole = TRUE \/ M[i].whole = FALSE
    <3>1. M[i] \in Records
      BY <1>1
    <3> QED BY <3>1 DEF Records
  <2> QED BY <1>3, <2>1
<1>9. MoreOf(n, n2)
  BY <1>1, <1>3, <1>4 DEF MoreOf, M
<1>10. Later(n, n2, p, np)
  BY <1>7, <1>8, <1>9 DEF Later, M
<1> QED BY <1>6, <1>10

\* The three fields of a BBS that a start sets.
LEMMA RestartFields ==
    ASSUME NEW n \in Nodes, NEW m, NEW f
    PROVE  [n EXCEPT !.TempBIDs = {}, !.RestartData = f, !.MsgHddrPtr = m] =
           [MsgHddrPtr |-> m, TempBIDs |-> {}, RestartData |-> f, file |-> n.file]
<1> DEFINE y1 == [n EXCEPT !.TempBIDs = {}]
           y2 == [y1 EXCEPT !.RestartData = f]
           y3 == [y2 EXCEPT !.MsgHddrPtr = m]
<1>1. PICK A, B, C, D : n = [MsgHddrPtr |-> A, TempBIDs |-> B, RestartData |-> C, file |-> D]
  BY DEF Nodes
<1>2. y1 = [MsgHddrPtr |-> A, TempBIDs |-> {}, RestartData |-> C, file |-> D]
  BY <1>1
<1>3. y2 = [MsgHddrPtr |-> A, TempBIDs |-> {}, RestartData |-> f, file |-> D]
  <2> HIDE DEF y1
  <2> QED BY <1>2
<1>4. y3 = [MsgHddrPtr |-> m, TempBIDs |-> {}, RestartData |-> f, file |-> D]
  <2> HIDE DEF y2
  <2> QED BY <1>3
<1>5. [n EXCEPT !.TempBIDs = {}, !.RestartData = f, !.MsgHddrPtr = m] = y3
  OBVIOUS
<1> HIDE DEF y3
<1> QED BY <1>1, <1>4, <1>5

\* A BBS is killed and started again.
LEMMA CrashKeeps ==
    ASSUME IInv, NEW b \in BBSs, Crash(b)
    PROVE  IInv'
<1> DEFINE n == bbs[b]
           n2 == [MsgHddrPtr |-> [i \in DOMAIN n.MsgHddrPtr |->
                                    [n.MsgHddrPtr[i] EXCEPT !.Defered = 0]],
                  TempBIDs |-> {}, RestartData |-> n.file, file |-> n.file]
<1>1. /\ TypeOK /\ NoLoss /\ Whole /\ n \in Nodes /\ bbs \in [BBSs -> Nodes]
      /\ conn \in [BBSs -> [BBSs -> Streams]] /\ wire \in [BBSs -> [BBSs -> Seq(Items)]]
  BY DEF IInv, TypeOK
<1>2. net' = net /\ conn' = [conn EXCEPT ![b] = [p \in BBSs |-> Idle]]
  BY DEF Crash
<1>3. PICK arrive \in SUBSET BBSs :
         wire' = [q \in BBSs |-> [p \in BBSs |->
                    IF p = b \/ (q = b /\ p \notin arrive) THEN << >> ELSE wire[q][p]]]
  BY DEF Crash
<1>4. bbs' = [bbs EXCEPT ![b] = n2]
  <2>1. bbs' = [bbs EXCEPT ![b].TempBIDs = {}, ![b].RestartData = bbs[b].file,
                           ![b].MsgHddrPtr = [i \in DOMAIN @ |-> [@[i] EXCEPT !.Defered = 0]]]
    BY DEF Crash
  <2> DEFINE m == [i \in DOMAIN n.MsgHddrPtr |-> [n.MsgHddrPtr[i] EXCEPT !.Defered = 0]]
             f == n.file
             n3 == [n EXCEPT !.TempBIDs = {}, !.RestartData = f, !.MsgHddrPtr = m]
  <2>2. bbs' = [bbs EXCEPT ![b] = n3]
    BY <1>1, <2>1
  <2>3. n3 = n2
    <3>1. n2 = [MsgHddrPtr |-> m, TempBIDs |-> {}, RestartData |-> f, file |-> f]
      OBVIOUS
    <3>2. n \in Nodes /\ n.file = f
      BY <1>1
    <3> HIDE DEF m, f, n, n2
    <3>3. n3 = [MsgHddrPtr |-> m, TempBIDs |-> {}, RestartData |-> f, file |-> n.file]
      BY <3>2, RestartFields
    <3> QED BY <3>1, <3>2, <3>3
  <2> QED BY <2>2, <2>3
<1>5. n2 \in Nodes /\ Later(n, n2, b, bbs[b])
  <2> DEFINE x == n2
             np == bbs[b]
  <2>1. x = n2
    OBVIOUS
  <2> HIDE DEF x, n, np
  <2>2. x \in Nodes /\ Later(n, x, b, np)
    BY <1>1, <2>1, RestartIs
  <2> QED BY <2>1, <2>2 DEF np
<1>6. n2.MsgHddrPtr \in Seq(Records)
  BY <1>5, NodeIs
<1> HIDE DEF n2
<1>7. /\ NoLoss' /\ Whole' /\ bbs' \in [BBSs -> Nodes]
      /\ \A q \in BBSs : MoreOf(bbs[q], bbs'[q])
  BY <1>1, <1>4, <1>5, KeepNodes
<1>8. Idle \in Streams /\ Idle.Active = FALSE
  BY IdleIs DEF Idle
<1>9. /\ conn' \in [BBSs -> [BBSs -> Streams]] /\ \A p \in BBSs : conn'[b][p] = Idle
      /\ \A q, r \in BBSs : q # b => conn'[q][r] = conn[q][r]
  BY <1>1, <1>2, <1>8
<1>10. /\ wire' \in [BBSs -> [BBSs -> Seq(Items)]]
       /\ \A q \in BBSs : wire'[q][b] = << >>
       /\ \A r \in BBSs : r # b => wire'[b][r] = << >> \/ wire'[b][r] = wire[b][r]
       /\ \A q, r \in BBSs : q # b /\ r # b => wire'[q][r] = wire[q][r]
  BY <1>1, <1>3
<1>11. TypeOK'
  BY <1>1, <1>2, <1>7, <1>9, <1>10 DEF TypeOK
<1>12. \A q \in BBSs : conn'[q][q] = Idle
  BY <1>9 DEF IInv, Links
<1>13. bbs'[b] = n2 /\ \A q \in BBSs : q # b => bbs'[q] = bbs[q]
  BY <1>1, <1>4
<1>14. \A q, r \in BBSs : B1(q, r) = B1(r, q)
  <2>1. \A q, r : {q, r} = {r, q}
    OBVIOUS
  <2> QED BY <2>1 DEF B1
<1>15. ASSUME NEW r \in BBSs
       PROVE  Two(bbs'[b], bbs'[r], conn'[b][r], conn'[r][b], wire'[b][r], wire'[r][b], ~B1(b, r))
  <2> DEFINE zero == ~B1(b, r)
  <2>1. CASE r = b
    <3>1. Idle.InputMode = "line" /\ Idle.TempMsg.whole /\ Idle.FBBReplyChars = << >>
      BY DEF Idle, NoMsg
    <3>2. ASSUME NEW there
          PROVE  Exact(Idle, << >>, zero, there)
      BY <3>1, FreshExact
    <3>3. Two(bbs'[b], bbs'[r], Idle, Idle, << >>, << >>, zero)
      BY <1>8, <3>2 DEF Two
    <3> QED BY <1>9, <1>10, <2>1, <3>3
  <2>2. CASE r # b
    <3> DEFINE np == bbs[r]
               c == conn[b][r]
               d == conn[r][b]
               u == wire[b][r]
               v == wire[r][b]
               m == n.MsgHddrPtr
    <3>1. Two(n, np, c, d, u, v, zero) /\ u \in Seq(Items) /\ v \in Seq(Items)
      BY <1>1, TwoIs
    <3>2. bbs'[r] = np /\ conn'[r][b] = d /\ conn'[b][r] = Idle /\ wire'[r][b] = << >>
      BY <1>9, <1>10, <1>13, <2>2
    <3>3. PICK a \in 0..Len(u) : wire'[b][r] = SubSeq(u, 1, a)
      <4>1. SubSeq(u, 1, 0) = << >> /\ SubSeq(u, 1, Len(u)) = u /\ Len(u) \in Nat
        <5> HIDE DEF u
        <5> QED BY <3>1
      <4>2. 0 \in 0..Len(u) /\ Len(u) \in 0..Len(u)
        BY <4>1
      <4> QED BY <1>10, <2>2, <4>1, <4>2
    <3> HIDE DEF n, np, c, d, u, v, zero
    <3>4. MoreOf(n, n2)
      BY <1>5 DEF Later
    <3>5. Two(n, np, Idle, d, SubSeq(u, 1, a), << >>, zero)
      BY <3>1, <3>3, EndTwo
    <3>6. Two(n2, np, Idle, d, SubSeq(u, 1, a), << >>, zero)
      <4> DEFINE w == SubSeq(u, 1, a)
                 e == << >>
                 x == Idle
      <4>1. w \in Seq(Items) /\ e \in Seq(Items) /\ x \in Streams /\ d \in Streams
        <5>1. d \in Streams
          BY <1>1 DEF d
        <5> QED BY <1>8, <3>1, <3>3, <5>1, SoundPrefix
      <4>2. MoreOf(np, np)
        BY DEF MoreOf
      <4>3. Two(n, np, x, d, w, e, zero)
        BY <3>5
      <4> HIDE DEF w, e, x
      <4>4. Two(n2, np, x, d, w, e, zero)
        BY <3>4, <4>1, <4>2, <4>3, TwoMore
      <4> QED BY <4>4 DEF w, e, x
    <3> QED BY <1>13, <3>2, <3>3, <3>6 DEF zero
  <2> QED BY <2>1, <2>2
<1>16. ASSUME NEW q \in BBSs, NEW r \in BBSs
       PROVE  Two(bbs'[q], bbs'[r], conn'[q][r], conn'[r][q], wire'[q][r], wire'[r][q], ~B1(q, r))
  <2>1. CASE q = b
    BY <1>15, <2>1
  <2>2. CASE q # b /\ r = b
    <3>1. Two(bbs'[b], bbs'[q], conn'[b][q], conn'[q][b], wire'[b][q], wire'[q][b], ~B1(b, q))
      BY <1>15
    <3>2. Two(bbs'[q], bbs'[b], conn'[q][b], conn'[b][q], wire'[q][b], wire'[b][q], ~B1(b, q))
      BY <3>1, TwoSwap
    <3>3. B1(q, b) = B1(b, q)
      BY <1>14
    <3> QED BY <2>2, <3>2, <3>3
  <2>3. CASE q # b /\ r # b
    <3>1. Two(bbs[q], bbs[r], conn[q][r], conn[r][q], wire[q][r], wire[r][q], ~B1(q, r))
      BY TwoIs
    <3>2. /\ conn[q][r] \in Streams /\ conn[r][q] \in Streams
          /\ wire[q][r] \in Seq(Items) /\ wire[r][q] \in Seq(Items)
      BY <1>1
    <3>3. MoreOf(bbs[q], bbs'[q]) /\ MoreOf(bbs[r], bbs'[r])
      BY <1>7
    <3>4. Two(bbs'[q], bbs'[r], conn[q][r], conn[r][q], wire[q][r], wire[r][q], ~B1(q, r))
      BY <3>1, <3>2, <3>3, TwoMore
    <3>5. /\ conn'[q][r] = conn[q][r] /\ conn'[r][q] = conn[r][q]
          /\ wire'[q][r] = wire[q][r] /\ wire'[r][q] = wire[r][q]
      BY <1>9, <1>10, <2>3
    <3> QED BY <3>4, <3>5
  <2> QED BY <2>1, <2>2, <2>3
<1> QED BY <1>2, <1>7, <1>11, <1>12, <1>16, AllTwo
(***************************************************************************)
(* Theorems.                                                               *)
(***************************************************************************)

\* At first no BBS is connected, and each has its own messages.
LEMMA InitOK == Init => IInv
<1> SUFFICES ASSUME Init
             PROVE  IInv
  OBVIOUS
<1>1. /\ net \in Networks /\ conn = [b \in BBSs |-> [p \in BBSs |-> Idle]]
      /\ wire = [b \in BBSs |-> [p \in BBSs |-> << >>]]
  BY DEF Init
<1>2. net.has \in [BBSs -> Seq(Messages)] /\ net.route \in [BBSs -> [Messages -> SUBSET BBSs]]
  BY <1>1, NetworkAssumption
<1>3. ASSUME NEW b \in BBSs
      PROVE  /\ bbs[b] \in Nodes
             /\ \A i \in DOMAIN bbs[b].MsgHddrPtr : /\ bbs[b].MsgHddrPtr[i].forw = {}
                                                    /\ bbs[b].MsgHddrPtr[i].whole = TRUE
  <2> DEFINE has == net.has[b]
             n == bbs[b]
  <2>1. n = [MsgHddrPtr |-> [i \in DOMAIN has |-> Record(has[i], net.route[b][has[i]])],
             TempBIDs |-> {}, RestartData |-> << >>, file |-> << >>]
    BY DEF Init
  <2>2. has \in Seq(Messages) /\ DOMAIN has = 1..Len(has) /\ Len(has) \in Nat
    <3>1. has \in Seq(Messages)
      BY <1>2
    <3> HIDE DEF has
    <3> QED BY <3>1
  <2> HIDE DEF has, n
  <2>3. /\ n.MsgHddrPtr = [i \in DOMAIN has |-> Record(has[i], net.route[b][has[i]])]
        /\ n.TempBIDs = {} /\ n.RestartData = << >> /\ n.file = << >>
    BY <2>1
  <2> DEFINE M == n.MsgHddrPtr
  <2> HIDE DEF M
  <2>4. ASSUME NEW i \in 1..Len(has)
        PROVE  M[i] \in Records /\ M[i].forw = {} /\ M[i].whole = TRUE
    <3> DEFINE m == has[i]
               due == net.route[b][m]
    <3>1. m \in Messages
      BY <2>2
    <3> HIDE DEF m
    <3>2. due \in SUBSET BBSs
      BY <1>2, <3>1
    <3>3. M[i] = Record(m, due)
      BY <2>2, <2>3 DEF M, m
    <3> HIDE DEF due
    <3>4. Record(m, due) \in Records /\ Record(m, due).forw = {} /\ Record(m, due).whole = TRUE
      BY <3>1, <3>2 DEF Record, Records
    <3> QED BY <3>3, <3>4
  <2>5. M \in Seq(Records) /\ DOMAIN M = 1..Len(has)
    <3>1. DOMAIN M = 1..Len(has)
      BY <2>2, <2>3 DEF M
    <3>2. M = [i \in 1..Len(has) |-> M[i]]
      BY <2>2, <2>3 DEF M
    <3>3. M \in [1..Len(has) -> Records]
      BY <2>4, <3>2
    <3> QED BY <2>2, <3>1, <3>3, MapIsSeq
  <2>6. n \in Nodes
    <3>1. n = [MsgHddrPtr |-> M, TempBIDs |-> {}, RestartData |-> << >>, file |-> << >>]
      BY <2>1, <2>3 DEF M
    <3> QED BY <2>5, <3>1 DEF Nodes
  <2> QED BY <2>4, <2>5, <2>6 DEF n, M
<1>4. bbs \in [BBSs -> Nodes]
  <2>1. bbs = [b \in BBSs |-> bbs[b]]
    BY DEF Init
  <2> QED BY <1>3, <2>1
<1>5. Idle \in Streams /\ Idle.Active = FALSE
  BY IdleIs DEF Idle
<1>6. TypeOK
  BY <1>1, <1>4, <1>5 DEF TypeOK
<1>7. NoLoss /\ Whole
  BY <1>3 DEF NoLoss, Whole
<1>8. \A b, p \in BBSs : conn[b][p] = Idle /\ wire[b][p] = << >>
  BY <1>1
<1>9. Links
  BY <1>5, <1>8 DEF Links, Pair
<1>10. Exactness
  <2>1. Idle.InputMode = "line" /\ Idle.TempMsg.whole /\ Idle.FBBReplyChars = << >>
    BY DEF Idle, NoMsg
  <2>2. ASSUME NEW zero, NEW there
        PROVE  Exact(Idle, << >>, zero, there)
    BY <2>1, FreshExact
  <2> QED BY <1>8, <2>2 DEF Exactness
<1> QED BY <1>6, <1>7, <1>9, <1>10 DEF IInv

\* No step breaks it.
LEMMA NextOK == IInv /\ [Next]_vars => IInv'
<1> SUFFICES ASSUME IInv, [Next]_vars
             PROVE  IInv'
  OBVIOUS
<1>1. ASSUME NEW b \in BBSs, NEW p \in BBSs, Open(b, p)
      PROVE  IInv'
  BY <1>1, OpenKeeps
<1>2. ASSUME NEW b \in BBSs, NEW p \in BBSs, DoReceivedData(b, p)
      PROVE  IInv'
  BY <1>2, ReceiveKeeps
<1>3. ASSUME NEW b \in BBSs, NEW p \in BBSs, Close(b, p)
      PROVE  IInv'
  <2> DEFINE a == Len(wire[b][p])
  <2>1. a \in 0..Len(wire[b][p])
    <3>1. wire[b][p] \in Seq(Items)
      BY DEF IInv, TypeOK
    <3> QED BY <3>1
  <2>2. conn[b][p].Active /\ Ends(b, p, a)
    BY <1>3 DEF Close
  <2> HIDE DEF a
  <2> QED BY <2>1, <2>2, EndsKeeps
<1>4. ASSUME NEW b \in BBSs, NEW p \in BBSs, Break(b, p)
      PROVE  IInv'
  <2>1. PICK a \in 0..Len(wire[b][p]) : Ends(b, p, a)
    BY <1>4 DEF Break
  <2>2. conn[b][p].Active
    BY <1>4 DEF Break
  <2> QED BY <2>1, <2>2, EndsKeeps
<1>5. ASSUME NEW b \in BBSs, Crash(b)
      PROVE  IInv'
  BY <1>5, CrashKeeps
<1>6. ASSUME UNCHANGED vars
      PROVE  IInv'
  <2>1. net' = net /\ bbs' = bbs /\ conn' = conn /\ wire' = wire
    BY <1>6 DEF vars
  <2>2. TypeOK' /\ NoLoss' /\ Whole'
    BY <2>1 DEF IInv, TypeOK, NoLoss, Whole
  <2>3. \A b, p \in BBSs : B1(b, p)' = B1(b, p)
    BY <2>1 DEF B1
  <2>4. Links'
    BY <2>1 DEF IInv, Links, Pair
  <2>5. Exactness'
    BY <2>1, <2>3 DEF IInv, Exactness
  <2> QED BY <2>2, <2>4, <2>5 DEF IInv
<1> QED BY <1>1, <1>2, <1>3, <1>4, <1>5, <1>6 DEF Next

\* The invariant, and with it what a stream, a wire and a message look like.
THEOREM TypeCorrect == Spec => []TypeOK
<1>1. IInv => TypeOK
  BY DEF IInv
<1> QED BY <1>1, InitOK, NextOK, PTL DEF Spec

\* Each end of a session knows what the other one is to say next: what is
\* proposed is answered header by header, and what is sent is what was wanted.
THEOREM SessionsAgree == Spec => []Links
<1>1. IInv => Links
  BY DEF IInv
<1> QED BY <1>1, InitOK, NextOK, PTL DEF Spec

\* A message is marked as forwarded only when the other BBS has it, whatever is
\* lost, broken off or killed.
THEOREM NothingLost == Spec => []NoLoss
<1>1. IInv => NoLoss
  BY DEF IInv
<1> QED BY <1>1, InitOK, NextOK, PTL DEF Spec

\* What is stored is what was sent, however often it was broken off and restarted
\* and whatever was damaged on the way.
THEOREM StoredWhole == Spec => []Whole
<1>1. IInv => Whole
  BY DEF IInv
<1> QED BY <1>1, InitOK, NextOK, PTL DEF Spec
=============================================================================
