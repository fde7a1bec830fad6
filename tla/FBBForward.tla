----------------------------- MODULE FBBForward -----------------------------
(***************************************************************************)
(* FBB forwarding between BBSs (FBBRoutines.c and what it calls): proposal *)
(* blocks, the answers to them, binary transfer with restart, and the      *)
(* marks on a message that say who is still to have it.  Every BBS runs    *)
(* the same code.  A link between two of them may break at any time, and   *)
(* each end then runs Disconnected on its own.                             *)
(*                                                                         *)
(* A message image is SizeOf[m] units of data, a unit being as many blocks *)
(* as make the 256 bytes below which SaveFBBBinary does not save.          *)
(* Left out: B2, MBL and uncompressed forwarding, filters, RMS Express,    *)
(* Paclink, PAT and NTS, DoReverse FALSE, files older than two days.  Both *)
(* ends are BPQ (conn->BPQBBS).                                            *)
(***************************************************************************)
EXTENDS Integers, Sequences, FiniteSets, SequencesExt

CONSTANTS BBSs, Messages,
          TypeOf,       \* [Messages -> {"P", "B"}]: personal or bulletin
          SizeOf,       \* [Messages -> Nat]: units of the compressed image
          Networks,     \* what BBSs there are and what waits at them: see Init
          MaxBlock,     \* 5 in FindMessagestoForwardLoop
          DeferFor,     \* 4 in ProcessFBBLine
          MaxRestarts   \* 10 in LookupRestart

ASSUME MessageAssumption == /\ TypeOf \in [Messages -> {"P", "B"}]
                            /\ SizeOf \in [Messages -> Nat \ {0}]
                            /\ "none" \notin Messages
ASSUME LimitAssumption   == /\ MaxBlock \in Nat \ {0} /\ MaxRestarts \in Nat \ {0}
                            /\ DeferFor \in Nat
\* No BBS calls itself.
ASSUME NetworkAssumption == \A w \in Networks :
          /\ w.calls \in SUBSET {l \in BBSs \X BBSs : l[1] # l[2]}
          /\ w.has \in [BBSs -> Seq(Messages)]
          /\ w.route \in [BBSs -> [Messages -> SUBSET BBSs]]

VARIABLES net,     \* the network of this behaviour, a member of Networks: who
                   \* calls whom, which links have B1, the messages a BBS
                   \* has, where it sends a message, a bound for each fault
          bbs,     \* bbs[b]: what b keeps from one session to the next
          conn,    \* conn[b][p]: b's stream to p, ConnectionInfo
          wire,    \* wire[b][p]: lines and blocks on their way from b to p
          faults   \* how often each fault has happened

vars == << net, bbs, conn, wire, faults >>

NoBid == "none"                     \* TempMsg->bid when CreateMessage said no

(***************************************************************************)
(* A line or a block: FA and F> make up a proposal block, FS answers it;   *)
(* "head", "data" and "eom" carry a message; "text" is any line that does  *)
(* not start with F.                                                       *)
(***************************************************************************)
Item(t, x) == [t |-> t, x |-> x]
Line(t)    == Item(t, 0)
Answer(r, n) == [reply |-> r, from |-> n]

Record(m, due) == [bid |-> m, status |-> "N", fbbs |-> due, forw |-> {},
                   Defered |-> 0, whole |-> TRUE]

NoMsg == [bid |-> NoBid, length |-> 0, whole |-> TRUE]

Idle == [Active |-> FALSE, FBBHeaders |-> << >>, FBBMsgsSent |-> FALSE,
         FBBReplyChars |-> << >>, InputMode |-> "line", TempMsg |-> NoMsg,
         sumOK |-> TRUE, DontSaveRestartData |-> FALSE, closing |-> "no",
         NextMessagetoForward |-> 1, LastForwardType |-> "none"]

Init == /\ net \in Networks
        /\ bbs = [b \in BBSs |->
                    [MsgHddrPtr |-> [i \in DOMAIN net.has[b] |->
                                       Record(net.has[b][i], net.route[b][net.has[b][i]])],
                     TempBIDs |-> {}, RestartData |-> << >>, file |-> << >>]]
        /\ conn = [b \in BBSs |-> [p \in BBSs |-> Idle]]
        /\ wire = [b \in BBSs |-> [p \in BBSs |-> << >>]]
        /\ faults = [breaks |-> 0, damage |-> 0, crashes |-> 0]

B1(b, p) == {b, p} \in net.B1       \* FBBB1Mode: CRC and restart

-----------------------------------------------------------------------------
(* What is offered.  S is [n, c, out]: the BBS, its stream to p and what it *)
(* sends there.                                                            *)

LookupBID(n, m) == {i \in DOMAIN n.MsgHddrPtr : n.MsgHddrPtr[i].bid = m}
First(I) == CHOOSE i \in I : \A j \in I : i <= j

Put(S, items) == [S EXCEPT !.out = @ \o items]

Queued(n, p) == {i \in DOMAIN n.MsgHddrPtr : p \in n.MsgHddrPtr[i].fbbs}

FirstFew(I) == {i \in I : Cardinality({j \in I : j < i}) < MaxBlock}
Kth(I, k)   == CHOOSE i \in I : Cardinality({j \in I : j < i}) = k - 1

\* The block is proposed, and the deferred messages that were passed on the way
\* to its last one are a step nearer to being proposed again.
Take(S, type, due, block) ==
    [S EXCEPT
       !.n.MsgHddrPtr = [i \in DOMAIN @ |->
           IF /\ i \in due /\ @[i].Defered > 0
              /\ Cardinality(block) < MaxBlock \/ \E j \in block : i <= j
           THEN [@[i] EXCEPT !.Defered = S.n.MsgHddrPtr[i].Defered - 1] ELSE @[i]],
       !.c = [S.c EXCEPT
           !.FBBHeaders = [k \in 1..Cardinality(block) |->
               [bid |-> S.n.MsgHddrPtr[Kth(block, k)].bid, FwdMsg |-> Kth(block, k)]],
           !.NextMessagetoForward =
               IF block = {} THEN @ ELSE 1 + Kth(block, Cardinality(block)),
           !.LastForwardType = IF block = {} THEN @ ELSE type]]

FindLoop(S, p, type) ==
    LET due == {i \in Queued(S.n, p) : /\ i >= S.c.NextMessagetoForward
                                       /\ TypeOf[S.n.MsgHddrPtr[i].bid] = type}
    IN  Take(S, type, due, FirstFew({i \in due : S.n.MsgHddrPtr[i].Defered = 0}))

OrNone(B) == IF B.c.FBBHeaders = << >> THEN [B EXCEPT !.c.LastForwardType = "none"] ELSE B

OrBulletins(P, p) ==
    IF P.c.FBBHeaders # << >> THEN P
    ELSE OrNone(FindLoop([P EXCEPT !.c.NextMessagetoForward =
                              IF P.c.LastForwardType = "P" THEN 1 ELSE @], p, "B"))

FindMessagestoForward(S, p) == OrBulletins(FindLoop(S, p, "P"), p)

Propose(S, otherwise) ==
    Put(S, IF S.c.FBBHeaders = << >> THEN otherwise
           ELSE [i \in DOMAIN S.c.FBBHeaders |-> Item("FA", S.c.FBBHeaders[i].bid)]
                \o << Line("F>") >>)

\* Propose what there is, or say so with the line "otherwise".
FBBDoForward(S, p, otherwise) == Propose(FindMessagestoForward(S, p), otherwise)

-----------------------------------------------------------------------------
(* What has been sent.                                                     *)

Done(r, p) == [r EXCEPT !.fbbs = @ \ {p}, !.forw = @ \cup {p},
                        !.status = IF r.fbbs \subseteq {p} THEN "F" ELSE @]

FlagSentMessages(S, p) ==
    IF ~S.c.FBBMsgsSent THEN S
    ELSE LET sent == {h.FwdMsg : h \in ToSet(S.c.FBBHeaders)}
         IN  [S EXCEPT !.n.MsgHddrPtr = [i \in DOMAIN @ |->
                           IF i \in sent THEN Done(@[i], p) ELSE @[i]],
                       !.c.FBBHeaders = << >>, !.c.FBBMsgsSent = FALSE]

\* SendCompressed: the image of m from unit "from" on.
Image(m, from) == << Item("head", from) >> \o
                  [i \in 1..(SizeOf[m] - from) |-> Item("data", TRUE)] \o
                  << Line("eom") >>

ProposalResponse(S, p, replies) ==
    LET H == S.c.FBBHeaders
        With(rs) == {i \in DOMAIN H : replies[i].reply \in rs}
        FwdMsgs(I) == {H[i].FwdMsg : i \in I}
        wanted == With({"+", "!"})
        \* Header by header: what is wanted is sent, the others are cleared.
        Kept == FoldLeft(LAMBDA q, i :
                    IF replies[i].reply \in {"+", "!"}
                    THEN [h |-> Append(q.h, H[i]),
                          out |-> q.out \o Image(H[i].bid, replies[i].from)] ELSE q,
                    [h |-> << >>, out |-> << >>], [i \in DOMAIN H |-> i])
    IN  [S EXCEPT
          !.n.MsgHddrPtr = [i \in DOMAIN @ |->
              IF i \in FwdMsgs(With({"-"}))
              THEN [Done(@[i], p) EXCEPT !.status =
                        IF TypeOf[S.n.MsgHddrPtr[i].bid] = "P" THEN "F"
                        ELSE Done(S.n.MsgHddrPtr[i], p).status]
              ELSE IF i \in FwdMsgs(With({"="}))
              THEN [@[i] EXCEPT !.Defered = DeferFor]
              ELSE @[i]],
          !.c.FBBHeaders = Kept.h,
          !.c.FBBMsgsSent = @ \/ wanted # {},
          !.out = @ \o Kept.out]

-----------------------------------------------------------------------------
(* What is wanted.                                                         *)

DoWeWantIt(n, m) ==
    LET had == LookupBID(n, m)
    IN  \/ had = {}
        \/ TypeOf[m] = "P" /\ n.MsgHddrPtr[First(had)].status \notin {"N", "Y", "H"}

\* Mutant: what is being received is not known.
LookupTempBID_Forgets(n, m) == FALSE

LookupTempBID(n, m) == \E t \in n.TempBIDs : t.bid = m

RestartRecs(n, p, m) ==
    {i \in DOMAIN n.RestartData : n.RestartData[i].Call = p /\ n.RestartData[i].bid = m}

SaveRestartData(n) == [n EXCEPT !.file = n.RestartData]

DropRestart(n, i) == SaveRestartData([n EXCEPT !.RestartData = RemoveAt(@, i)])

DeleteRestartData(n, p, m) ==
    LET I == RestartRecs(n, p, m) IN IF I = {} THEN n ELSE DropRestart(n, First(I))

\* The BBS afterwards, and the unit to restart from: 0 is FALSE.
LookupRestart(n, b, p, m) ==
    LET I == RestartRecs(n, p, m)
        i == First(I)
    IN  IF ~B1(b, p) \/ I = {} THEN [n |-> n, from |-> 0]
        ELSE IF n.RestartData[i].Count >= MaxRestarts
        THEN [n |-> DropRestart(n, i), from |-> 0]
        ELSE [n |-> [n EXCEPT !.RestartData[i].Count = @ + 1],
              from |-> n.RestartData[i].length]

\* An FA line.
Proposal(S0, b, p, m) ==
    LET S   == FlagSentMessages(S0, p)
        L   == LookupRestart(S.n, b, p, m)
        Says(n, r, from, header) ==
            [S EXCEPT !.n = n, !.c.FBBReplyChars = Append(@, Answer(r, from)),
                      !.c.FBBHeaders = @ \o header]
        h == << [bid |-> m, FwdMsg |-> 0] >>
    IN  IF ~DoWeWantIt(S.n, m) THEN Says(S.n, "-", 0, << >>)
        ELSE IF L.from > 0 THEN Says(L.n, "!", L.from, h)
        ELSE IF LookupTempBID(L.n, m) THEN Says(L.n, "=", 0, << >>)
        ELSE Says([L.n EXCEPT !.TempBIDs = @ \cup {[bid |-> m, conn |-> p]}], "+", 0, h)

CreateMessage(S, p, m) ==
    IF ~DoWeWantIt(S.n, m)
    THEN Put([S EXCEPT !.c.TempMsg = NoMsg], << Line("text") >>)        \* NO - BID
    ELSE [S EXCEPT !.c.TempMsg = [NoMsg EXCEPT !.bid = m],
                   !.n.TempBIDs = @ \cup {[bid |-> m, conn |-> p]}]

\* Mutant: no FF when there is nothing to propose.
NextFBBMessage_NoPrompt(S, p) ==
    IF S.c.FBBHeaders = << >>
    THEN FBBDoForward([S EXCEPT !.c.InputMode = "line"], p, << >>)
    ELSE CreateMessage([S EXCEPT !.c.InputMode = "binary"], p, S.c.FBBHeaders[1].bid)

\* Go on with the block: the next message of it, or our turn to propose.
NextFBBMessage(S, p) ==
    IF S.c.FBBHeaders = << >>
    THEN FBBDoForward([S EXCEPT !.c.InputMode = "line"], p, << Line("FF") >>)
    ELSE CreateMessage([S EXCEPT !.c.InputMode = "binary"], p, S.c.FBBHeaders[1].bid)

SetupNextFBBMessage(S, p) == NextFBBMessage([S EXCEPT !.c.FBBHeaders = Tail(@)], p)

EndOfBlock(S, p) ==
    NextFBBMessage(Put([S EXCEPT !.c.FBBReplyChars = << >>],
                       << Item("FS", S.c.FBBReplyChars) >>), p)

-----------------------------------------------------------------------------
(* The transfer.                                                           *)

CloseAfterFlush(S) == Put([S EXCEPT !.c.closing = "flush"], << Line("text") >>)

Header(S, p, offset) ==
    LET T == [S EXCEPT !.c.sumOK = TRUE]
        I == RestartRecs(S.n, p, S.c.TempMsg.bid)
        r == S.n.RestartData[First(I)]
    IN  IF offset = 0 THEN T
        ELSE IF I = {} \/ r.length > offset THEN CloseAfterFlush(T)
        ELSE [T EXCEPT !.c.TempMsg.length = r.length,
                       !.c.TempMsg.whole = r.whole /\ r.length = offset]

DataBlock(S, ok) == [S EXCEPT !.c.sumOK = @ /\ ok, !.c.TempMsg.length = @ + 1,
                              !.c.TempMsg.whole = @ /\ ok]

\* What CreateMessage said no to has no BID and no addressee: it goes nowhere.
CreateMessageFromBuffer(S, b, p) ==
    LET m == S.c.TempMsg.bid
    IN  IF m = NoBid THEN S
        ELSE [S EXCEPT !.n.MsgHddrPtr = Append(@,
            [Record(m, net.route[b][m] \ {p}) EXCEPT !.whole = S.c.TempMsg.whole])]

\* Mutant: the CRC is not looked at.
Decode_NoCRC(S, b, p) == SetupNextFBBMessage(CreateMessageFromBuffer(S, b, p), p)

Decode(S, b, p) ==
    IF B1(b, p) /\ ~S.c.TempMsg.whole THEN CloseAfterFlush(S)           \* CRC error
    ELSE SetupNextFBBMessage(CreateMessageFromBuffer(S, b, p), p)

EndOfMessage(S, b, p) ==
    IF S.c.sumOK
    THEN Decode([S EXCEPT !.c.InputMode = "line",
                          !.n = DeleteRestartData(@, p, S.c.TempMsg.bid)], b, p)
    ELSE CloseAfterFlush([S EXCEPT !.c.DontSaveRestartData = TRUE])

\* The record for this message; or, if there is none, the one the search
\* stopped at, which is the last.
SaveFBBBinary(n, c, p) ==
    LET found == RestartRecs(n, p, c.TempMsg.bid)
        i     == IF found # {} THEN First(found) ELSE Len(n.RestartData)
        Rec(count) == [Call |-> p, bid |-> c.TempMsg.bid, length |-> c.TempMsg.length,
                       whole |-> c.TempMsg.whole, Count |-> count]
        old   == n.RestartData[i]
    IN  IF c.TempMsg.length = 0 THEN n
        ELSE SaveRestartData([n EXCEPT !.RestartData =
                IF i = 0 THEN << Rec(0) >>
                ELSE [@ EXCEPT ![i] = Rec(IF found # {} /\ old.length < c.TempMsg.length
                                          THEN 0 ELSE old.Count)]])

\* Mutant: what was sent counts as delivered.
Disconnected_MarksSent(n, c, b, p) ==
    [n EXCEPT !.TempBIDs = {t \in @ : t.conn # p},
              !.MsgHddrPtr = [i \in DOMAIN @ |->
                 IF c.FBBMsgsSent /\ \E h \in ToSet(c.FBBHeaders) : h.FwdMsg = i
                 THEN Done(@[i], p) ELSE @[i]]]

\* Mutant: temporary BIDs are kept.
Disconnected_KeepsTempBIDs(n, c, b, p) ==
    IF c.InputMode = "binary" /\ B1(b, p) /\ ~c.DontSaveRestartData
    THEN SaveFBBBinary(n, c, p) ELSE n

Disconnected(n, c, b, p) ==
    LET kept == IF c.InputMode = "binary" /\ B1(b, p) /\ ~c.DontSaveRestartData
                THEN SaveFBBBinary(n, c, p) ELSE n
    IN  [kept EXCEPT !.TempBIDs = {t \in @ : t.conn # p}]

-----------------------------------------------------------------------------
(* A line or a block that arrives.                                         *)

Refuse(S) ==
    IF S.c.closing \in {"fq", "disc"} THEN S
    ELSE Put([S EXCEPT !.c.closing = "disc"], << Line("text") >>)

\* BPQ does not close when it has sent FQ: the other end does.
OrQuit(S) == IF S.c.FBBHeaders = << >> THEN [S EXCEPT !.c.closing = "fq"] ELSE S

RequestReverse(S, p) == OrQuit(FBBDoForward(FlagSentMessages(S, p), p, << Line("FQ") >>))

ProcessFBBLine(S, b, p, i) ==
    CASE i.t = "FA"   -> Proposal(S, b, p, i.x)
      [] i.t = "F>"   -> EndOfBlock(S, p)
      [] i.t = "FS"   -> ProposalResponse(S, p, i.x)
      [] i.t = "FF"   -> RequestReverse(S, p)
      [] i.t = "FQ"   -> [FlagSentMessages(S, p) EXCEPT !.c.closing = "disc"]
      [] i.t = "text" -> Refuse(S)

\* What is no block may have cost the unit before it, which is not kept; damage
\* in that unit stays noted.
InvalidBlock(S) ==
    CloseAfterFlush(
        IF S.c.TempMsg.length > 0
        THEN [S EXCEPT !.c.TempMsg.length = @ - 1, !.c.DontSaveRestartData = FALSE]
        ELSE [S EXCEPT !.c.DontSaveRestartData = TRUE])

UnpackFBBBinary(S, b, p, i) ==
    IF S.c.closing = "flush" THEN S
    ELSE CASE i.t = "head" -> Header(S, p, i.x)
           [] i.t = "data" -> DataBlock(S, i.x)
           [] i.t = "eom"  -> EndOfMessage(S, b, p)
           [] OTHER        -> InvalidBlock(S)

\* Items for a stream that has gone are lost.
Goes(w, b, p, out) == IF conn[p][b].Active THEN [w EXCEPT ![b][p] = @ \o out] ELSE w

CanReceive(b, p) == conn[b][p].Active /\ wire[p][b] # << >>

Handle(S, b, p, i) ==
    IF S.c.InputMode = "binary" THEN UnpackFBBBinary(S, b, p, i)
    ELSE IF i.t \in {"head", "data", "eom"} THEN S       \* after a failed Decode
    ELSE ProcessFBBLine(S, b, p, i)

Leaves(b, p, S, w) == /\ bbs' = [bbs EXCEPT ![b] = S.n]
                      /\ conn' = [conn EXCEPT ![b][p] = S.c]
                      /\ wire' = Goes(w, b, p, S.out)

DoReceivedData(b, p) ==
    /\ CanReceive(b, p)
    /\ \E i \in {Head(wire[p][b])}, damaged \in BOOLEAN :
         /\ damaged => i.t = "data" /\ faults.damage < net.max.damage
         /\ faults' = [faults EXCEPT !.damage = @ + IF damaged THEN 1 ELSE 0]
         /\ Leaves(b, p,
                   Handle([n |-> bbs[b], c |-> conn[b][p], out |-> << >>], b, p,
                          IF damaged THEN [i EXCEPT !.x = FALSE] ELSE i),
                   [wire EXCEPT ![p][b] = Tail(@)])
    /\ UNCHANGED net

-----------------------------------------------------------------------------
(* Sessions and faults.                                                    *)

\* FWDTimerProc dials; the SIDs have been exchanged when the caller proposes.
CanOpen(b, p) == /\ << b, p >> \in net.calls /\ Queued(bbs[b], p) # {}
                 /\ ~conn[b][p].Active /\ ~conn[p][b].Active

Answers(b, p, up, S) == /\ bbs' = [bbs EXCEPT ![b] = S.n]
                        /\ conn' = [conn EXCEPT ![b][p] = S.c, ![p][b] = up]
                        /\ wire' = [wire EXCEPT ![b][p] = S.out, ![p][b] = << >>]

Open(b, p) ==
    /\ CanOpen(b, p)
    /\ \E up \in {[Idle EXCEPT !.Active = TRUE]} :
         Answers(b, p, up, FBBDoForward([n |-> bbs[b], c |-> up, out |-> << >>], p,
                                        << Line("FF") >>))
    /\ UNCHANGED << net, faults >>

Ends(b, p, arrives) ==
    /\ bbs' = [bbs EXCEPT ![b] = Disconnected(bbs[b], conn[b][p], b, p)]
    /\ conn' = [conn EXCEPT ![b][p] = Idle]
    /\ wire' = [wire EXCEPT ![p][b] = << >>, ![b][p] = SubSeq(@, 1, arrives)]
    /\ UNCHANGED net

\* This end closes, or learns that the other end has gone.
Close(b, p) ==
    /\ conn[b][p].Active
    /\ conn[b][p].closing \in {"flush", "disc"} \/ ~conn[p][b].Active
    /\ Ends(b, p, Len(wire[b][p]))
    /\ UNCHANGED faults

\* The link fails: what this end has sent arrives up to some point.
Break(b, p) ==
    /\ conn[b][p].Active /\ conn[p][b].Active /\ faults.breaks < net.max.breaks
    /\ \E arrives \in 0..Len(wire[b][p]) : Ends(b, p, arrives)
    /\ faults' = [faults EXCEPT !.breaks = @ + 1]

\* The BBS is killed and started again: GetRestartData and the message file.
Crash(b) ==
    /\ faults.crashes < net.max.crashes
    /\ bbs' = [bbs EXCEPT ![b].TempBIDs = {}, ![b].RestartData = bbs[b].file,
                          ![b].MsgHddrPtr = [i \in DOMAIN @ |-> [@[i] EXCEPT !.Defered = 0]]]
    /\ conn' = [conn EXCEPT ![b] = [p \in BBSs |-> Idle]]
    /\ \E arrive \in SUBSET BBSs :
         wire' = [q \in BBSs |-> [p \in BBSs |->
                    IF p = b \/ (q = b /\ p \notin arrive) THEN << >> ELSE wire[q][p]]]
    /\ faults' = [faults EXCEPT !.crashes = @ + 1]
    /\ UNCHANGED net

Next == \/ \E b, p \in BBSs : Open(b, p)
        \/ \E b, p \in BBSs : DoReceivedData(b, p)
        \/ \E b, p \in BBSs : Close(b, p)
        \/ \E b, p \in BBSs : Break(b, p)
        \/ \E b \in BBSs : Crash(b)

Spec == Init /\ [][Next]_vars

\* Weak fairness of each action.  It is written out for two of them, with the
\* guard in place of ENABLED, which TLC is slow to work out.
FairSpec ==
    /\ Spec
    /\ \A b, p \in BBSs :
         /\ []<>~CanOpen(b, p) \/ []<><<Open(b, p)>>_vars
         /\ []<>~CanReceive(b, p) \/ []<><<DoReceivedData(b, p)>>_vars
         /\ WF_vars(Close(b, p))

-----------------------------------------------------------------------------
\* A BBS that is no longer to be sent a message has it: a message is not marked
\* as forwarded (FlagSentMessages, ProcessFBBLine) before the other end holds it.
NoLoss == \A b, p \in BBSs : \A i \in DOMAIN bbs[b].MsgHddrPtr :
            p \in bbs[b].MsgHddrPtr[i].forw =>
                LookupBID(bbs[p], bbs[b].MsgHddrPtr[i].bid) # {}

\* A bulletin that is offered by several BBSs at once, or again after a break, is
\* taken once, and so is a personal message where it stays (DoWeWantIt,
\* LookupTempBID, and the comment at FBBRoutines.c:629).
NoDup == \A b \in BBSs : \A m \in Messages :
            TypeOf[m] = "B" \/ net.route[b][m] = {} =>
                Cardinality(LookupBID(bbs[b], m)) <= 1

\* What is stored is the message that was sent, however often the transfer was
\* broken off and restarted and whatever was damaged on the way.
Whole == \A b \in BBSs : \A i \in DOMAIN bbs[b].MsgHddrPtr : bbs[b].MsgHddrPtr[i].whole

\* Every message reaches every BBS it is queued for: neither a deferral nor a
\* temporary BID nor damaged restart data holds it back for good.
AllForwarded == <>[](\A b, p \in BBSs : Queued(bbs[b], p) = {})

\* No session is left up with each end waiting for the other.
SessionEnds == \A b, p \in BBSs : conn[b][p].Active ~> ~conn[b][p].Active
=============================================================================
