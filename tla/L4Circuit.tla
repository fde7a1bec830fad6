----------------------------- MODULE L4Circuit ------------------------------
(***************************************************************************)
(* A NET/ROM circuit between two nodes: Caller connects to the other one,  *)
(* both send, either may close, and either node may restart.  The network  *)
(* between them (level 3 over level 2 links on one route) loses messages   *)
(* and keeps their order.  One action for each event that makes a node run *)
(* a level 4 routine.                                                      *)
(***************************************************************************)
EXTENDS L4Entry

CONSTANTS Node,        \* the two nodes
          Caller,      \* the one that sets the circuit up
          Uses         \* what is asked of the circuit, one record for each case:
                       \*   msgs     [Node -> Nat], messages each session has to send
                       \*   batch    messages queued at a time
                       \*   cap      messages in the network one way; the rest is lost
                       \*   closers  the nodes whose user may close the session
                       \*   busy     the nodes whose session partner may be slow
                       \*   restarts the nodes that may restart, once

ASSUME NodeAssumption   == \E a, b \in Node : a # b /\ Node = {a, b}
ASSUME CallerAssumption == Caller \in Node
ASSUME UsesAssumption   ==
    Uses \subseteq [msgs : [Node -> Nat], batch : Nat \ {0}, cap : Nat,
                    closers : SUBSET Node, busy : SUBSET Node, restarts : SUBSET Node]

VARIABLES sess,        \* the TRANSPORTENTRY of each node
          net,         \* net[s]: the messages on their way to s
          NEXTID,      \* the circuit number each node gives out next
          restarted,   \* the nodes that have been restarted
          use          \* the member of Uses this behaviour is about

vars == << sess, net, NEXTID, restarted, use >>

Other(s) == CHOOSE t \in Node : t # s
BusyChoice(s) == IF s \in use.busy THEN BOOLEAN ELSE {FALSE}

MsgTypes == {"CREQ", "CACK", "INFO", "IACK", "DREQ", "DACK", "RESET"}

Msgs == [type : MsgTypes, id : Nat, tx : SeqNo, rx : Nat, busy : BOOLEAN,
         nak : BOOLEAN, m : Nat]

Entries ==
    [L4STATE : {0, 2, 4, 5}, CIRCUITID : Nat, FARID : Nat, TXSEQNO : SeqNo,
     L4WS : SeqNo, RXSEQNO : SeqNo, L4LASTACKED : SeqNo, L4HOLD_Q : Seq(Msgs),
     L4RESEQ_Q : Seq(Msgs), choked : BOOLEAN, DISCPENDING : BOOLEAN,
     told : BOOLEAN, nak : BOOLEAN, L4TIMER : BOOLEAN, L4ACKREQ : BOOLEAN,
     L4RETRIES : Nat, partner : BOOLEAN, queued : Nat, sent : Nat,
     RX : Seq(Nat), corrupt : BOOLEAN]

Clip(q) == SubSeq(q, 1, IF Len(q) < use.cap THEN Len(q) ELSE use.cap)

\* A routine's result: the new entry of s and what s sends.
Sends(s, r) == /\ sess' = [sess EXCEPT ![s] = r.link]
               /\ net' = [net EXCEPT ![Other(s)] = Clip(@ \o r.out)]
               /\ UNCHANGED << NEXTID, restarted, use >>

\* The same for a handler that consumed the first message on its way to s.
Answers(s, r) == /\ sess' = [sess EXCEPT ![s] = r.link]
                 /\ net' = [net EXCEPT ![s] = Tail(@),
                                       ![Other(s)] = Clip(@ \o r.out)]
                 /\ UNCHANGED << restarted, use >>

\* A message of these types is the next to reach s.
Hears(s, types) == net[s] # << >> /\ Head(net[s]).type \in types

\* Caller has just asked for the circuit.
Init == /\ sess = [s \in Node |-> IF s = Caller
                      THEN SENDL4CONNECT(NewEntry(2, 1, NoId)).link
                      ELSE FreeEntry]
        /\ net = [s \in Node |-> IF s = Caller THEN << >>
                                 ELSE << Control("CREQ", 1) >>]
        /\ NEXTID = [s \in Node |-> IF s = Caller THEN 2 ELSE 1]
        /\ restarted = {}
        /\ use \in Uses

-----------------------------------------------------------------------------
(* The session above, and L4BG.                                            *)

\* IFRM150 of the partner session, or the user, has data for this circuit.
QueueMessages(s) ==
    /\ sess[s].L4STATE = 5 /\ sess[s].partner
    /\ sess[s].queued + use.batch <= use.msgs[s]
    /\ sess' = [sess EXCEPT ![s].queued = @ + use.batch]
    /\ UNCHANGED << net, NEXTID, restarted, use >>

\* The user leaves, or the other half of a crosslink is closed.
CloseSession(s) ==
    /\ s \in use.closers /\ sess[s].partner
    /\ Sends(s, CLOSECURRENTSESSION(sess[s]))

\* L4BG finds something to do for the entry.
CanSend(s) == /\ sess[s].L4STATE # 0
              /\ L4BG(sess[s], FALSE) # Silent(sess[s])

SendPass(s) ==
    /\ CanSend(s)
    /\ \E busy \in BusyChoice(s) : Sends(s, L4BG(sess[s], busy))

-----------------------------------------------------------------------------
(* Messages from the other node.                                           *)

\* FINDCIRCUIT knows a circuit by the caller's node and the caller's number.
IsRepeatCREQ(s, f) == sess[s].L4STATE # 0 /\ sess[s].FARID = f.id

CACK(L) == Msg("CACK", L.FARID, 0, L.CIRCUITID, FALSE, FALSE, 0)

\* CONNECTREQUEST: a repeat is acknowledged again; otherwise the entry is
\* taken, or the request is refused (no entry free, caller not allowed).
RecvCREQ(s) ==
    /\ Hears(s, {"CREQ"})
    /\ LET f == Head(net[s]) IN
       \/ /\ IsRepeatCREQ(s, f)
          /\ Answers(s, [link |-> sess[s], out |-> << CACK(sess[s]) >>])
          /\ UNCHANGED NEXTID
       \/ /\ ~IsRepeatCREQ(s, f) /\ sess[s].L4STATE = 0
          /\ LET L == NewEntry(5, NEXTID[s], f.id)
             IN  Answers(s, [link |-> L, out |-> << CACK(L) >>])
          /\ NEXTID' = [NEXTID EXCEPT ![s] = @ + 1]
       \/ /\ ~IsRepeatCREQ(s, f)
          /\ Answers(s, [link |-> sess[s],
                out |-> << Msg("CACK", f.id, 0, 0, TRUE, FALSE, 0) >>])
          /\ UNCHANGED NEXTID

IsForSession(s, f) == sess[s].L4STATE # 0 /\ sess[s].CIRCUITID = f.id

\* FRAMEFORUS for a message that belongs to the session.
Handle(L, f, busy) ==
    CASE f.type = "CACK" -> RecvCACK(L, f)
      [] f.type = "INFO" -> RecvINFO(L, f, busy)
      [] f.type = "IACK" -> ACKFRAMES(L, f)
      [] f.type = "DREQ" -> RecvDREQ(L)
      [] f.type = "DACK" -> Silent(CLEARSESSIONENTRY)

RecvForSession(s, types) ==
    /\ Hears(s, types) /\ IsForSession(s, Head(net[s]))
    /\ \E busy \in BusyChoice(s) :
          Answers(s, Handle(sess[s], Head(net[s]), busy))
    /\ UNCHANGED NEXTID

RecvData(s)    == RecvForSession(s, {"INFO", "IACK"})
RecvConnect(s) == RecvForSession(s, {"CACK"})
RecvClose(s)   == RecvForSession(s, {"DREQ", "DACK"})

\* No such session: the other node is told by RESET, with the number it used.
RecvNoSession(s) ==
    /\ Hears(s, MsgTypes \ {"CREQ", "RESET"})
    /\ ~IsForSession(s, Head(net[s]))
    /\ Answers(s, [link |-> sess[s],
                   out  |-> << Control("RESET", Head(net[s]).id) >>])
    /\ UNCHANGED NEXTID

\* FRAMEFORUS, L4RESET: found by the number this node was using.
RecvRESET(s) ==
    /\ Hears(s, {"RESET"})
    /\ Answers(s, Silent(IF /\ sess[s].L4STATE # 0
                            /\ sess[s].FARID = Head(net[s]).id
                         THEN CLEARSESSIONENTRY ELSE sess[s]))
    /\ UNCHANGED NEXTID

\* The network loses a message.
LoseMessage(s) == /\ net[s] # << >>
                  /\ net' = [net EXCEPT ![s] = Tail(@)]
                  /\ UNCHANGED << sess, NEXTID, restarted, use >>

-----------------------------------------------------------------------------
(* L4SecTimer.                                                             *)

TimerExpires(s) == /\ sess[s].L4TIMER
                   /\ Sends(s, L4TIMEOUT(Retried(sess[s])))

\* The delayed acknowledgement.
SendAck(s) ==
    /\ sess[s].L4ACKREQ
    /\ \E busy \in BusyChoice(s) :
          Sends(s, SENDL4IACK([sess[s] EXCEPT !.L4ACKREQ = FALSE], busy))

FreeAgain(L) == [L EXCEPT !.told = FALSE, !.L4ACKREQ = TRUE]

\* The other end was told we are busy, and we no longer are.
BusyOver(s) == /\ sess[s].told
               /\ Sends(s, Silent(FreeAgain(sess[s])))

\* L4KILLTIMER is cleared by data in either direction and its limit is far
\* longer than the other timers: it waits for a circuit on which nothing moves.
Idle(s) == /\ sess[s].L4STATE # 0 /\ ~sess[s].L4TIMER /\ ~sess[s].L4ACKREQ
           /\ ~CanSend(s) /\ \A t \in Node : net[t] = << >>

KillTimer(s) == /\ Idle(s)
                /\ Sends(s, CLOSECURRENTSESSION(sess[s]))

\* The node is restarted: L4TABLE is empty.  NEXTID starts at a random number,
\* here at one that is not in use.
Restart(s) == /\ s \in use.restarts \ restarted
              /\ sess' = [sess EXCEPT ![s] = FreeEntry]
              /\ restarted' = restarted \cup {s}
              /\ UNCHANGED << net, NEXTID, use >>

-----------------------------------------------------------------------------
Receive(s) == \/ RecvCREQ(s) \/ RecvData(s) \/ RecvConnect(s) \/ RecvClose(s)
              \/ RecvNoSession(s) \/ RecvRESET(s)

Timer(s) == TimerExpires(s) \/ SendAck(s) \/ BusyOver(s) \/ KillTimer(s)

\* What a node does after it has handed on a buffer it still has on a queue is
\* the end of what this module covers.
Next == /\ \A s \in Node : ~sess[s].corrupt
        /\ \E s \in Node : QueueMessages(s) \/ CloseSession(s) \/ SendPass(s)
                           \/ Receive(s) \/ LoseMessage(s) \/ Timer(s)
                           \/ Restart(s)

Spec == Init /\ [][Next]_vars

(***************************************************************************)
(* The nodes keep running: messages that arrive are read, L4BG and the     *)
(* timers run.  Each conjunct is weak fairness of an action with the       *)
(* condition that enables it written out.  Users are not obliged to do     *)
(* anything, and the network may lose every message.                       *)
(***************************************************************************)
Fairness == \A s \in Node :
    /\ []<>(net[s] = << >>) \/ []<><<Receive(s)>>_vars
    /\ []<>(~CanSend(s)) \/ []<><<SendPass(s)>>_vars
    /\ []<>(~sess[s].L4TIMER) \/ []<><<TimerExpires(s)>>_vars
    /\ []<>(~sess[s].L4ACKREQ) \/ []<><<SendAck(s)>>_vars
    /\ []<>(~Idle(s)) \/ []<><<KillTimer(s)>>_vars

FairSpec == Spec /\ Fairness

-----------------------------------------------------------------------------
(* Properties.                                                             *)

\* Entries and messages have the types of TRANSPORTENTRY and of the frames.
TypeOK == /\ sess \in [Node -> Entries]
          /\ net \in [Node -> Seq(Msgs)]
          /\ NEXTID \in [Node -> Nat]
          /\ restarted \subseteq Node
          /\ use \in Uses

\* The two ends of one circuit know each other.
Joined(s, t) == /\ sess[s].L4STATE \in {4, 5} /\ sess[t].L4STATE \in {4, 5}
                /\ sess[s].FARID = sess[t].CIRCUITID
                /\ sess[t].FARID = sess[s].CIRCUITID

\* The hold queue is what was sent and not acknowledged, each message once,
\* under its own number, no more than the window test lets out: what
\* SENDL4MESSAGE, L4TIMEOUT and ACKFRAMES together keep.
HoldInv ==
    \A s \in Node : LET L == sess[s] IN
        /\ Len(L.L4HOLD_Q) = Outstanding(L) /\ Len(L.L4HOLD_Q) <= L4WINDOW + 1
        /\ \A k \in DOMAIN L.L4HOLD_Q :
              /\ L.L4HOLD_Q[k].tx = Plus(L.L4WS, k - 1)
              /\ L.L4HOLD_Q[k].m = L.sent - Len(L.L4HOLD_Q) + k

\* "windowed in-order delivery": what a session is handed is what the other
\* end's session queued, in that order, with none missing and none twice.
InOrder == \A s \in Node : \A k \in DOMAIN sess[s].RX : sess[s].RX[k] = k

\* Nothing leaves the hold queue before the other end has it, unless that end
\* is closing and wants no more.
AckedIsReceived ==
    \A s \in Node : LET t == Other(s) IN
        Joined(s, t) => \/ sess[t].DISCPENDING \/ sess[t].L4STATE = 4
                        \/ sess[s].sent - Len(sess[s].L4HOLD_Q) <= Len(sess[t].RX)

\* Data that is due is the next thing to arrive at s.
DueArrives(s) ==
    /\ Hears(s, {"INFO"}) /\ IsForSession(s, Head(net[s]))
    /\ Head(net[s]).tx = sess[s].RXSEQNO

\* The other end will resend it when its timer runs down.
DueIsHeld(s) == LET q == sess[Other(s)].L4HOLD_Q
                IN  \E k \in DOMAIN q : q[k].tx = sess[s].RXSEQNO

\* Data that is resent for ever is not lost for ever (L4RETRIES does not see to
\* that: an acknowledgement that acknowledges nothing sets it to 0).
PathIsFair == \A s \in Node :
    []<><<TimerExpires(Other(s)) /\ DueIsHeld(s)>>_vars =>
        []<><<RecvData(s) /\ DueArrives(s)>>_vars

\* The conditions of the promises below: the network does not lose one message
\* for ever, and no session stays busy.
Settled == PathIsFair /\ <>[](\A s \in Node : ~sess[s].told)

\* A message that was queued reaches the other session or the circuit goes
\* down: neither losses, nor a choke whose end was lost, nor a restart of the
\* other node leave it up for ever with the message still to be passed on.
DeliveredOrClosed ==
    Settled => \A s \in Node : \A n \in UNION {1..u.msgs[s] : u \in Uses} :
        sess[s].queued >= n ~> \/ Len(sess[Other(s)].RX) >= n
                              \/ sess[s].L4STATE = 0

\* A session that was closed by its user gives its entry back.
CloseCompletes ==
    Settled => \A s \in Node :
        sess[s].L4STATE # 0 /\ ~sess[s].partner ~> sess[s].L4STATE = 0

\* A call ends up connected or is given up: no loss leaves it waiting.
CallIsAnswered == sess[Caller].L4STATE = 2 ~> sess[Caller].L4STATE # 2
=============================================================================
