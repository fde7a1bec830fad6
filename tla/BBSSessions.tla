---------------------------- MODULE BBSSessions -----------------------------
(***************************************************************************)
(* BBS and node over their streams.  The main loop alternates: the node    *)
(* handles what its links bring (TIMERINTERRUPT, ending with TNCTimerProc),*)
(* then the BBS polls each stream and runs its timers                      *)
(* (UnSemaphored100msCode).  Nothing runs in between; what varies is what  *)
(* happens on the links before each pass and which timers are due.         *)
(***************************************************************************)
EXTENDS BBSStreams

CONSTANT Chain              \* BBSChain: the partners, in the order they are tried

ASSUME ChainAssumption == /\ Chain \in Seq(Partner)
                          /\ Partner = {Chain[i] : i \in DOMAIN Chain}

VARIABLES conn, host, fwd,
          turn              \* what runs next: see the definitions below

vars == << conn, host, fwd, turn >>

NodeTurn == 0               \* the node; then 1..NumberofStreams, PollStreams
FwdTurn  == NumberofStreams + 1
SlowTurn == NumberofStreams + 2

State == [conn |-> conn, host |-> host, fwd |-> fwd]
Becomes(S) == conn' = S.conn /\ host' = S.host /\ fwd' = S.fwd

Conns == [Active : BOOLEAN, user : Caller \cup {NoUser}, running : BOOLEAN,
          outward : BOOLEAN, timed : BOOLEAN, hit : BOOLEAN]
Lines == {"connected", "failure", "sid", "prompt", "quit"}
Hosts == [sess : {"none", "node", "calling", "linked"},
          peer : Caller \cup {NoUser}, port : Port \cup {0}, change : BOOLEAN,
          disc : BOOLEAN, line : Lines \cup {"none"}]
Fwds  == [Forwarding : BOOLEAN, ScriptIndex : -2..(ScriptEnd + 1),
          MoreLines : BOOLEAN, locked : BOOLEAN]

Init == /\ conn = [n \in Stream |-> IdleConn]
        /\ host = [n \in Stream |-> IdleHost]
        /\ fwd = [p \in Partner |-> IdleFwd]
        /\ turn = NodeTurn

-----------------------------------------------------------------------------
(* The node's turn.                                                        *)

InTurn(t) == turn = t /\ UNCHANGED turn
Linked(c, port) == \E n \in Stream : /\ host[n].sess = "linked"
                                     /\ host[n].peer = c /\ host[n].port = port

\* cATTACHTOBBS: the first stream with no session and no report outstanding.
Free == {n \in Stream : host[n].sess = "none" /\ ~host[n].change}

\* A caller is put through to the BBS: direct, by a link to its application
\* call (L2SABM asks first), or by the node's BBS command.
CallIn(c, port, direct) ==
    /\ InTurn(NodeTurn) /\ Free # {} /\ ~Linked(c, port)
    /\ direct => ~RefuseBBSLinkRequest(State, c, port)
    /\ host' = [host EXCEPT ![Min(Free)] =
                  [@ EXCEPT !.sess = "linked", !.peer = c, !.port = port,
                            !.change = TRUE]]
    /\ UNCHANGED << conn, fwd >>

\* The connect command waits for L4BG, which hands it to the command handler.
Waiting(n) == host[n].sess = "calling" /\ host[n].port = 0

\* The node carries the command out: it crosslinks the session and calls.
Call(n) ==
    /\ InTurn(NodeTurn) /\ Waiting(n)
    /\ host' = [host EXCEPT ![n].port = InterlockPort]
    /\ UNCHANGED << conn, fwd >>

\* The command is refused, or the call ends: it fails, or the link is up.
CallOut(n) ==
    /\ InTurn(NodeTurn) /\ host[n].sess = "calling"
    /\ LET p == conn[n].user
       IN  \/ host' = [host EXCEPT ![n].sess = "node", ![n].port = 0,
                                   ![n].line = "failure"]
           \/ /\ ~Waiting(n) /\ ~Linked(p, InterlockPort)
              /\ host' = [host EXCEPT ![n].sess = "linked", ![n].peer = p,
                                      ![n].line = "connected"]
    /\ UNCHANGED << conn, fwd >>

\* The far end sends a line.
LineIn(n, line) ==
    /\ InTurn(NodeTurn) /\ host[n].sess = "linked" /\ host[n].line = "none"
    /\ line \in {"sid", "prompt"} => host[n].peer \in Partner
    /\ host' = [host EXCEPT ![n].line = line]
    /\ UNCHANGED << conn, fwd >>

\* CLOSECURRENTSESSION: the far end leaves, or the session has been idle.
Drop(n) ==
    /\ InTurn(NodeTurn) /\ host[n].sess # "none"
    /\ host' = [host EXCEPT ![n] = Dropped(@)]
    /\ UNCHANGED << conn, fwd >>

\* LockoutUntil passes.
LockoutEnds(p) ==
    /\ InTurn(NodeTurn) /\ fwd[p].locked
    /\ fwd' = [fwd EXCEPT ![p].locked = FALSE]
    /\ UNCHANGED << conn, host >>

\* Mutant: the request stays when the session has gone by itself.
TNCTimerProc_KeepsFlag ==
    /\ turn = NodeTurn /\ turn' = 1 /\ \A n \in Stream : ~Waiting(n)
    /\ host' = [n \in Stream |->
                  IF host[n].disc /\ host[n].sess # "none"
                  THEN [Dropped(host[n]) EXCEPT !.disc = FALSE] ELSE host[n]]
    /\ UNCHANGED << conn, fwd >>

\* TNCTimerProc carries out the disconnects that were asked for, after L4BG
\* has handed over the commands.
TNCTimerProc ==
    /\ turn = NodeTurn /\ turn' = 1 /\ \A n \in Stream : ~Waiting(n)
    /\ host' = [n \in Stream |->
                  IF host[n].disc THEN [Dropped(host[n]) EXCEPT !.disc = FALSE]
                  ELSE host[n]]
    /\ UNCHANGED << conn, fwd >>

-----------------------------------------------------------------------------
(* The BBS's turn.                                                         *)

\* What is read outside the script's array is where this module ends.
InScript == \A p \in Partner : fwd[p].ScriptIndex \in -1..ScriptEnd

Poll(n) ==
    /\ turn = n /\ turn' = n + 1 /\ InScript
    /\ \E stray \in Port \cup {0}, junk \in BOOLEAN :
          Becomes(PollStream(State, n, stray, junk))

\* Every 2 s: the partners that are due, in the order of BBSChain.
FWDTimerProc ==
    /\ turn = FwdTurn /\ turn' = SlowTurn
    /\ \E due \in SUBSET Partner : \E full \in SUBSET due :
          Becomes(FoldLeft(LAMBDA S, p : IF p \in due THEN Dial(S, p, p \in full)
                                         ELSE S, State, Chain))

\* Every 10 s.
BBSSlowTimer(over) ==
    /\ turn = SlowTurn /\ turn' = NodeTurn
    /\ Becomes(FoldLeft(LAMBDA S, n : SlowTimer(S, n, over), State,
                        [n \in Stream |-> n]))

NoSlowTimer == /\ turn = SlowTurn /\ turn' = NodeTurn
               /\ UNCHANGED << conn, host, fwd >>

Next == \/ \E c \in Caller, port \in Port, direct \in BOOLEAN : CallIn(c, port, direct)
        \/ \E n \in Stream : Call(n) \/ CallOut(n) \/ Drop(n) \/ Poll(n)
        \/ \E n \in Stream, line \in {"sid", "prompt", "quit"} : LineIn(n, line)
        \/ \E p \in Partner : LockoutEnds(p)
        \/ TNCTimerProc \/ FWDTimerProc \/ NoSlowTimer
        \/ \E over \in SUBSET Stream : BBSSlowTimer(over)

Spec == Init /\ [][Next]_vars

(***************************************************************************)
(* The main loop keeps turning, and time passes: a partner's session that  *)
(* goes on gets past MaxSessionTime.  Nothing is assumed of the far ends.  *)
(***************************************************************************)
Runs(n) == Limited(State, n)

Fairness == /\ WF_vars(Next)
            /\ \A n \in Stream :
                  []<>(~Runs(n)) \/ []<><<\E over \in SUBSET Stream :
                                           n \in over /\ BBSSlowTimer(over)>>_vars

FairSpec == Spec /\ Fairness

-----------------------------------------------------------------------------
(* Properties.                                                             *)

\* Each record has the type of its struct, and a stream that runs a script is
\* open and has a partner, whose ForwardingInfo the script goes by.
TypeOK == /\ conn \in [Stream -> Conns] /\ host \in [Stream -> Hosts]
          /\ fwd \in [Partner -> Fwds] /\ turn \in NodeTurn..SlowTurn
          /\ \A n \in Stream : conn[n].running =>
                conn[n].Active /\ conn[n].user \in Partner

\* A disconnect request is for the session it was made for: a stream that may
\* be taken by a new call, from the node or by ConnecttoBBS, has none pending.
FreeHasNoDisc ==
    \A n \in Stream :
        (n \in Free \/ (~conn[n].Active /\ turn # NodeTurn)) => ~host[n].disc

\* A partner is marked as forwarding only while a session with it is open that
\* was accepted or dialled: the line of a caller who was refused never starts
\* a mail run, and no mark is left behind that would stop all later ones.
ForwardingHasSession ==
    \A p \in Partner : fwd[p].Forwarding =>
        \E n \in Stream : conn[n].Active /\ conn[n].user = p /\ conn[n].timed

\* The callers that were accepted on the interlocked port and are still there.
AcceptedCall(n) == /\ conn[n].Active /\ conn[n].timed /\ ~conn[n].outward
                   /\ host[n].sess = "linked" /\ host[n].port = InterlockPort

\* "a partner BBS is refused while any other BBS session is on them, anyone
\* else while a partner session (a mail run) is": of the callers accepted on
\* the interlocked port a partner is alone, whatever the order of calls,
\* polls and disconnects.
IncomingAlone ==
    \A m, n \in Stream : AcceptedCall(m) /\ AcceptedCall(n) /\ m # n
                            => conn[m].user \notin Partner

\* The state when a caller has been put through on stream n and is polled.
Arrived(n, c, port) ==
    [State EXCEPT !.host[n] = [IdleHost EXCEPT !.sess = "linked", !.peer = c,
                                 !.port = port],
                  !.conn[n] = [IdleConn EXCEPT !.Active = TRUE, !.user = c]]

\* "If RefuseIncomingSession would turn it away anyway": a link that L2SABM
\* answers with DM is one that the BBS would have refused.
DMOnlyIfRefused ==
    \A p \in Partner, port \in Port, n \in Stream, stray \in Port \cup {0} :
        RefuseBBSLinkRequest(State, p, port) /\ ~conn[n].Active
        => RefuseIncomingSession(Arrived(n, p, port), p, port, stray)

\* A partner that is marked as forwarding is free again some day, whatever the
\* far end and the link do, unless the script index leaves the script.
RunEnds == \A p \in Partner :
              fwd[p].Forwarding ~> (~fwd[p].Forwarding \/ ~InScript)
=============================================================================
