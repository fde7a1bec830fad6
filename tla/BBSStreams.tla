----------------------------- MODULE BBSStreams -----------------------------
(***************************************************************************)
(* The streams between the BBS and the node: the node's BPQVECSTRUC and    *)
(* the BBS's ConnectionInfo of each, the state that forwarding keeps for   *)
(* each partner, and the BBS's routines that change them, as operators     *)
(* from the state S = [conn, host, fwd] before the call to the state       *)
(* after it.                                                               *)
(*                                                                         *)
(* A connect script is two lines, "INTERLOCK InterlockPort" and the        *)
(* connect command: ELSE, PAUSE and TIMES are left out, and so are the     *)
(* interlock groups, which are counted the same way.                       *)
(***************************************************************************)
EXTENDS Integers, Sequences, SequencesExt, FiniteSets

CONSTANTS NumberofStreams,
          Partner,          \* callers with F_BBS
          Caller,           \* all who may call in
          Stranger,         \* the callers that OnlyKnown turns away
          NoUser,           \* UserPointer is NULL
          Port,             \* radio ports, numbered from 1
          InterlockPort     \* the one named in the scripts' INTERLOCK lines

\* TNCTimerProc serves as many fewer of the 64 host streams as it finds to be
\* disconnected without a session (its continue stays on the stream), so the
\* last half may wait for another turn.
ASSUME StreamAssumption  == NumberofStreams \in 1..32
ASSUME CallerAssumption  == /\ Partner \subseteq Caller /\ Stranger \subseteq Caller
                            /\ Partner \cap Stranger = {} /\ NoUser \notin Caller
ASSUME PortAssumption    == InterlockPort \in Port /\ Port \subseteq Nat \ {0}

Stream == 1..NumberofStreams

(***************************************************************************)
(* conn[n]: of BBSFlags, running is RunningConnectScript and outward       *)
(* OUTWARDCONNECT.  timed: the session has a SessionStartTime; one that    *)
(* was refused has none.  hit is MaxSessionTimeHit.  A stream that is      *)
(* taken is cleared first, so nothing of an ended session is kept.         *)
(***************************************************************************)
IdleConn == [Active |-> FALSE, user |-> NoUser, running |-> FALSE,
             outward |-> FALSE, timed |-> FALSE, hit |-> FALSE]

(***************************************************************************)
(* host[n]: sess is HOSTSESSION: "none" (NULL), "node" (at the command     *)
(* handler), "calling" (a connect command was sent) or "linked" (to peer). *)
(* port is 0 until L4CROSSLINK is set.  change and disc are the bits 3 and *)
(* 0x40 of HOSTFLAGS; line is what has arrived for the BBS.                *)
(***************************************************************************)
IdleHost == [sess |-> "none", peer |-> NoUser, port |-> 0, change |-> FALSE,
             disc |-> FALSE, line |-> "none"]

\* HOSTSESSION is cleared, and what was queued on it is gone.
Dropped(H) == [IdleHost EXCEPT !.change = TRUE, !.disc = H.disc]

\* fwd[p]; locked is LockoutUntil > time(NULL).
IdleFwd == [Forwarding |-> FALSE, ScriptIndex |-> -1, MoreLines |-> FALSE,
            locked |-> FALSE]

\* Scripts[i] is NULL: the end of the script.
ScriptEnd == 2

-----------------------------------------------------------------------------
(* The stream API.                                                         *)

\* SessionControl, 2: disconnect.
Disconnect(S, n) == IF S.host[n].sess = "none"
                    THEN [S EXCEPT !.host[n].change = TRUE]
                    ELSE [S EXCEPT !.host[n].disc = TRUE]

\* SessionControl, 0: connect using appl mask.  full: the tables are full.
ConnectUsingAppl(S, n, full) ==
    [S EXCEPT !.host[n].change = TRUE,
              !.host[n].sess = IF @ = "none" /\ ~full THEN "node" ELSE @]

\* The port GetConnectionInfo returns, if there is a HOSTSESSION: that of the
\* link, from when the node has begun to call on it.
LinkPort(H) == IF H.sess \in {"calling", "linked"} THEN H.port ELSE 0

-----------------------------------------------------------------------------
(* BBSSessionControl.c, and CountConnectionsOnPort.                        *)

Active(S) == {n \in Stream : S.conn[n].Active}
WithPartner(S) == {n \in Active(S) : S.conn[n].user \in Partner}

(***************************************************************************)
(* The sessions on a port, as counted by way of GetConnectionInfo.  It     *)
(* leaves port alone when there is no HOSTSESSION, so such a session       *)
(* counts for the port of the one before it, and the first one for         *)
(* whatever port held (stray).                                             *)
(***************************************************************************)
SeenPort(S, counted, n, stray) ==
    LET known == {m \in counted : m <= n /\ S.host[m].sess # "none"}
    IN  IF known = {} THEN stray ELSE LinkPort(S.host[Max(known)])

CountOnPort(S, counted, port, stray) ==
    Cardinality({n \in counted : SeenPort(S, counted, n, stray) = port})

\* The same by way of StreamPortLocked, which knows no port without a session.
CountLocked(S, counted, port) ==
    Cardinality({n \in counted : LinkPort(S.host[n]) = port})

\* Who counts against a caller: everyone for a partner, the partners for others.
Against(S, c) == IF c \in Partner THEN Active(S) ELSE WithPartner(S)

\* Mutant: a partner that calls is taken for two of the sessions counted.
RefuseIncomingSession_TwoOwn(S, c, port, stray) ==
    \/ c \in Partner /\ S.fwd[c].locked
    \/ /\ port = InterlockPort
       /\ CountOnPort(S, Against(S, c), port, stray) > IF c \in Partner THEN 2 ELSE 0

\* The counts include the caller's own session if it is a partner's.
RefuseIncomingSession(S, c, port, stray) ==
    \/ c \in Partner /\ S.fwd[c].locked
    \/ /\ port = InterlockPort
       /\ CountOnPort(S, Against(S, c), port, stray) > IF c \in Partner THEN 1 ELSE 0

\* L2SABM asks before the caller has a session.
RefuseBBSLinkRequest(S, c, port) ==
    /\ c \in Partner
    /\ \/ S.fwd[c].locked
       \/ port = InterlockPort /\ CountLocked(S, Against(S, c), port) > 0

-----------------------------------------------------------------------------
(* The connect script.                                                     *)

SetIndex(S, p, i) == [S EXCEPT !.fwd[p].ScriptIndex = i]

\* "BBSFlags &= ~RunningConnectScript", "so it doesn't get reentered".
Quit(S, n) == Disconnect([S EXCEPT !.conn[n].running = FALSE], n)

\* The connect command goes to whatever the stream is attached to.
SendCommand(S, n) ==
    [S EXCEPT !.host[n].sess = IF @ = "node" THEN "calling" ELSE @]

\* A step of the script succeeded: on to its next line, past INTERLOCK.
NextLine(S, n, stray) ==
    LET p == S.conn[n].user
        i == S.fwd[p].ScriptIndex + 1
    IN  IF i = 0 /\ CountOnPort(S, Active(S), InterlockPort, stray) > 0
        THEN Quit(SetIndex(S, p, 0), n)
        ELSE IF i <= 1 THEN SendCommand(SetIndex(S, p, 1), n)
        ELSE [SetIndex(S, p, i) EXCEPT !.fwd[p].MoreLines = FALSE]

\* The script is over: look for the other BBS's prompt.
CheckForSID(S, n, line) ==
    IF line = "prompt" THEN [S EXCEPT !.conn[n].running = FALSE] ELSE S

\* ProcessBBSConnectScript.  "event" is the text that Connected passes,
\* "failure" any text that says the connect has failed.
ProcessBBSConnectScript(S, n, line, stray) ==
    LET p    == S.conn[n].user
        i    == S.fwd[p].ScriptIndex
        T    == IF i = ScriptEnd /\ line # "event"
                THEN [S EXCEPT !.fwd[p].MoreLines = FALSE] ELSE S
        more == T.fwd[p].MoreLines
    IN  IF i # -1 /\ line # "event" /\ ~more THEN CheckForSID(T, n, line)
        ELSE IF line = "failure" THEN Quit(SetIndex(T, p, ScriptEnd), n)
        ELSE IF line \in {"event", "connected"} THEN NextLine(T, n, stray)
        ELSE IF more THEN T
        ELSE CheckForSID(T, n, line)

-----------------------------------------------------------------------------
(* Sessions.                                                               *)

\* Mutant: the time of a caller's session is not taken.
Incoming_NotTimed(S, n, stray) ==
    LET c == S.host[n].peer
        N == [S EXCEPT !.conn[n] = [IdleConn EXCEPT !.Active = TRUE, !.user = c]]
    IN  IF c \in Stranger
        THEN Disconnect([N EXCEPT !.conn[n].user = NoUser], n)
        ELSE IF RefuseIncomingSession(N, c, LinkPort(S.host[n]), stray)
        THEN Disconnect(N, n) ELSE N

\* A caller's session: memset, the user found, refused or timed.
Incoming(S, n, stray) ==
    LET c == S.host[n].peer
        N == [S EXCEPT !.conn[n] = [IdleConn EXCEPT !.Active = TRUE, !.user = c]]
    IN  IF c \in Stranger
        THEN Disconnect([N EXCEPT !.conn[n].user = NoUser], n)
        ELSE IF RefuseIncomingSession(N, c, LinkPort(S.host[n]), stray)
        THEN Disconnect(N, n)
        ELSE [N EXCEPT !.conn[n].timed = TRUE]

Connected(S, n, stray) ==
    IF S.conn[n].Active /\ S.conn[n].running
    THEN ProcessBBSConnectScript(S, n, "event", stray)
    ELSE Incoming(S, n, stray)

\* Mutant: BBSFlags are not cleared.
Close_KeepsFlags(S, n) ==
    LET p == S.conn[n].user
        T == [S EXCEPT !.conn[n] = [IdleConn EXCEPT !.running = S.conn[n].outward]]
    IN  IF p \in Partner THEN [T EXCEPT !.fwd[p].Forwarding = FALSE] ELSE T

\* The end of Disconnected.
Close(S, n) ==
    LET p == S.conn[n].user
        T == [S EXCEPT !.conn[n] = IdleConn]
    IN  IF p \in Partner THEN [T EXCEPT !.fwd[p].Forwarding = FALSE] ELSE T

(***************************************************************************)
(* Disconnected: a script that has lines left is run again, to look for an *)
(* ELSE.  With ScriptIndex -1, as it is when a call fails before its first *)
(* line, Scripts[-1] is read (junk: it is not NULL); Scripts[-2] is next   *)
(* if MoreLines was left FALSE.                                            *)
(***************************************************************************)
Disconnected(S, n, stray, junk) ==
    LET p == S.conn[n].user
        i == S.fwd[p].ScriptIndex
        T == IF S.fwd[p].MoreLines THEN S
             ELSE [SetIndex(S, p, i - 1) EXCEPT !.fwd[p].MoreLines = TRUE]
    IN  IF ~S.conn[n].Active THEN S
        ELSE IF ~S.conn[n].running THEN Close(S, n)
        ELSE IF i \in 0..(ScriptEnd - 1) \/ (i = -1 /\ junk)
        THEN IF i = -1 /\ ~S.fwd[p].MoreLines THEN T
             ELSE ProcessBBSConnectScript(T, n, "failure", stray)
        ELSE Close(S, n)

\* PollStreams: SessionState, which clears the change, and what follows.
HandleChange(S, n, stray, junk) ==
    LET T == [S EXCEPT !.host[n].change = FALSE]
    IN  IF ~S.host[n].change THEN S
        ELSE IF S.host[n].sess # "none" THEN Connected(T, n, stray)
        ELSE Disconnected(T, n, stray, junk)

\* ProcessLine: a SID starts a mail run, FQ or B ends the session.
ProcessLine(S, n, line) ==
    LET p == S.conn[n].user
    IN  IF line = "quit" THEN Disconnect(S, n)
        ELSE IF line # "sid" \/ p \notin Partner THEN S
        ELSE IF S.fwd[p].Forwarding /\ ~S.conn[n].outward THEN Disconnect(S, n)
        ELSE [S EXCEPT !.fwd[p].Forwarding = TRUE]

Discard(S, n) == [S EXCEPT !.host[n].line = "none"]

\* Mutant: the caller's line is run although the caller was refused.
GuardPasses_Refused(S, n) == S.conn[n].Active /\ S.conn[n].user # NoUser

\* BBSStreamReadyForData, after it has handled the pending connect.
GuardPasses(S, n) == /\ S.conn[n].Active /\ S.conn[n].user # NoUser
                     /\ ~S.host[n].disc

DoReceivedData(S, n, stray, junk) ==
    LET ready == S.conn[n].Active /\ S.conn[n].user # NoUser
        T     == IF ready THEN S ELSE HandleChange(S, n, stray, junk)
        line  == T.host[n].line
        D     == Discard(T, n)
    IN  IF line = "none" \/ (~ready /\ ~(S.host[n].change /\ GuardPasses(T, n)))
        THEN D
        ELSE IF D.conn[n].running
        THEN ProcessBBSConnectScript(D, n, line, stray)
        ELSE ProcessLine(D, n, line)

\* PollStreams for one stream.
PollStream(S, n, stray, junk) ==
    HandleChange(DoReceivedData(S, n, stray, junk), n, stray, junk)

-----------------------------------------------------------------------------
(* The BBS's timers.                                                       *)

\* ConnecttoBBS, on the highest stream that is free.
ConnecttoBBS(S, p, full) ==
    LET free == Stream \ Active(S)
        n    == Max(free)
        T    == [S EXCEPT !.conn[n] = [IdleConn EXCEPT !.Active = TRUE, !.user = p,
                            !.running = TRUE, !.outward = TRUE, !.timed = TRUE],
                          !.fwd[p].MoreLines = TRUE]
        U    == ConnectUsingAppl(T, n, full)
    IN  IF S.fwd[p].locked \/ free = {} THEN S
        ELSE [U EXCEPT !.fwd[p].Forwarding = @ \/ U.host[n].sess # "none"]

\* FWDTimerProc for a partner that has mail and whose interval is over.
Dial(S, p, full) == IF S.fwd[p].Forwarding THEN S
                    ELSE ConnecttoBBS(SetIndex(S, p, -1), p, full)

\* CheckMaxSessionTime, for a session that is over the limit.
CheckMaxSessionTime(S, n) ==
    Quit([S EXCEPT !.conn[n].hit = TRUE, !.fwd[S.conn[n].user].locked = TRUE], n)

\* The sessions whose time is limited.
Limited(S, n) == /\ S.conn[n].Active /\ S.conn[n].timed /\ ~S.conn[n].hit
                 /\ S.conn[n].user \in Partner

\* BBSSlowTimer for one stream; over: the sessions past MaxSessionTime.
SlowTimer(S, n, over) ==
    IF ~S.conn[n].Active THEN S
    ELSE IF S.host[n].sess = "none" THEN Close(S, n)
    ELSE IF n \in over /\ Limited(S, n) THEN CheckMaxSessionTime(S, n)
    ELSE S
=============================================================================
