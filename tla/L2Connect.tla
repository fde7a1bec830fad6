------------------------------ MODULE L2Connect ------------------------------
(***************************************************************************)
(* Setting up, refusing and clearing an AX.25 link: the connection half of *)
(* L2Code.c.  Two stations, each with the _LINKTABLE entry for the other,  *)
(* the table of level 4 sessions that entries point into, and a user who   *)
(* calls the other station.  Calls cross, answers are late or lost, either *)
(* end may lose the link without the other hearing of it.                  *)
(*                                                                         *)
(* An entry belongs to a pair of calls, so both directions of a BBS link,  *)
(* which calls under the call it is called by, share it (FindLink).        *)
(* Left out: node to node links (LINKTYPE 3), the reset of a link that is  *)
(* up (L2Data ends there), SABME and TEST, GetBuff() returning NULL, and   *)
(* the numbering of the frames: "I" stands for data that asks for an       *)
(* acknowledgement, and "RR(F)" acknowledges all that was sent.            *)
(***************************************************************************)
EXTENDS Integers, Sequences, SequencesExt

CONSTANTS Station,     \* the two ends
          Callers,     \* those whose user calls the other
          XIDCallers,  \* those that may call with NC: XID first, then SABM
          XIDMayCross, \* such a call may cross one of the other end
          Appl,        \* those called at the call of an application
          MayRefuse,   \* those that may refuse a call
          Others,      \* those whose L4TABLE other users may have filled
          MAXCIRCUITS, \* entries of L4TABLE
          MaxCalls,    \* bound: [Callers -> Nat], the calls each user makes
          PORTN2,      \* the RETRIES keyword
          AirCap       \* bound: frames in the air one way; the rest is lost

ASSUME StationAssumption == \E a, b \in Station : a # b /\ Station = {a, b}
ASSUME CallersAssumption == /\ Callers \subseteq Station
                            /\ XIDCallers \subseteq Callers
                            /\ XIDMayCross \in BOOLEAN
                            /\ Appl \subseteq Station
                            /\ MayRefuse \subseteq Station
                            /\ Others \subseteq Station
ASSUME BoundAssumption   == /\ MAXCIRCUITS \in Nat \ {0} /\ MaxCalls \in [Callers -> Nat]
                            /\ PORTN2 \in Nat \ {0} /\ AirCap \in Nat

VARIABLES node,        \* node[s]: the entry for the other station and L4TABLE
          air,         \* air[s]: the frames on their way to s: the commands SABM,
                       \* DISC, XID, I and RR, all with P, and the responses UA,
                       \* DM, XID(F) and RR(F)
          calls        \* calls[s]: how many calls the user of s has made

vars == << node, air, calls >>

Other(s) == CHOOSE t \in Station : t # s

(***************************************************************************)
(* What becomes of a session entry: "call" is a downlink that is being set *)
(* up (its L4STATE is not 5 yet), "up" one that is up, "in" the session of *)
(* an incoming link, "other" one that has nothing to do with this link.    *)
(* told: what the user who called has last been told.                      *)
(***************************************************************************)
Sessions == 1..MAXCIRCUITS
None     == 0                                           \* no CIRCUITPOINTER
Answers  == {"connected", "busy", "failed"}

EmptyLink ==
    [L2STATE |-> 0, LINKTYPE |-> 0, CIRCUITPOINTER |-> None, L2TIMER |-> FALSE,
     L2RETRIES |-> 0, L2SLOTIM |-> FALSE, SESSACTIVE |-> FALSE,
     unacked |-> FALSE]

Clip(q) == SubSeq(q, 1, IF Len(q) < AirCap THEN Len(q) ELSE AirCap)

Init == /\ \E full \in SUBSET Others :
              node = [s \in Station |->
                        [link |-> EmptyLink, told |-> "none",
                         L4TABLE |-> [i \in Sessions |->
                             IF s \in full THEN "other" ELSE "free"]]]
        /\ air = [s \in Station |-> << >>]
        /\ calls = [s \in Station |-> 0]

\* The node of s becomes n and s sends the frames of out.
Sends(s, n, out) ==
    /\ node' = [node EXCEPT ![s] = n]
    /\ air' = [air EXCEPT ![Other(s)] = Clip(@ \o out)]
    /\ UNCHANGED calls

\* The same for a handler that took the first frame on its way to s.
Replies(s, n, out) ==
    /\ node' = [node EXCEPT ![s] = n]
    /\ air' = [air EXCEPT ![s] = Tail(@), ![Other(s)] = Clip(@ \o out)]
    /\ UNCHANGED calls

-----------------------------------------------------------------------------
(* Sessions.                                                               *)

Free(n)  == {i \in Sessions : n.L4TABLE[i] = "free"}
First(S) == CHOOSE i \in S : \A j \in S : i <= j

\* CloseSessionPartner: the session goes, and the one it is linked to is told.
CloseSession(n, i) ==
    [n EXCEPT !.L4TABLE[i] = "free",
              !.told = IF n.L4TABLE[i] \in {"call", "up"} THEN "closed" ELSE @]

\* The pointer itself is left as it is.
InformPartner(n) ==
    IF n.link.CIRCUITPOINTER = None THEN n
    ELSE CloseSession(n, n.link.CIRCUITPOINTER)

CLEAROUTLINK(n) == [n EXCEPT !.link = EmptyLink]

\* Mutant: the session is not told.
Dropped_NotTold(n) == CLEAROUTLINK(n)

Dropped(n) == CLEAROUTLINK(InformPartner(n))

\* Mutant: the session of a call that came to nothing is kept.
ConnectFailedOrRefused_KeepsSession(n, answer) ==
    LET p == n.link.CIRCUITPOINTER
    IN  IF p = None THEN n
        ELSE [n EXCEPT !.told = IF n.L4TABLE[p] \in {"call", "up"}
                                THEN answer ELSE @]

\* Mutant: nobody tells the user.
ConnectFailedOrRefused_Silent(n, answer) ==
    LET p == n.link.CIRCUITPOINTER
    IN  IF p = None THEN n ELSE [n EXCEPT !.L4TABLE[p] = "free"]

ConnectFailedOrRefused(n, answer) ==
    LET p == n.link.CIRCUITPOINTER
    IN  IF p = None THEN n
        ELSE [n EXCEPT !.L4TABLE[p] = "free",
                       !.told = IF n.L4TABLE[p] \in {"call", "up"}
                                THEN answer ELSE @]

SENDCONNECTREPLY(n) ==
    LET p == n.link.CIRCUITPOINTER
    IN  IF p = None \/ n.L4TABLE[p] # "call" THEN n
        ELSE [n EXCEPT !.L4TABLE[p] = "up", !.told = "connected"]

SetupSessionForL2(n) ==
    [n EXCEPT !.L4TABLE[First(Free(n))] = "in",
              !.link.CIRCUITPOINTER = First(Free(n))]

-----------------------------------------------------------------------------
(* An incoming SABM or XID.                                                *)

\* "port": the users' limit, an interlock, the node is closing.  "bbs":
\* RefuseBBSLinkRequest.  "full": cATTACHTOBBS finds no free stream.
Verdicts(s) == IF s \in MayRefuse THEN {"accept", "port", "bbs", "full"}
               ELSE {"accept"}

\* Mutant: the link validation timer is not started.
SETUPNEWL2SESSION_NoT3(n) ==
    [n EXCEPT !.link.L2STATE = 5, !.link.L2TIMER = FALSE, !.link.unacked = FALSE,
              !.link.LINKTYPE = IF @ = 0 THEN 1 ELSE @]

SETUPNEWL2SESSION(n) ==
    [n EXCEPT !.link.L2STATE = 5, !.link.L2TIMER = FALSE,
              !.link.L2SLOTIM = TRUE, !.link.unacked = FALSE,
              !.link.LINKTYPE = IF @ = 0 THEN 1 ELSE @]

\* The application's session is set up with the link if the link is a new
\* one; any other is answered, and a session comes with the first data.
NeedsSession(s, n) == /\ s \in Appl
                      /\ n.link.LINKTYPE = 1
                      /\ n.link.CIRCUITPOINTER = None

Refused(n, verdict) ==
    \/ verdict = "port"
    \/ /\ verdict = "bbs" /\ n.link.LINKTYPE = 0
       /\ n.link.CIRCUITPOINTER = None /\ n.link.L2STATE < 2

\* What L2SABM makes of the node, and the frame that answers.
L2SABM(s, n, verdict) ==
    LET new == SETUPNEWL2SESSION(n)
    IN  IF Refused(n, verdict)
        THEN << IF verdict = "bbs" /\ n.link.L2STATE = 1
                THEN CLEAROUTLINK(n) ELSE n, "DM" >>
        ELSE IF ~NeedsSession(s, new) THEN << new, "UA" >>
        ELSE IF Free(new) = {} \/ verdict = "full"
        THEN << CLEAROUTLINK(new), "DM" >>
        ELSE << SetupSessionForL2(new), "UA" >>

ProcessXIDCommand(n, verdict) ==
    IF verdict = "port" THEN << n, "DM" >>
    ELSE << [n EXCEPT !.link.L2STATE = 1], "XID(F)" >>

Hears(s, f) == air[s] # << >> /\ Head(air[s]) = f

\* L2_PROCESS: a response with F stops the timer, whatever comes of it.
Heard(n) == [n EXCEPT !.link.L2TIMER = FALSE]

Unhooked(n) == [InformPartner(n) EXCEPT !.link.CIRCUITPOINTER = None]

\* A link that has carried data is set up anew; one that has not is taken to
\* have had its UA lost, and so is one of ours that is still calling.
RecvSABM(s) ==
    /\ Hears(s, "SABM")
    /\ LET n == node[s]
       IN  CASE n.link.L2STATE = 4 -> Replies(s, n, << "DM" >>)
             [] n.link.L2STATE \in {2, 5} /\ ~n.link.SESSACTIVE ->
                  Replies(s, n, << "UA" >>)
             [] OTHER ->
                  \E verdict \in Verdicts(s) :
                     LET r == L2SABM(s, IF n.link.L2STATE \in {2, 5}
                                        THEN Unhooked(n) ELSE n, verdict)
                     IN  Replies(s, r[1], << r[2] >>)

\* On a link that is up the other end is taken to have restarted.
RecvXIDCommand(s) ==
    /\ Hears(s, "XID")
    /\ LET n == node[s]
       IN  IF n.link.L2STATE \in {4, 5} THEN Replies(s, Unhooked(n), << >>)
           ELSE \E verdict \in Verdicts(s) :
                   LET r == ProcessXIDCommand(n, verdict)
                   IN  Replies(s, r[1], << r[2] >>)

-----------------------------------------------------------------------------
(* Answers to what we sent.                                                *)

\* The timer is set to run out at once and sends the SABM.
RecvXIDResponse(s) ==
    /\ Hears(s, "XID(F)")
    /\ LET n == node[s]
       IN  Replies(s, IF n.link.L2STATE # 1 THEN n
                      ELSE [n EXCEPT !.link.L2STATE = 2, !.link.L2TIMER = TRUE],
                   << >>)

LinkIsUp(n) ==
    [n EXCEPT !.link.L2STATE = 5, !.link.L2TIMER = FALSE, !.link.L2RETRIES = 0,
              !.link.L2SLOTIM = TRUE, !.link.unacked = FALSE]

RecvUA(s) ==
    /\ Hears(s, "UA")
    /\ LET n == node[s]
       IN  Replies(s, CASE n.link.L2STATE = 2 -> SENDCONNECTREPLY(LinkIsUp(n))
                        [] n.link.L2STATE = 4 -> Dropped(n)
                        [] OTHER -> Heard(n), << >>)

\* A DM to our SABM tells the user; the entry itself is not cleared.
RecvDM(s) ==
    /\ Hears(s, "DM")
    /\ LET n == node[s]
       IN  Replies(s,
             CASE n.link.L2STATE = 0 -> n
               [] n.link.L2STATE = 1 ->
                    [n EXCEPT !.link.L2STATE = 2, !.link.L2TIMER = TRUE,
                              !.link.L2RETRIES = @ - 1]
               [] n.link.L2STATE = 2 -> ConnectFailedOrRefused(Heard(n), "busy")
               [] OTHER -> Dropped(n), << >>)

RecvDISC(s) ==
    /\ Hears(s, "DISC")
    /\ Replies(s, Dropped(node[s]),
               << IF node[s].link.L2STATE = 0 THEN "DM" ELSE "UA" >>)

\* Data, on a link without a session, starts one with the command handler.
RecvI(s) ==
    /\ Hears(s, "I")
    /\ LET n == node[s]
           active == [n EXCEPT !.link.SESSACTIVE = TRUE]
       IN  CASE n.link.L2STATE = 0 -> Replies(s, n, << "DM" >>)
             [] n.link.L2STATE \in {1, 2, 4} -> Replies(s, n, << >>)
             [] OTHER -> Replies(s, IF n.link.CIRCUITPOINTER # None \/ Free(n) = {}
                                    THEN active ELSE SetupSessionForL2(active),
                                 << "RR(F)" >>)

RecvPoll(s) ==
    /\ Hears(s, "RR")
    /\ Replies(s, node[s], CASE node[s].link.L2STATE = 0 -> << "DM" >>
                             [] node[s].link.L2STATE = 5 -> << "RR(F)" >>
                             [] OTHER -> << >>)

RecvRR(s) ==
    /\ Hears(s, "RR(F)")
    /\ LET n == Heard(node[s])
       IN  Replies(s, IF n.link.L2STATE # 5 THEN n
                      ELSE [n EXCEPT !.link.L2RETRIES = 0,
                                     !.link.unacked = FALSE], << >>)

LoseFrame(s) == /\ air[s] # << >>
                /\ air' = [air EXCEPT ![s] = Tail(@)]
                /\ UNCHANGED << node, calls >>

-----------------------------------------------------------------------------
(* Level 4 and the users.                                                  *)

OnThisLink(n) == {i \in Sessions : n.L4TABLE[i] \in {"call", "up", "in"}}

\* Neither end is setting a link up, and what was said on an old one has died
\* down: what an XID needs in order not to cross anything.
Calm(s) == /\ node[s].link.L2STATE = 0
           /\ \A t \in Station : node[t].link.L2STATE \notin {1, 2} /\ air[t] = << >>

XIDPending == \E t \in Station : \/ node[t].link.L2STATE = 1
                                 \/ Contains(air[t], "XID")

\* CMDC00: the C and NC commands.  The entry is whatever FindLink finds for
\* the two calls, in whichever state.  The user is one stream at a time, and
\* does not call a station that it has a link to.
Connect(s, xid) ==
    /\ s \in Callers /\ calls[s] < MaxCalls[s]
    /\ OnThisLink(node[s]) = {} /\ Free(node[s]) # {}
    /\ xid => s \in XIDCallers
    /\ XIDMayCross \/ (IF xid THEN Calm(s) ELSE ~XIDPending)
    /\ LET i == First(Free(node[s]))
       IN  /\ node' = [node EXCEPT
                ![s].L4TABLE[i] = "call", ![s].told = "calling",
                ![s].link = [@ EXCEPT !.LINKTYPE = 2, !.CIRCUITPOINTER = i,
                                      !.L2STATE = IF xid THEN 1 ELSE 2,
                                      !.L2TIMER = TRUE, !.unacked = FALSE]]
           /\ air' = [air EXCEPT ![Other(s)] =
                        Clip(Append(@, IF xid THEN "XID" ELSE "SABM"))]
    /\ calls' = [calls EXCEPT ![s] = @ + 1]

\* CLOSECURRENTSESSION on a session over the link, nothing outstanding on it
\* (what happens when there is, is in L2Data).
CLOSECURRENTSESSION(s) ==
    \E i \in OnThisLink(node[s]) :
       /\ ~node[s].link.unacked
       /\ Sends(s, [CloseSession(node[s], i) EXCEPT
                      !.link.CIRCUITPOINTER = None, !.link.L2STATE = 4,
                      !.link.L2TIMER = TRUE], << >>)

\* IFRM150: the user types before the call is answered, which cancels it.
CancelCall(s) ==
    \E i \in Sessions :
       /\ node[s].L4TABLE[i] = "call"
       /\ Sends(s, [CloseSession(node[s], i) EXCEPT
                      !.link.CIRCUITPOINTER = None, !.link.L2STATE = 4,
                      !.link.L2TIMER = TRUE, !.link.L2RETRIES = PORTN2 - 2],
                << >>)

\* Data from the session, or the connect text, which needs none.
SendData(s) ==
    /\ node[s].link.L2STATE = 5 /\ ~node[s].link.L2TIMER
    /\ Sends(s, [node[s] EXCEPT !.link.L2TIMER = TRUE, !.link.unacked = TRUE],
             << "I" >>)

-----------------------------------------------------------------------------
(* L2TimerProc.                                                            *)

\* Mutant: tries are not counted.
Tried_NotCounted(n) == [n EXCEPT !.link.L2TIMER = TRUE]

Tried(n) == [n EXCEPT !.link.L2RETRIES = @ + 1, !.link.L2TIMER = TRUE]

LastTry(n) == n.link.L2RETRIES + 1 >= PORTN2

RetrySetup(s) ==
    LET n == node[s]
    IN  /\ n.link.L2STATE \in {1, 2} /\ n.link.L2TIMER
        /\ IF LastTry(n)
           THEN Sends(s, CLEAROUTLINK(ConnectFailedOrRefused(n, "failed")), << >>)
           ELSE Sends(s, Tried(n),
                      << IF n.link.L2STATE = 1 THEN "XID" ELSE "SABM" >>)

\* L2TimerProc starts the timer of a closing link that has none.
RetryDISC(s) ==
    LET n == node[s]
    IN  /\ n.link.L2STATE = 4
        /\ IF LastTry(n) THEN Sends(s, CLEAROUTLINK(n), << >>)
           ELSE Sends(s, Tried(n), << "DISC" >>)

RetryPoll(s) ==
    LET n == node[s]
    IN  /\ n.link.L2STATE = 5 /\ n.link.L2TIMER
        /\ IF LastTry(n)
           THEN Sends(s, [InformPartner(n) EXCEPT !.link.L2STATE = 4,
                                                  !.link.L2RETRIES = PORTN2 - 1],
                      << "DISC" >>)
           ELSE Sends(s, Tried(n), << "RR" >>)

L2TIMEOUT(s) == RetrySetup(s) \/ RetryDISC(s) \/ RetryPoll(s)

\* The timers below run for a minute or more: nothing is in the air by then.
Quiet(s) == /\ node[s].link.L2STATE > 0 /\ ~node[s].link.L2TIMER
            /\ \A t \in Station : air[t] = << >>

\* L2SLOTIM: the link validation poll.
ValidateDue(s) == Quiet(s) /\ node[s].link.L2SLOTIM

ValidateLink(s) ==
    /\ ValidateDue(s)
    /\ Sends(s, [node[s] EXCEPT !.link.L2TIMER = TRUE], << "RR" >>)

\* KILLTIMER: a minute after an XID, else the idle time of a link.
IdleTooLong(s) ==
    /\ Quiet(s) /\ node[s].link.L2STATE \in {1, 2, 5}
    /\ Sends(s, IF node[s].link.L2STATE = 1 THEN CLEAROUTLINK(node[s])
                ELSE [InformPartner(node[s]) EXCEPT !.link.L2STATE = 4,
                                                    !.link.L2TIMER = TRUE],
             << >>)

\* L2TIMER is what gets a call going again; nothing else looks after it.
Hanging(s) == node[s].link.L2STATE \in {1, 2} /\ Quiet(s)

-----------------------------------------------------------------------------
Receive(s) == RecvSABM(s) \/ RecvXIDCommand(s) \/ RecvXIDResponse(s)
              \/ RecvUA(s) \/ RecvDM(s) \/ RecvDISC(s) \/ RecvI(s)
              \/ RecvPoll(s) \/ RecvRR(s)

User(s) == (\E xid \in BOOLEAN : Connect(s, xid)) \/ CLOSECURRENTSESSION(s) \/ CancelCall(s)
           \/ SendData(s)

Next == \E s \in Station : Receive(s) \/ LoseFrame(s) \/ User(s) \/ L2TIMEOUT(s)
                           \/ ValidateLink(s) \/ IdleTooLong(s)

Spec == Init /\ [][Next]_vars

TimerRuns(s) == node[s].link.L2TIMER \/ node[s].link.L2STATE = 4

(***************************************************************************)
(* The node keeps reading and its timers keep running.  Nothing is asked   *)
(* of the users or of the air.                                             *)
(***************************************************************************)
Fairness == \A s \in Station :
    /\ []<>(air[s] = << >>) \/ []<><<Receive(s)>>_vars
    /\ []<>(~TimerRuns(s)) \/ []<><<L2TIMEOUT(s)>>_vars
    /\ []<>(~ValidateDue(s)) \/ []<><<ValidateLink(s)>>_vars
    /\ <>[](~Hanging(s)) \/ []<><<IdleTooLong(s)>>_vars

FairSpec == Spec /\ Fairness

-----------------------------------------------------------------------------
(* Properties.                                                             *)

\* A session over the link is the one its entry points to: it will be told
\* when the link goes, however the link goes.
NoOrphan == \A s \in Station : \A i \in OnThisLink(node[s]) :
               /\ node[s].link.CIRCUITPOINTER = i
               /\ node[s].link.L2STATE # 0

\* A user gets one answer to a call, and after "busy" or "failed" no other.
Step(was, is) == \/ was = is
                 \/ was = "calling" /\ is \in Answers \cup {"closed"}
                 \/ was = "connected" /\ is = "closed"
                 \/ was \in {"none", "busy", "failed", "closed"} /\ is = "calling"

AnsweredOnce == [][\A s \in Station : Step(node[s].told, node'[s].told)]_vars

Up(s) == node[s].link.L2STATE = 5

\* A call gets its answer or is closed, unless the other end's call put up
\* the link both share.
CallAnswered == \A s \in Station :
    node[s].told = "calling" ~> node[s].told # "calling" \/ Up(s)

\* No end stays up for ever with the other one gone.
EndsAgree == \A s \in Station : Up(s) /\ ~Up(Other(s)) ~> ~Up(s) \/ Up(Other(s))

\* An entry that is being set up gets out of it, whichever frames are lost.
SetupEnds == \A s \in Station :
    node[s].link.L2STATE \in {1, 2} ~> node[s].link.L2STATE \notin {1, 2}
=============================================================================
