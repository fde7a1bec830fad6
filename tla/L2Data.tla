------------------------------- MODULE L2Data -------------------------------
(***************************************************************************)
(* Data transfer and release on an AX.25 link that is up at both ends: two *)
(* L2Link entries joined by a radio path that loses frames but keeps their *)
(* order.  One action for each event that makes the node run a handler: a  *)
(* frame off the air (L2LINKACTIVE, L2_PROCESS), the main loop's send pass *)
(* (SDETX), a timer run down by L2TimerProc, a message or a close from     *)
(* level 4.                                                                *)
(***************************************************************************)
EXTENDS L2Link

CONSTANTS Station,     \* the two ends
          Versions,    \* of whether the ends agreed on SREJ (AX.25 2.2)
          MaxMsgs,     \* [Station -> Nat], messages level 4 has to send
          Batch,       \* messages one pass of level 4 queues
          AirCap,      \* frames in the air one way; what exceeds it is lost
          Closers,     \* the stations whose level 4 may close the link
          MayBeBusy    \* the stations whose partner queues or buffers may run short

ASSUME StationAssumption == \E a, b \in Station : a # b /\ Station = {a, b}
ASSUME VersionsAssumption == Versions \subseteq BOOLEAN
ASSUME MaxMsgsAssumption == MaxMsgs \in [Station -> Nat]
ASSUME BatchAssumption   == Batch \in Nat \ {0}
ASSUME AirCapAssumption  == AirCap \in Nat
ASSUME ClosersAssumption == Closers \subseteq Station
ASSUME MayBeBusyAssumption == MayBeBusy \subseteq Station

VARIABLES link,        \* the _LINKTABLE entry of each station
          air          \* air[s]: the frames on their way to s

vars == << link, air >>

Other(s) == CHOOSE t \in Station : t # s
BusyChoice(s) == IF s \in MayBeBusy THEN BOOLEAN ELSE {FALSE}

FrameTypes == {"I", "RR", "RNR", "REJ", "SREJ", "SABM", "DISC", "UA", "DM"}

Frames == [type : FrameTypes, cmd : BOOLEAN, pf : BOOLEAN, nr : SeqNo,
           ns : SeqNo, m : Nat]

Links == [L2STATE : LinkStates, LINKWS : SeqNo, LINKNS : SeqNo,
          LINKNR : SeqNo, SDTSLOT : SeqNo, FRAMES : [SeqNo -> Nat],
          RXFRAMES : [SeqNo -> Nat], POLLSENT : BOOLEAN, REJSENT : BOOLEAN,
          RNRSENT : BOOLEAN, RNRSET : BOOLEAN, DISCPENDING : BOOLEAN,
          L2TIMER : BOOLEAN, L2RETRIES : Nat, L2ACKREQ : BOOLEAN,
          IFrameRetryCounter : Nat, circuit : BOOLEAN, queued : Nat,
          loaded : Nat, RX_Q : Seq(Nat), Ver2point2 : BOOLEAN]

Clip(q) == SubSeq(q, 1, IF Len(q) < AirCap THEN Len(q) ELSE AirCap)

\* A handler's result: the new entry of s, and the frames s sends.
Sends(s, r) == /\ link' = [link EXCEPT ![s] = r.link]
               /\ air' = [air EXCEPT ![Other(s)] = Clip(@ \o r.out)]

\* The same for a handler that consumed the first frame on its way to s.
Answers(s, r) == /\ link' = [link EXCEPT ![s] = r.link]
                 /\ air' = [air EXCEPT ![s] = Tail(@),
                                       ![Other(s)] = Clip(@ \o r.out)]

CLEAROUTLINK(L) ==
    [NewLink EXCEPT !.L2STATE = 0, !.circuit = L.circuit, !.queued = L.queued,
                    !.loaded = L.queued, !.RX_Q = L.RX_Q]

InformPartner(L) == [L EXCEPT !.circuit = FALSE]

Init == /\ \E srej \in Versions :
              link = [s \in Station |-> [NewLink EXCEPT !.Ver2point2 = srej]]
        /\ air = [s \in Station |-> << >>]

-----------------------------------------------------------------------------
(* Level 4 and the main loop.                                              *)

\* L4BG moves what the session has to send to the link's TX_Q.
QueueMessages(s) ==
    /\ link[s].circuit /\ link[s].L2STATE >= 5
    /\ link[s].queued + Batch <= MaxMsgs[s]
    /\ link' = [link EXCEPT ![s].queued = @ + Batch]
    /\ UNCHANGED air

\* CLOSECURRENTSESSION on a session over this link.
CloseSession(s) ==
    /\ s \in Closers
    /\ link[s].circuit /\ link[s].L2STATE >= 5
    /\ link' = [link EXCEPT ![s] =
         IF @.LINKWS # @.LINKNS \/ ~TX_QEmpty(@)
         THEN [@ EXCEPT !.circuit = FALSE, !.DISCPENDING = TRUE]
         ELSE [@ EXCEPT !.circuit = FALSE, !.L2STATE = 4, !.L2TIMER = TRUE]]
    /\ UNCHANGED air

\* The main loop lets SDETX run on a link that is up and not held by RNR.
CanSend(s) ==
    link[s].L2STATE >= 5 /\ ~link[s].RNRSET /\ SDETX(link[s]) # Silent(link[s])

SendPass(s) ==
    /\ CanSend(s)
    /\ Sends(s, SDETX(link[s]))

-----------------------------------------------------------------------------
(* Frames off the air.                                                     *)

\* A frame of these types is at the head of the queue to s.
Hears(s, types) == air[s] # << >> /\ Head(air[s]).type \in types

\* L2_PROCESS: a response with F stops the timer, whatever comes of it.
Heard(s) == IF ~Head(air[s]).cmd /\ Head(air[s]).pf
            THEN [link[s] EXCEPT !.L2TIMER = FALSE] ELSE link[s]

\* On a link that is up an N(R) that was never sent resets the link (SDFRMR);
\* otherwise SDNRCHK has moved the window before the frame itself is looked at.
RecvIFrame(s) ==
    /\ Hears(s, {"I"}) /\ link[s].L2STATE >= 5
    /\ \E busy \in BusyChoice(s), recent \in BOOLEAN :
          LET f == Head(air[s])
          IN  Answers(s, IF GoodNR(link[s], f.nr)
                         THEN SDIFRM(SDNRCHK(Heard(s), f), f, busy, recent)
                         ELSE SDFRMR(link[s]))

RecvSFrame(s) ==
    /\ Hears(s, {"RR", "RNR", "REJ", "SREJ"}) /\ link[s].L2STATE >= 5
    /\ \E busy \in BusyChoice(s), recent \in BOOLEAN :
          LET f == Head(air[s])
          IN  Answers(s, IF GoodNR(link[s], f.nr)
                         THEN SFRAME(SDNRCHK(Heard(s), f), f, busy, recent)
                         ELSE SDFRMR(link[s]))

RecvDISC(s) ==
    /\ Hears(s, {"DISC"}) /\ link[s].L2STATE > 0
    /\ Answers(s, [link |-> CLEAROUTLINK(InformPartner(link[s])),
                   out  |-> << UFrame("UA", FALSE, TRUE) >>])

\* UA answers our DISC; on a link that is up it is discarded.
RecvUA(s) ==
    /\ Hears(s, {"UA"}) /\ link[s].L2STATE >= 4
    /\ Answers(s, Silent(IF link[s].L2STATE = 4
                         THEN CLEAROUTLINK(InformPartner(link[s]))
                         ELSE Heard(s)))

RecvDM(s) ==
    /\ Hears(s, {"DM"}) /\ link[s].L2STATE >= 4
    /\ Answers(s, Silent(CLEAROUTLINK(InformPartner(link[s]))))

\* L2_PROCESS ignores data while the link is being disconnected.
RecvWhileClosing(s) ==
    /\ Hears(s, {"I", "RR", "RNR", "REJ", "SREJ"}) /\ link[s].L2STATE = 4
    /\ Answers(s, Silent(Heard(s)))

\* L2FORUS, no link: a command with P, and SREJ with N(R) 0, are told DM.
RecvNoLink(s) ==
    /\ air[s] # << >> /\ link[s].L2STATE = 0 /\ ~Hears(s, {"SABM"})
    /\ LET f == Head(air[s])
       IN  Answers(s, [link |-> link[s],
                       out |-> IF (f.cmd /\ f.pf) \/ (f.type = "SREJ" /\ f.nr = 0)
                               THEN << UFrame("DM", FALSE, TRUE) >>
                               ELSE << >>])

\* The radio path loses a frame.
LoseFrame(s) == /\ air[s] # << >>
                /\ air' = [air EXCEPT ![s] = Tail(@)]
                /\ UNCHANGED link

-----------------------------------------------------------------------------
(* L2TimerProc.                                                            *)

\* L2TIMER runs, or L2TimerProc is about to start it on a closing link.
TimerRuns(s) == link[s].L2STATE = 4 \/ (link[s].L2STATE >= 5 /\ link[s].L2TIMER)

\* Mutant: tries are not counted.
Retried_NotCounted(L) == L

Retried(L) == [L EXCEPT !.L2RETRIES = @ + 1]

\* L2TIMEOUT on a link that is up: RR(P), or at N2 tries give up with a DISC.
RetryPoll(s) ==
    /\ link[s].L2STATE >= 5 /\ link[s].L2TIMER
    /\ link[s].L2RETRIES + 1 < PORTN2
    /\ \E busy \in BusyChoice(s) :
          Sends(s, SendSupervisCmd(Retried(link[s]), busy))

RetriedOut(s) ==
    /\ link[s].L2STATE >= 5 /\ link[s].L2TIMER
    /\ link[s].L2RETRIES + 1 >= PORTN2
    /\ Sends(s, [link |-> [InformPartner(link[s]) EXCEPT !.L2STATE = 4],
                 out  |-> << UFrame("DISC", TRUE, TRUE) >>])

\* L2TIMEOUT while disconnecting.  L2TimerProc starts the timer of a link in
\* this state that has none.
RetryDISC(s) ==
    /\ link[s].L2STATE = 4
    /\ IF link[s].L2RETRIES + 1 >= PORTN2
       THEN Sends(s, Silent(CLEAROUTLINK(link[s])))
       ELSE Sends(s, [link |-> [Retried(link[s]) EXCEPT !.L2TIMER = TRUE],
                      out  |-> << UFrame("DISC", TRUE, TRUE) >>])

L2TIMEOUT(s) == RetryPoll(s) \/ RetriedOut(s) \/ RetryDISC(s)

\* The delayed acknowledgement, held back while polling or busy.
AckDue(s) == link[s].L2ACKREQ /\ ~link[s].RNRSENT /\ link[s].L2RETRIES = 0

SendAck(s) ==
    /\ AckDue(s)
    /\ \E busy \in BusyChoice(s) :
          Sends(s, SEND_RR_RESP([link[s] EXCEPT !.L2ACKREQ = FALSE],
                                busy, FALSE))

\* L2SLOTIM has run down: the link validation poll.  Every frame sent sets it
\* to T3, so it waits for a quiet link: the retry and acknowledgement timers,
\* a frame's time in the air and a turn of the main loop are all shorter.
Quiet(s) == /\ link[s].L2STATE >= 4 /\ ~link[s].L2TIMER /\ ~link[s].L2ACKREQ
            /\ \A t \in Station : air[t] = << >>
            /\ ~CanSend(s)

ValidateLink(s) ==
    /\ Quiet(s)
    /\ \E busy \in BusyChoice(s) : Sends(s, SendSupervisCmd(link[s], busy))

\* No longer busy: tell the other end with RR(P), unless a poll of ours is
\* being retried.  RR_OR_RNR runs once to find out and once more to send.
BusyOver(s) ==
    /\ link[s].RNRSENT /\ link[s].L2STATE >= 4
    /\ LET L == [RR_OR_RNR(link[s], FALSE, FALSE).link EXCEPT !.L2ACKREQ = FALSE]
       IN  IF L.L2RETRIES = 0
           THEN \E busy \in BusyChoice(s) : Sends(s, SendSupervisCmd(L, busy))
           ELSE Sends(s, Silent(L))

-----------------------------------------------------------------------------
Receive(s) == RecvIFrame(s) \/ RecvSFrame(s) \/ RecvDISC(s)
              \/ RecvUA(s) \/ RecvDM(s) \/ RecvWhileClosing(s) \/ RecvNoLink(s)

Timer(s) == L2TIMEOUT(s) \/ SendAck(s) \/ ValidateLink(s) \/ BusyOver(s)

\* A reset (SABM sent) is the end of what this module covers.
Next == /\ \A s \in Station : link[s].L2STATE # 2
        /\ \E s \in Station : QueueMessages(s) \/ CloseSession(s) \/ SendPass(s)
                              \/ Receive(s) \/ LoseFrame(s) \/ Timer(s)

Spec == Init /\ [][Next]_vars

(***************************************************************************)
(* The node keeps running: it reads what arrives, sends what it may and    *)
(* its timers run.  Each conjunct is weak fairness of an action, with the  *)
(* condition that enables it written out.  What level 4 does stays         *)
(* optional, and nothing is assumed of the air: it may lose every frame.   *)
(***************************************************************************)
Fairness == \A s \in Station :
    /\ []<>(air[s] = << >>) \/ []<><<Receive(s)>>_vars
    /\ []<>(~CanSend(s)) \/ []<><<SendPass(s)>>_vars
    /\ []<>(~TimerRuns(s)) \/ []<><<L2TIMEOUT(s)>>_vars
    /\ []<>(~AckDue(s)) \/ []<><<SendAck(s)>>_vars
    /\ []<>(~Quiet(s)) \/ []<><<ValidateLink(s)>>_vars

FairSpec == Spec /\ Fairness

-----------------------------------------------------------------------------
(* Properties.                                                             *)

\* The entries and the frames have the types of the struct and of the frames.
TypeOK == /\ link \in [Station -> Links]
          /\ air \in [Station -> Seq(Frames)]

\* How many frames FRAMES holds, from LINKWS up to SDTSLOT.
Held(L) == IF L.FRAMES[L.LINKWS] = NoMsg THEN 0
           ELSE IF L.SDTSLOT = L.LINKWS THEN SeqMod
           ELSE Dist(L.LINKWS, L.SDTSLOT)

Acked(L) == L.loaded - Held(L)

\* FRAMES holds the last messages loaded, in order from LINKWS up to SDTSLOT:
\* what SDETX and ACKMSG together keep (a gap would stop the link, a message in
\* the wrong slot would be sent under another's number).  N(S) need not lie
\* among them, since SDNRCHK lets the window start pass it.
Window(L) ==
    /\ L.SDTSLOT = Plus(L.LINKWS, Held(L))
    /\ \A i \in SeqNo : L.FRAMES[i] = IF Dist(L.LINKWS, i) < Held(L)
                                      THEN Acked(L) + 1 + Dist(L.LINKWS, i)
                                      ELSE NoMsg
    /\ Acked(L) >= 0 /\ L.loaded <= L.queued

WindowInv == \A s \in Station : Window(link[s])

\* T1 runs whenever N(S) is not at the window start, be it that frames are
\* outstanding or that N(S) was left behind: only the poll it leads to starts
\* either again, since SDETX sends nothing then.
Watched == \A s \in Station : LET L == link[s] IN
    L.L2STATE >= 5 /\ L.LINKNS # L.LINKWS => L.L2TIMER

\* The two ends together are the stream that level 4 counts on.  RX_Q is all
\* that was passed up, so the mapping needs no more than the link entries.
Link == INSTANCE Stream WITH
    Ends   <- Station,
    queued <- [s \in Station |-> link[s].queued],
    got    <- [s \in Station |-> link[s].RX_Q],
    open   <- [s \in Station |-> link[s].L2STATE >= 5]

\* Every step hands over the next messages of the other end or nothing, an
\* end that is going down or cleared is handed nothing more, and no frame
\* that arrives late brings it back up.
ImplementsStream == Link!Spec

\* A frame is only released when the other end has it: ACKMSG never frees one
\* that an acknowledgement meant for an earlier use of the number would cover.
AckedIsReceived ==
    \A s \in Station : link[s].L2STATE >= 5 /\ link[Other(s)].L2STATE >= 5
                       => \/ link[Other(s)].DISCPENDING
                          \/ Acked(link[s]) <= Len(link[Other(s)].RX_Q)

\* A frame saved out of sequence is the one that will be due when N(R) gets
\* to its slot, so a repeat saved by mistake is never passed up as new.
SavedIsDue ==
    \A s \in Station : LET L == link[s] IN
        ~L.DISCPENDING => \A i \in SeqNo : L.RXFRAMES[i] # NoMsg
                             => L.RXFRAMES[i] = Len(L.RX_Q) + 1 + Dist(L.LINKNR, i)

\* A message that was queued gets delivered or the link goes down: no pattern
\* of losses keeps it up for ever without passing the message on.  That is
\* promised for receivers that do not stay busy; what RNR held back goes
\* through, whichever of the RNR and RR frames were lost.
DeliveredOrClosed ==
    <>[](\A s \in Station : ~link[s].RNRSENT)
    => \A s \in Station : \A n \in 1..MaxMsgs[s] :
          link[s].queued >= n ~> \/ Len(link[Other(s)].RX_Q) >= n
                                \/ link[s].L2STATE < 5

\* A close that level 4 asked for ends with the link cleared at that end.
CloseCompletes ==
    <>[](\A s \in Station : ~link[s].RNRSENT)
    => \A s \in Station : ~link[s].circuit ~> link[s].L2STATE = 0
=============================================================================
