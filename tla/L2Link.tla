------------------------------- MODULE L2Link -------------------------------
(***************************************************************************)
(* One end of an established AX.25 link: the part of struct _LINKTABLE     *)
(* that the level 2 code of L2Code.c reads and writes while it transfers   *)
(* data, and each routine that transforms it, as an operator from the link *)
(* entry before the call to the entry after it.  The modules that give     *)
(* the entries an environment (L2Data) are built from these operators.     *)
(*                                                                         *)
(* Left out: version 1 links (VER1FLAG), compression, digipeaters, the     *)
(* stuck-link dump of SDETX and GetBuff() returning NULL, which loses a    *)
(* frame before it is sent.                                                *)
(* LINKOWS is not kept: whatever moves LINKWS calls ACKMSG, which moves    *)
(* LINKOWS up to it, before the handler ends.                              *)
(***************************************************************************)
EXTENDS Integers, Sequences

CONSTANTS SeqMod,      \* modulus of the sequence numbers (8 in the code)
          RcvWindow,   \* frames saved out of sequence (4 in the code)
          LINKWINDOW,  \* PORT->PORTWINDOW, the MAXFRAME keyword
          PORTN2       \* the RETRIES keyword

ASSUME SeqModAssumption     == SeqMod \in {4, 8}
ASSUME RcvWindowAssumption  == RcvWindow = SeqMod \div 2
ASSUME LinkWindowAssumption == LINKWINDOW \in 1..(SeqMod - 1)
ASSUME N2Assumption         == PORTN2 \in Nat \ {0}

SeqNo == 0..(SeqMod - 1)
NoMsg == 0                              \* NULL in FRAMES and RXFRAMES

Plus_NoWrap(i, n) == i + n              \* mutant: the "& 7" is forgotten
Plus(i, n) == (i + n) % SeqMod
Dist(i, j) == (j - i) % SeqMod          \* steps from i up to j, modulo SeqMod
Least(S)   == CHOOSE n \in S : \A k \in S : n <= k

(***************************************************************************)
(* A frame in the air.  "cmd" tells a command from a response; m is the    *)
(* message an I frame carries.                                             *)
(***************************************************************************)
Frame(t, cmd, pf, nr, ns, m) ==
    [type |-> t, cmd |-> cmd, pf |-> pf, nr |-> nr, ns |-> ns, m |-> m]

IFrame(L, ns, p)   == Frame("I", TRUE, p, L.LINKNR, ns, L.FRAMES[ns])
UFrame(t, cmd, pf) == Frame(t, cmd, pf, 0, 0, NoMsg)

LinkStates == {0, 2, 4, 5, 6}   \* cleared, resetting, disconnecting, up, REJ

(***************************************************************************)
(* Messages are numbered in the order level 4 queues them, so that TX_Q is *)
(* the interval (loaded, queued]: "queued" have been put on TX_Q, "loaded" *)
(* have been moved on from it to FRAMES.  RX_Q is the sequence of all that *)
(* was ever passed up.  circuit: a session is attached (CIRCUITPOINTER).   *)
(* LAST_F_TIME is not kept: "recent" says whether a handler finds that the  *)
(* last F was sent within its limit.  Ver2point2: SREJ was negotiated.     *)
(***************************************************************************)
NewLink ==
    [L2STATE |-> 5, LINKWS |-> 0, LINKNS |-> 0, LINKNR |-> 0, SDTSLOT |-> 0,
     FRAMES |-> [i \in SeqNo |-> NoMsg], RXFRAMES |-> [i \in SeqNo |-> NoMsg],
     POLLSENT |-> FALSE, REJSENT |-> FALSE, RNRSENT |-> FALSE,
     RNRSET |-> FALSE, DISCPENDING |-> FALSE, L2TIMER |-> FALSE,
     L2RETRIES |-> 0, L2ACKREQ |-> FALSE, IFrameRetryCounter |-> 0,
     Ver2point2 |-> FALSE, circuit |-> TRUE, queued |-> 0, loaded |-> 0,
     RX_Q |-> << >>]

TX_QEmpty(L) == L.loaded = L.queued

-----------------------------------------------------------------------------
(* The sending side.                                                       *)

\* Mutant: SDETX does not look whether the slot is free.
Loadable_NoSlotCheck(L, n) == L.loaded + n <= L.queued

\* SDETX, first loop: the n frames that fit move from TX_Q to FRAMES.
Loadable(L, n) ==
    /\ L.loaded + n <= L.queued
    /\ \A k \in 0..(n - 1) : L.FRAMES[Plus(L.SDTSLOT, k)] = NoMsg

LoadFrames(L) ==
    LET n == Least({k \in 0..SeqMod : k = SeqMod \/ ~Loadable(L, k + 1)})
    IN  [L EXCEPT !.FRAMES = [i \in SeqNo |->
                     IF Dist(L.SDTSLOT, i) < n
                     THEN L.loaded + 1 + Dist(L.SDTSLOT, i) ELSE @[i]],
                  !.SDTSLOT = Plus(@, n),
                  !.loaded = @ + n]

\* SDETX, second loop: frames go out from N(S) up to the end of the window or
\* of the loaded frames, and the last one carries P.
Sendable(L) ==
    IF L.POLLSENT THEN 0
    ELSE Least({n \in 0..(LINKWINDOW - Dist(L.LINKWS, L.LINKNS)) :
                  \/ n = LINKWINDOW - Dist(L.LINKWS, L.LINKNS)
                  \/ L.FRAMES[Plus(L.LINKNS, n)] = NoMsg})

SendFrames(L) ==
    LET n == Sendable(L)
    IN  IF n = 0 THEN [link |-> L, out |-> << >>]
        ELSE [link |-> [L EXCEPT !.LINKNS = Plus(@, n), !.L2ACKREQ = FALSE,
                                 !.POLLSENT = TRUE, !.L2TIMER = TRUE],
              out  |-> [k \in 1..n |-> IFrame(L, Plus(L.LINKNS, k - 1), k = n)]]

SDETX(L) ==
    IF Dist(L.LINKWS, L.LINKNS) >= LINKWINDOW
    THEN [link |-> L, out |-> << >>]
    ELSE SendFrames(LoadFrames(L))

\* Mutant: T1 is not started again for what is still to be acknowledged.
AckTail_NoRestart(L) ==
    IF L.LINKWS # L.LINKNS THEN L
    ELSE LET idle  == L.L2RETRIES = 0
             close == L.DISCPENDING /\ TX_QEmpty(L)
         IN  [L EXCEPT !.L2TIMER = close \/ (@ /\ ~idle),
                       !.POLLSENT = @ /\ ~idle,
                       !.DISCPENDING = @ /\ ~close,
                       !.L2STATE = IF close THEN 4 ELSE @]

\* ACKMSG once LINKOWS has caught up with LINKWS.
AckTail(L) ==
    IF L.LINKWS # L.LINKNS THEN [L EXCEPT !.L2TIMER = TRUE]
    ELSE LET idle  == L.L2RETRIES = 0
             close == L.DISCPENDING /\ TX_QEmpty(L)
         IN  [L EXCEPT !.L2TIMER = close \/ (@ /\ ~idle),
                       !.POLLSENT = @ /\ ~idle,
                       !.DISCPENDING = @ /\ ~close,
                       !.L2STATE = IF close THEN 4 ELSE @]

\* SDNRCHK on a good N(R), with the ACKMSG it calls.
ACKMSG(L, nr) ==
    LET acked == Dist(L.LINKWS, nr)
    IN  AckTail([L EXCEPT
          !.LINKWS = nr,
          !.FRAMES = [i \in SeqNo |-> IF Dist(L.LINKWS, i) < acked
                                      THEN NoMsg ELSE @[i]],
          !.IFrameRetryCounter = IF acked > 0 THEN 0 ELSE @,
          !.L2RETRIES = IF acked > 0 /\ @ > 0 THEN 1 ELSE @])

\* SDNRCHK: the numbers are compared as they are, and one below the window
\* start is taken up to N(S), whether the window wraps or not.
GoodNR(L, nr) == IF nr >= L.LINKWS
                 THEN nr <= L.LINKNS \/ L.LINKNS < L.LINKWS
                 ELSE nr <= L.LINKNS

\* Mutant: one frame too many is taken for acknowledged.
SDNRCHK_OneMore(L, f) == ACKMSG(L, Plus(f.nr, 1))

SDNRCHK(L, f) == IF f.type = "SREJ" /\ ~f.pf THEN L ELSE ACKMSG(L, f.nr)

\* SDFRMR with SDNRER set: RESET2 drops everything queued here, SABM is sent.
SDFRMR(L) ==
    [link |-> [NewLink EXCEPT !.L2STATE = 2, !.L2TIMER = TRUE,
                  !.Ver2point2 = L.Ver2point2, !.circuit = L.circuit,
                  !.queued = L.queued, !.loaded = L.queued, !.RX_Q = L.RX_Q,
                  !.IFrameRetryCounter = L.IFrameRetryCounter],
     out  |-> << UFrame("SABM", TRUE, TRUE) >>]

-----------------------------------------------------------------------------
(* The receiving side.                                                     *)

\* PROC_I_FRAME for a run of frames.  With DISCPENDING the data is dropped.
PROC_I_FRAME(L, ms) ==
    LET N == [L EXCEPT !.LINKNR = Plus(@, Len(ms))]
    IN  IF ms = << >> \/ L.DISCPENDING THEN N
        ELSE [N EXCEPT !.RX_Q = @ \o ms, !.L2ACKREQ = TRUE]

\* How many frames saved in RXFRAMES follow on from N(R), up to a limit.
SavedRun(L, limit) ==
    Least({n \in 0..limit : n = limit \/ L.RXFRAMES[Plus(L.LINKNR, n)] = NoMsg})

\* Mutant: the slots keep what was passed up.
TakeSaved_KeepsSlots(L, n) ==
    PROC_I_FRAME(L, [k \in 1..n |-> L.RXFRAMES[Plus(L.LINKNR, k - 1)]])

TakeSaved(L, n) ==
    PROC_I_FRAME([L EXCEPT !.RXFRAMES = [i \in SeqNo |->
                        IF Dist(L.LINKNR, i) < n THEN NoMsg ELSE @[i]]],
                 [k \in 1..n |-> L.RXFRAMES[Plus(L.LINKNR, k - 1)]])

NoneSaved(L) == \A i \in SeqNo : L.RXFRAMES[i] = NoMsg

CancelREJ(L) ==
    IF L.L2STATE = 6 /\ (~L.Ver2point2 \/ NoneSaved(L))
    THEN [L EXCEPT !.L2STATE = 5, !.REJSENT = FALSE] ELSE L

\* RR_OR_RNR: the entry after it and the supervisory frame it chooses.
RR_OR_RNR(L, busy, isCmd) ==
    IF busy THEN [link |-> [L EXCEPT !.RNRSENT = TRUE], type |-> "RNR"]
    ELSE LET n == IF L.L2STATE = 6 THEN SavedRun(L, SeqMod) ELSE 0
             F == [L EXCEPT !.RNRSENT = FALSE]
             D == IF n = 0 THEN F
                  ELSE [CancelREJ(TakeSaved(F, n)) EXCEPT !.L2ACKREQ = FALSE]
         IN  [link |-> D,
              type |-> IF D.L2STATE # 6 THEN "RR"
                       ELSE IF L.Ver2point2 /\ ~L.RNRSENT /\ ~isCmd
                            THEN "SREJ" ELSE "REJ"]

SEND_RR_RESP(L, busy, pf) ==
    LET r == RR_OR_RNR(L, busy, FALSE)
    IN  [link |-> AckTail(r.link),
         out  |-> << Frame(r.type, FALSE, pf, r.link.LINKNR, 0, NoMsg) >>]

SendSupervisCmd(L, busy) ==
    LET r == RR_OR_RNR([L EXCEPT !.L2ACKREQ = FALSE], busy, TRUE)
    IN  [link |-> [r.link EXCEPT !.POLLSENT = TRUE, !.L2TIMER = TRUE],
         out  |-> << Frame(r.type, TRUE, TRUE, r.link.LINKNR, 0, NoMsg) >>]

Silent(L) == [link |-> L, out |-> << >>]

\* A poll is answered.
AnswerPoll(L, busy) == SEND_RR_RESP([L EXCEPT !.L2ACKREQ = FALSE], busy, TRUE)

\* SDIFRM from CheckPF on.
CheckPF(L, f, busy) ==
    IF ~L.Ver2point2 /\ L.REJSENT THEN Silent(L)
    ELSE IF f.pf
    THEN AnswerPoll(IF L.L2STATE = 6 THEN [L EXCEPT !.REJSENT = TRUE]
                    ELSE [L EXCEPT !.RXFRAMES = [i \in SeqNo |-> NoMsg]], busy)
    ELSE IF L.L2ACKREQ THEN Silent(L) ELSE SEND_RR_RESP(L, busy, FALSE)

\* Mutant: a repeat is taken for a frame that came early, as it was before the
\* receive window was checked.
IsRepeat_Never(L, f) == FALSE

\* An N(S) outside the receive window is a repeat.
IsRepeat(L, f) == Dist(L.LINKNR, f.ns) >= RcvWindow

\* SDIFRM on a frame whose N(R) was good, L being the entry after SDNRCHK.
SDIFRM(L, f, busy, recent) ==
    IF Plus(f.ns, 1) = L.LINKNR /\ f.pf          \* taken for an IPOLL
    THEN LET R == [L EXCEPT !.L2STATE = 6, !.L2ACKREQ = FALSE]
         IN  IF recent THEN Silent(R) ELSE AnswerPoll(R, busy)
    ELSE LET D == TakeSaved(L, SavedRun(L, Dist(L.LINKNR, f.ns)))
         IN  IF D.LINKNR = f.ns
             THEN CheckPF(PROC_I_FRAME(CancelREJ(
                             [D EXCEPT !.RXFRAMES[f.ns] = NoMsg]), << f.m >>),
                          f, busy)
             ELSE IF IsRepeat(D, f)
             THEN IF f.pf THEN AnswerPoll(D, busy) ELSE Silent(D)
             ELSE CheckPF([D EXCEPT !.L2STATE = 6, !.L2ACKREQ = TRUE,
                                    !.RXFRAMES[f.ns] = f.m], f, busy)

-----------------------------------------------------------------------------
(* Supervisory frames.                                                     *)

TooManyRepeats(L) == L.IFrameRetryCounter > PORTN2

CloseRepeating(L) ==
    Silent([L EXCEPT !.IFrameRetryCounter = @ + 1, !.L2TIMER = TRUE,
                     !.L2STATE = 4])

\* SFRAME on an SREJ(F) for a frame that was sent: just that one goes again.
ResendOne(L, nr) ==
    IF TooManyRepeats(L) THEN CloseRepeating(L)
    ELSE LET C == [L EXCEPT !.IFrameRetryCounter = @ + 1, !.POLLSENT = FALSE]
         IN  IF L.FRAMES[nr] = NoMsg THEN Silent(C)
             ELSE [link |-> [C EXCEPT !.L2ACKREQ = FALSE, !.POLLSENT = TRUE,
                                      !.L2TIMER = TRUE],
                   out  |-> << IFrame(C, nr, TRUE) >>]

\* SFRAME, an RR, RNR or REJ command.
AnswerCommand(L, busy, recent) ==
    IF recent THEN Silent(L)
    ELSE LET r == RR_OR_RNR(L, busy, FALSE)
         IN  [link |-> [r.link EXCEPT !.L2ACKREQ = FALSE],
              out  |-> << Frame(r.type, FALSE, TRUE, r.link.LINKNR, 0, NoMsg) >>]

\* Mutant: sending the same frames again is not counted.
Repeats_NotCounted(L) == L.IFrameRetryCounter

Repeats(L) == IF L.LINKWS # L.LINKNS THEN L.IFrameRetryCounter + 1
              ELSE L.IFrameRetryCounter

\* SFRAME, a response with F: what was not acknowledged is sent again, once
\* for each poll.
PollAnswered(L, f) ==
    IF L.POLLSENT /\ L.LINKWS # L.LINKNS /\ TooManyRepeats(L)
    THEN CloseRepeating(L)
    ELSE LET R == IF ~L.POLLSENT THEN L
                  ELSE [L EXCEPT !.LINKNS = f.nr, !.L2RETRIES = 0,
                          !.L2TIMER = FALSE, !.POLLSENT = FALSE,
                          !.IFrameRetryCounter = Repeats(L)]
         IN  Silent([R EXCEPT !.L2TIMER = @ \/ f.type = "RNR"])

\* Mutant: RNR is never taken back.
NoteRNR_Sticks(L, f) == [L EXCEPT !.RNRSET = @ \/ f.type = "RNR"]

NoteRNR(L, f) == [L EXCEPT !.RNRSET = f.type = "RNR"]

\* SFRAME, L being the entry after SDNRCHK found N(R) good.
SFRAME(L, f, busy, recent) ==
    IF f.type = "SREJ" /\ (f.cmd \/ ~f.pf) THEN Silent(L)
    ELSE IF f.type = "SREJ" /\ f.nr # L.LINKNS THEN ResendOne(L, f.nr)
    ELSE IF f.cmd THEN AnswerCommand(NoteRNR(L, f), busy, recent)
    ELSE IF f.pf THEN PollAnswered(NoteRNR(L, f), f)
    ELSE Silent(NoteRNR(L, f))
=============================================================================
