--------------------------- MODULE L2ConnectProofs ---------------------------
(***************************************************************************)
(* What holds of setting up and clearing links, for any session table,     *)
(* retry limit, number of calls and loss.                                  *)
(*                                                                         *)
(* NodeOK is about one node: the sessions over the link are the one that   *)
(* the entry points to, a closing link has none, one that is being set up  *)
(* has at most the call that set it up, and what the user was told agrees  *)
(* with the table.  It is not inductive: L2TimerProc clears an entry in    *)
(* state 1 whose timer does not run and tells nobody.  CallOK says why the *)
(* timer runs, which is a matter of both stations and of the air: while a  *)
(* call waits and an XID is about, nothing that stops the timer of an      *)
(* entry in state 1 is on its way or will be sent.                         *)
(***************************************************************************)
EXTENDS L2Connect, FoldProofs

Links == [L2STATE : {0, 1, 2, 4, 5}, LINKTYPE : {0, 1, 2}, CIRCUITPOINTER : 0..MAXCIRCUITS,
          L2TIMER : BOOLEAN, L2RETRIES : Int, L2SLOTIM : BOOLEAN, SESSACTIVE : BOOLEAN,
          unacked : BOOLEAN]
Uses  == {"free", "other", "call", "up", "in"}
Told  == {"none", "calling", "closed"} \cup Answers
Nodes == [link : Links, told : Told, L4TABLE : [Sessions -> Uses]]
Frame == {"SABM", "DISC", "XID", "I", "RR", "UA", "DM", "XID(F)", "RR(F)"}

Used(n, use) == \E i \in Sessions : n.L4TABLE[i] = use

SessionsOK(n) ==
    \A i \in Sessions : n.L4TABLE[i] \in {"call", "up", "in"} =>
        /\ n.link.CIRCUITPOINTER = i
        /\ n.link.L2STATE \notin {0, 4}
        /\ n.link.L2STATE \in {1, 2} => n.L4TABLE[i] = "call"

ToldOK(n) == /\ n.told = "calling" <=> Used(n, "call")
             /\ n.told = "connected" <=> Used(n, "up")

\* No timer runs for an entry that is not in use.
Cold(l) == l.L2STATE = 0 => ~l.L2TIMER /\ ~l.L2SLOTIM

NodeOK(n) == /\ n \in Nodes /\ SessionsOK(n) /\ ToldOK(n)
             /\ Cold(n.link)

Calling(n) == n.link.L2STATE \in {1, 2} /\ Used(n, "call")

\* Every frame of q is one of F.
Carries(q, F) == \A k \in 1..Len(q) : q[k] \in F

Setup == {"XID", "SABM"}
Never == Setup \cup {"RR(F)"}

\* Not setting a link up, or only as the other end's XID made it.
Aside(n) == /\ n.link.L2STATE # 2
            /\ n.link.L2STATE = 1 => ~n.link.L2TIMER /\ ~n.link.L2SLOTIM /\ ~Calling(n)

\* s calls, t is the other end.
CallOK(s, t) ==
    Calling(node[s]) /\ XIDPending =>
        /\ node[s].link.L2TIMER /\ Aside(node[t])
        /\ Carries(air[s], Frame \ Never) /\ Carries(air[t], Setup)
        /\ node[s].link.L2STATE = 1 =>
              Carries(air[s], Frame \ {"UA"}) /\ Carries(air[t], {"XID"})

IInv == /\ node \in [Station -> Nodes] /\ air \in [Station -> Seq(Frame)]
        /\ \A s \in Station : NodeOK(node[s])
        /\ \A s \in Station : CallOK(s, Other(s))
        /\ XIDCallers = {} => ~XIDPending

\* A call with XID crosses no other, or there are none.
NoCrossing == XIDMayCross => XIDCallers = {}
-----------------------------------------------------------------------------
(***************************************************************************)
(* Stations, frames and tables.                                            *)
(***************************************************************************)

LEMMA Others2 ==
    ASSUME NEW s \in Station
    PROVE  /\ Other(s) \in Station /\ Other(s) # s /\ Other(Other(s)) = s
           /\ \A t \in Station : t = s \/ t = Other(s)
<1>1. PICK a \in Station, b \in Station : a # b /\ Station = {a, b}
  BY StationAssumption
<1>2. \E t \in Station : t # s
  BY <1>1
<1>3. \A t \in Station : \A u, v \in Station : u # t /\ v # t => u = v
  BY <1>1
<1>4. Other(s) \in Station /\ Other(s) # s
  BY <1>2 DEF Other
<1>5. Other(Other(s)) \in Station /\ Other(Other(s)) # Other(s)
  BY <1>4 DEF Other
<1> QED BY <1>3, <1>4, <1>5

LEMMA ClipOK ==
    ASSUME NEW q \in Seq(Frame), NEW out \in Seq(Frame)
    PROVE  /\ Clip(q \o out) \in Seq(Frame)
           /\ \A F : Carries(q, F) /\ Carries(out, F) => Carries(Clip(q \o out), F)
<1> DEFINE c == q \o out
           k == IF Len(c) < AirCap THEN Len(c) ELSE AirCap
<1>1. c \in Seq(Frame) /\ Len(c) \in Nat
  OBVIOUS
<1>2. k \in 0..Len(c)
  BY <1>1, BoundAssumption
<1>3. ASSUME NEW F, Carries(q, F), Carries(out, F) PROVE Carries(c, F)
  <2> SUFFICES ASSUME NEW i \in 1..Len(c) PROVE c[i] \in F
    BY DEF Carries
  <2>1. CASE i <= Len(q)
    BY <1>3, <2>1 DEF Carries
  <2>2. CASE i > Len(q)
    <3>1. c[i] = out[i - Len(q)] /\ i - Len(q) \in 1..Len(out)
      BY <2>2
    <3> QED BY <1>3, <3>1 DEF Carries
  <2> QED BY <2>1, <2>2
<1> HIDE DEF c, k
<1>4. SubSeq(c, 1, k) \in Seq(Frame) /\ Len(SubSeq(c, 1, k)) = k
      /\ \A i \in 1..k : SubSeq(c, 1, k)[i] = c[i]
  BY <1>1, <1>2
<1>5. \A F : Carries(c, F) => Carries(SubSeq(c, 1, k), F)
  BY <1>1, <1>2, <1>4 DEF Carries
<1>6. Clip(c) = SubSeq(c, 1, k)
  BY DEF Clip, k
<1> QED BY <1>3, <1>4, <1>5, <1>6 DEF c

LEMMA TailOK ==
    ASSUME NEW q \in Seq(Frame), q # << >>
    PROVE  /\ Tail(q) \in Seq(Frame) /\ Head(q) \in Frame
           /\ \A F : Carries(q, F) => Head(q) \in F /\ Carries(Tail(q), F)
<1>1. /\ Tail(q) \in Seq(Frame) /\ Head(q) \in Frame /\ Head(q) = q[1] /\ Len(q) \in Nat \ {0}
      /\ Len(Tail(q)) = Len(q) - 1 /\ \A i \in 1..Len(Tail(q)) : Tail(q)[i] = q[i + 1]
  OBVIOUS
<1> QED BY <1>1 DEF Carries

\* The first free session, which the code finds by going through the table.
LEMMA FirstFree ==
    ASSUME NEW n \in Nodes, Free(n) # {}
    PROVE  First(Free(n)) \in Sessions /\ n.L4TABLE[First(Free(n))] = "free"
<1>1. Free(n) \in SUBSET Nat
  BY BoundAssumption DEF Free, Sessions
<1>2. PICK i \in Free(n) : \A j \in Free(n) : i <= j
  BY <1>1, LeastNatural
<1>3. First(Free(n)) \in Free(n)
  BY <1>2 DEF First
<1> QED BY <1>3 DEF Free

-----------------------------------------------------------------------------
(***************************************************************************)
(* What the helpers make of a node.  Clear: no session over the link is    *)
(* left, and its user has been told.                                       *)
(***************************************************************************)
Clear(n) == /\ n \in Nodes
            /\ \A i \in Sessions : n.L4TABLE[i] \in {"free", "other"}
            /\ n.told \notin {"calling", "connected"}

LEMMA ClearOK ==
    ASSUME NEW n, Clear(n), NEW l \in Links, l.L2STATE = 0 => Cold(l)
    PROVE  /\ NodeOK([n EXCEPT !.link = l]) /\ [n EXCEPT !.link = l].link = l
           /\ [n EXCEPT !.link = l].told = n.told
           /\ Clear([n EXCEPT !.link = l])
<1> DEFINE m == [n EXCEPT !.link = l]
<1>1. m \in Nodes /\ m.link = l /\ m.told = n.told /\ m.L4TABLE = n.L4TABLE
  BY DEF Nodes, Clear
<1> HIDE DEF m
<1>2. Clear(m)
  BY <1>1 DEF Clear
<1>3. Cold(l)
  BY DEF Cold
<1>4. NodeOK(m)
  BY <1>1, <1>2, <1>3 DEF NodeOK, Clear, SessionsOK, ToldOK, Used
<1> QED BY <1>1, <1>2, <1>4 DEF m

\* The session of the entry goes; answer is what its user is told.
Gone(n, answer) == [n EXCEPT !.L4TABLE[n.link.CIRCUITPOINTER] = "free",
                             !.told = IF n.L4TABLE[n.link.CIRCUITPOINTER] \in {"call", "up"}
                                      THEN answer ELSE @]

LEMMA GoneOK ==
    ASSUME NEW n, NodeOK(n), n.link.CIRCUITPOINTER \in Sessions,
           NEW answer \in {"busy", "failed", "closed"},
           Used(n, "up") => answer = "closed"
    PROVE  /\ Clear(Gone(n, answer)) /\ Gone(n, answer).link = n.link
           /\ Step(n.told, Gone(n, answer).told)
<1> DEFINE m == Gone(n, answer)
           p == n.link.CIRCUITPOINTER
<1>1. /\ m \in Nodes /\ m.link = n.link
      /\ m.L4TABLE = [n.L4TABLE EXCEPT ![p] = "free"]
      /\ m.told = IF n.L4TABLE[p] \in {"call", "up"} THEN answer ELSE n.told
  BY DEF Gone, NodeOK, Nodes, Uses, Told, Answers
<1> HIDE DEF m
<1>2. \A i \in Sessions : i # p => n.L4TABLE[i] \in {"free", "other"}
  BY DEF NodeOK, SessionsOK, Nodes, Uses
<1>3. \A i \in Sessions : m.L4TABLE[i] \in {"free", "other"}
  BY <1>1, <1>2 DEF NodeOK, Nodes
<1>4. m.told \notin {"calling", "connected"} /\ Step(n.told, m.told)
  <2>1. CASE n.L4TABLE[p] = "call"
    BY <1>1, <2>1 DEF NodeOK, ToldOK, Used, Step, Answers
  <2>2. CASE n.L4TABLE[p] = "up"
    BY <1>1, <2>2 DEF NodeOK, ToldOK, Used, Step, Answers
  <2>3. CASE n.L4TABLE[p] \notin {"call", "up"}
    BY <1>1, <1>2, <2>3 DEF NodeOK, ToldOK, Used, Step, Answers
  <2> QED BY <2>1, <2>2, <2>3
<1> QED BY <1>1, <1>3, <1>4 DEF Clear, m

\* Nothing points to the session: there is none.
LEMMA NoPointer ==
    ASSUME NEW n, NodeOK(n), n.link.CIRCUITPOINTER = None
    PROVE  Clear(n) /\ Step(n.told, n.told)
<1>1. \A i \in Sessions : i # None
  BY BoundAssumption DEF Sessions, None
<1> QED BY <1>1 DEF NodeOK, SessionsOK, ToldOK, Used, Nodes, Uses, Clear, Step

LEMMA InformPartnerOK ==
    ASSUME NEW n, NodeOK(n)
    PROVE  /\ Clear(InformPartner(n)) /\ InformPartner(n).link = n.link
           /\ Step(n.told, InformPartner(n).told)
<1>1. CASE n.link.CIRCUITPOINTER = None
  BY <1>1, NoPointer DEF InformPartner
<1>2. CASE n.link.CIRCUITPOINTER # None
  <2>1. n.link.CIRCUITPOINTER \in Sessions
    BY <1>2, BoundAssumption DEF NodeOK, Nodes, Links, None, Sessions
  <2>2. InformPartner(n) = Gone(n, "closed")
    BY <1>2 DEF InformPartner, CloseSession, Gone
  <2> QED BY <2>1, <2>2, GoneOK
<1> QED BY <1>1, <1>2

LEMMA ConnectFailedOrRefusedOK ==
    ASSUME NEW n, NodeOK(n), n.link.L2STATE \in {1, 2}, NEW answer \in {"busy", "failed"}
    PROVE  /\ Clear(ConnectFailedOrRefused(n, answer))
           /\ ConnectFailedOrRefused(n, answer).link = n.link
           /\ Step(n.told, ConnectFailedOrRefused(n, answer).told)
<1>1. CASE n.link.CIRCUITPOINTER = None
  BY <1>1, NoPointer DEF ConnectFailedOrRefused
<1>2. CASE n.link.CIRCUITPOINTER # None
  <2>1. n.link.CIRCUITPOINTER \in Sessions
    BY <1>2, BoundAssumption DEF NodeOK, Nodes, Links, None, Sessions
  <2>2. ConnectFailedOrRefused(n, answer) = Gone(n, answer)
    BY <1>2 DEF ConnectFailedOrRefused, Gone
  <2>3. ~Used(n, "up")
    BY DEF NodeOK, SessionsOK, Used
  <2> QED BY <2>1, <2>2, <2>3, GoneOK
<1> QED BY <1>1, <1>2

\* A user closes or cancels a session over the link.
LEMMA CloseSessionOK ==
    ASSUME NEW n, NodeOK(n), NEW i \in OnThisLink(n)
    PROVE  /\ Clear(CloseSession(n, i)) /\ CloseSession(n, i).link = n.link
           /\ Step(n.told, CloseSession(n, i).told)
<1>1. i \in Sessions /\ i = n.link.CIRCUITPOINTER
  BY DEF OnThisLink, NodeOK, SessionsOK
<1>2. CloseSession(n, i) = Gone(n, "closed")
  BY <1>1 DEF CloseSession, Gone
<1> QED BY <1>1, <1>2, GoneOK

\* The entry changes and the sessions do not.
LEMMA LinkOK ==
    ASSUME NEW n, NodeOK(n), NEW l \in Links, l.CIRCUITPOINTER = n.link.CIRCUITPOINTER,
           \/ l.L2STATE = n.link.L2STATE
           \/ l.L2STATE = 5
           \/ l.L2STATE \in {1, 2} /\ n.link.L2STATE \in {0, 1, 2},
           l.L2STATE = 0 => Cold(l)
    PROVE  /\ NodeOK([n EXCEPT !.link = l]) /\ [n EXCEPT !.link = l].link = l
           /\ [n EXCEPT !.link = l].told = n.told
           /\ [n EXCEPT !.link = l].L4TABLE = n.L4TABLE
<1> DEFINE m == [n EXCEPT !.link = l]
<1>1. m \in Nodes /\ m.link = l /\ m.told = n.told /\ m.L4TABLE = n.L4TABLE
  BY DEF Nodes, NodeOK
<1> HIDE DEF m
<1>2. SessionsOK(m)
  BY <1>1 DEF NodeOK, SessionsOK
<1>3. ToldOK(m)
  BY <1>1 DEF NodeOK, ToldOK, Used
<1>4. Cold(l)
  BY DEF Cold
<1> QED BY <1>1, <1>2, <1>3, <1>4 DEF m, NodeOK
-----------------------------------------------------------------------------
(***************************************************************************)
(* A step of one node: s was n and is m, it took the frame f, if any, and  *)
(* sends out.  PendOK: it starts no call and no XID of its own.  OwnOK:    *)
(* what a node that calls does.  FarOK: what it does while the other calls *)
(* and sends it nothing but frames of Setup.                               *)
(***************************************************************************)
Nothing == "nothing"

Effect(s, m, f, out) ==
    /\ node' = [node EXCEPT ![s] = m]
    /\ out \in Seq(Frame)
    /\ \/ f = Nothing /\ air' = [air EXCEPT ![Other(s)] = Clip(@ \o out)]
       \/ Hears(s, f) /\ air' = [air EXCEPT ![s] = Tail(@), ![Other(s)] = Clip(@ \o out)]

PendOK(n, m, f, out) ==
    /\ Calling(m) => Calling(n)
    /\ m.link.L2STATE = 1 => n.link.L2STATE = 1 \/ f = "XID"
    /\ n.link.L2STATE = 1 \/ Carries(out, Frame \ {"XID"})

OwnOK(n, m, f, out) ==
    /\ Calling(m) /\ n.link.L2TIMER
    /\ f \notin Never /\ (n.link.L2STATE = 1 => f # "UA")
    =>  /\ m.link.L2TIMER /\ Carries(out, Setup)
        /\ m.link.L2STATE = 1 => n.link.L2STATE = 1 /\ Carries(out, {"XID"})

FarOK(n, m, f, out) ==
    Aside(n) /\ f \in Setup \cup {Nothing} =>
        /\ Aside(m) /\ Carries(out, Frame \ Never)
        /\ f # "SABM" => Carries(out, Frame \ {"UA"})

StepOK(n, m, f, out) == /\ NodeOK(m) /\ Step(n.told, m.told)
                        /\ PendOK(n, m, f, out) /\ OwnOK(n, m, f, out) /\ FarOK(n, m, f, out)

LEMMA Short ==
    /\ \A F : Carries(<< >>, F)
    /\ \A x, F : Carries(<< x >>, F) <=> x \in F
    /\ << >> \in Seq(Frame) /\ \A x \in Frame : << x >> \in Seq(Frame)
<1>1. \A F : Carries(<< >>, F)
  BY DEF Carries
<1>2. ASSUME NEW x, NEW F PROVE Carries(<< x >>, F) <=> x \in F
  <2>1. Len(<< x >>) = 1 /\ << x >>[1] = x
    OBVIOUS
  <2>2. \A k \in 1..1 : k = 1
    OBVIOUS
  <2> QED BY <2>1, <2>2 DEF Carries
<1> QED BY <1>1, <1>2

\* A step to a state in which nothing is being set up.
LEMMA Settles ==
    ASSUME NEW n, NEW m, NodeOK(m), Step(n.told, m.told), m.link.L2STATE \notin {1, 2},
           NEW f, NEW out, Carries(out, Frame \ {"XID"}),
           f \in Setup \cup {Nothing} => Carries(out, Frame \ Never),
           f \in {"XID", Nothing} => Carries(out, Frame \ {"UA"})
    PROVE  StepOK(n, m, f, out)
<1>2. ~Calling(m) /\ Aside(m)
  BY DEF Calling, Aside
<1> QED BY <1>2 DEF StepOK, PendOK, OwnOK, FarOK, Setup, Nothing

\* A step that changes nothing.
LEMMA Stays ==
    ASSUME NEW n, NodeOK(n), NEW f, NEW out,
           Calling(n) /\ f \notin Setup => out = << >>,
           Carries(out, Frame \ (Never \cup {"UA"}))
    PROVE  StepOK(n, n, f, out)
<1>1. /\ Carries(out, Frame \ {"XID"}) /\ Carries(out, Frame \ Never)
      /\ Carries(out, Frame \ {"UA"})
  BY DEF Carries, Never, Setup
<1>2. Step(n.told, n.told)
  BY DEF Step
<1> QED BY <1>1, <1>2, Short DEF StepOK, PendOK, OwnOK, FarOK, Never

LEMMA HearsEffect ==
    ASSUME NEW s \in Station, NEW f, Hears(s, f), NEW m, NEW out \in Seq(Frame),
           Replies(s, m, out)
    PROVE  Effect(s, m, f, out)
BY DEF Effect, Replies

LEMMA SendsEffect ==
    ASSUME NEW s \in Station, NEW m, NEW out \in Seq(Frame), Sends(s, m, out)
    PROVE  Effect(s, m, Nothing, out)
BY DEF Effect, Sends

Steps(s) == \E m, f, out : Effect(s, m, f, out) /\ StepOK(node[s], m, f, out)

-----------------------------------------------------------------------------
(***************************************************************************)
(* An incoming SABM or XID.                                                *)
(***************************************************************************)
LEMMA EmptyOK == EmptyLink \in Links /\ EmptyLink.L2STATE = 0 /\ Cold(EmptyLink)
BY BoundAssumption DEF EmptyLink, Links, None, Cold

LEMMA CLEAROUTLINKOK ==
    ASSUME NEW n, Clear(n)
    PROVE  /\ NodeOK(CLEAROUTLINK(n)) /\ CLEAROUTLINK(n).link.L2STATE = 0
           /\ CLEAROUTLINK(n).told = n.told
BY EmptyOK, ClearOK DEF CLEAROUTLINK

LEMMA DroppedOK ==
    ASSUME NEW n, NodeOK(n)
    PROVE  /\ NodeOK(Dropped(n)) /\ Dropped(n).link.L2STATE = 0
           /\ Step(n.told, Dropped(n).told)
BY InformPartnerOK, CLEAROUTLINKOK DEF Dropped

LEMMA SetupSessionForL2OK ==
    ASSUME NEW n, NodeOK(n), n.link.CIRCUITPOINTER = None, n.link.L2STATE = 5, Free(n) # {}
    PROVE  /\ NodeOK(SetupSessionForL2(n)) /\ SetupSessionForL2(n).link.L2STATE = 5
           /\ SetupSessionForL2(n).told = n.told
<1> DEFINE m == SetupSessionForL2(n)
           i == First(Free(n))
<1>1. i \in Sessions /\ n.L4TABLE[i] = "free" /\ n \in Nodes /\ i \in 0..MAXCIRCUITS
  BY FirstFree DEF NodeOK, Sessions
<1>2. Clear(n)
  BY NoPointer
<1> HIDE DEF i
<1>3. /\ m \in Nodes /\ m.link.CIRCUITPOINTER = i /\ m.link.L2STATE = 5 /\ m.told = n.told
      /\ m.L4TABLE = [n.L4TABLE EXCEPT ![i] = "in"]
  BY <1>1 DEF SetupSessionForL2, Nodes, Links, Uses, i
<1> HIDE DEF m
<1>4. \A j \in Sessions : IF j = i THEN m.L4TABLE[j] = "in"
                                   ELSE m.L4TABLE[j] \in {"free", "other"}
  BY <1>1, <1>2, <1>3 DEF Clear, Nodes
<1>5. SessionsOK(m)
  BY <1>3, <1>4 DEF SessionsOK
<1>6. ToldOK(m)
  BY <1>2, <1>3, <1>4 DEF ToldOK, Used, Clear
<1>7. Cold(m.link)
  BY <1>3 DEF Cold
<1> QED BY <1>3, <1>5, <1>6, <1>7 DEF NodeOK, m

LEMMA SETUPNEWL2SESSIONOK ==
    ASSUME NEW n, NodeOK(n)
    PROVE  /\ NodeOK(SETUPNEWL2SESSION(n)) /\ SETUPNEWL2SESSION(n).link.L2STATE = 5
           /\ SETUPNEWL2SESSION(n).told = n.told
           /\ SETUPNEWL2SESSION(n).link.CIRCUITPOINTER = n.link.CIRCUITPOINTER
<1> DEFINE l == [n.link EXCEPT !.L2STATE = 5, !.L2TIMER = FALSE, !.L2SLOTIM = TRUE,
                               !.unacked = FALSE, !.LINKTYPE = IF @ = 0 THEN 1 ELSE @]
<1>1. n.link \in Links
  BY DEF NodeOK, Nodes
<1>2. l \in Links /\ l.L2STATE = 5 /\ l.CIRCUITPOINTER = n.link.CIRCUITPOINTER
  BY <1>1 DEF Links
<1>3. SETUPNEWL2SESSION(n) = [n EXCEPT !.link = l]
  BY <1>1 DEF SETUPNEWL2SESSION, Links, NodeOK, Nodes
<1> HIDE DEF l
<1> QED BY <1>2, <1>3, LinkOK

LEMMA L2SABMOK ==
    ASSUME NEW s, NEW n, NodeOK(n), NEW verdict
    PROVE  /\ NodeOK(L2SABM(s, n, verdict)[1]) /\ L2SABM(s, n, verdict)[1].told = n.told
           /\ L2SABM(s, n, verdict)[2] \in {"UA", "DM"}
           /\ \/ L2SABM(s, n, verdict)[1] = n
              \/ L2SABM(s, n, verdict)[1].link.L2STATE \in {0, 5}
<1> DEFINE new == SETUPNEWL2SESSION(n)
           r == L2SABM(s, n, verdict)
<1>1. NodeOK(new) /\ new.link.L2STATE = 5 /\ new.told = n.told
  BY SETUPNEWL2SESSIONOK
<1>2. CASE Refused(n, verdict)
  <2>1. CASE verdict = "bbs" /\ n.link.L2STATE = 1
    <3>1. r = << CLEAROUTLINK(n), "DM" >>
      BY <1>2, <2>1 DEF L2SABM
    <3>2. n.link.CIRCUITPOINTER = None
      BY <1>2, <2>1 DEF Refused
    <3> QED BY <3>1, <3>2, NoPointer, CLEAROUTLINKOK
  <2>2. CASE ~(verdict = "bbs" /\ n.link.L2STATE = 1)
    <3>1. r = << n, "DM" >>
      BY <1>2, <2>2 DEF L2SABM
    <3> QED BY <3>1
  <2> QED BY <2>1, <2>2
<1>3. CASE ~Refused(n, verdict) /\ ~NeedsSession(s, new)
  <2>1. r = << new, "UA" >>
    BY <1>3 DEF L2SABM
  <2> HIDE DEF new
  <2> QED BY <1>1, <2>1
<1>4. CASE ~Refused(n, verdict) /\ NeedsSession(s, new)
  <2>1. new.link.CIRCUITPOINTER = None
    BY <1>4 DEF NeedsSession
  <2>2. CASE Free(new) = {} \/ verdict = "full"
    <3>1. r = << CLEAROUTLINK(new), "DM" >>
      BY <1>4, <2>2 DEF L2SABM
    <3> HIDE DEF new
    <3> QED BY <1>1, <2>1, <3>1, NoPointer, CLEAROUTLINKOK
  <2>3. CASE ~(Free(new) = {} \/ verdict = "full")
    <3>1. r = << SetupSessionForL2(new), "UA" >>
      BY <1>4, <2>3 DEF L2SABM
    <3> HIDE DEF new
    <3> QED BY <1>1, <2>1, <2>3, <3>1, SetupSessionForL2OK
  <2> QED BY <2>2, <2>3
<1> QED BY <1>2, <1>3, <1>4
\* The link of Unhooked points nowhere.
LEMMA UnhookedOK ==
    ASSUME NEW n, NodeOK(n)
    PROVE  /\ NodeOK(Unhooked(n)) /\ Unhooked(n).link.L2STATE = n.link.L2STATE
           /\ Step(n.told, Unhooked(n).told) /\ Clear(Unhooked(n))
<1> DEFINE m == InformPartner(n)
           l == [m.link EXCEPT !.CIRCUITPOINTER = None]
<1>1. Clear(m) /\ m.link = n.link /\ Step(n.told, m.told)
  BY InformPartnerOK
<1>2. Unhooked(n) = [m EXCEPT !.link = l]
  BY DEF Unhooked
<1>3. Cold(m.link)
  BY <1>1 DEF NodeOK
<1> HIDE DEF m
<1>a. m.link \in Links
  BY <1>1 DEF Clear, Nodes
<1>4. l \in Links /\ l.L2STATE = n.link.L2STATE /\ Cold(l)
  BY <1>1, <1>3, <1>a, BoundAssumption DEF Links, None, Cold
<1> HIDE DEF l
<1> QED BY <1>1, <1>2, <1>4, ClearOK

\* The entry changes, in no way that its sessions notice.
Same(n, m) == /\ NodeOK(m) /\ m.told = n.told
              /\ m.L4TABLE = n.L4TABLE

LEMMA SameCalling ==
    ASSUME NEW n, NEW m, Same(n, m), n.link.L2STATE \in {1, 2}
    PROVE  /\ Calling(m) => Calling(n)
           /\ Step(n.told, m.told)
BY DEF Same, Calling, Used, Step

LEMMA HeardOK ==
    ASSUME NEW n, NodeOK(n)
    PROVE  /\ Same(n, Heard(n)) /\ Heard(n).link.L2STATE = n.link.L2STATE
           /\ Heard(n).link = [n.link EXCEPT !.L2TIMER = FALSE]
           /\ ~Heard(n).link.L2TIMER
<1> DEFINE l == [n.link EXCEPT !.L2TIMER = FALSE]
<1>1. l \in Links /\ l.L2STATE = n.link.L2STATE /\ l.CIRCUITPOINTER = n.link.CIRCUITPOINTER
      /\ ~l.L2TIMER /\ (l.L2STATE = 0 => Cold(l))
  <2>1. n.link \in Links /\ Cold(n.link)
    BY DEF NodeOK, Nodes
  <2> QED BY <2>1 DEF Links, Cold
<1>2. Heard(n) = [n EXCEPT !.link = l]
  BY DEF Heard
<1> HIDE DEF l
<1>3. Same(n, Heard(n)) /\ Heard(n).link = l
  BY <1>1, <1>2, LinkOK DEF Same
<1> QED BY <1>1, <1>3 DEF l

LEMMA RecvSABMOK ==
    ASSUME NEW s \in Station, NodeOK(node[s]), RecvSABM(s)
    PROVE  Steps(s)
<1> DEFINE n == node[s]
<1>1. Hears(s, "SABM")
  BY DEF RecvSABM
<1>2. CASE n.link.L2STATE = 4
  <2>1. Replies(s, n, << "DM" >>)
    BY <1>2 DEF RecvSABM
  <2>2. Effect(s, n, "SABM", << "DM" >>)
    BY <1>1, <2>1, HearsEffect, Short DEF Frame
  <2>3. StepOK(n, n, "SABM", << "DM" >>)
    BY Stays, Short DEF Never, Setup, Frame
  <2> QED BY <2>2, <2>3 DEF Steps
<1>3. CASE n.link.L2STATE \in {2, 5} /\ ~n.link.SESSACTIVE
  <2>1. Replies(s, n, << "UA" >>)
    BY <1>3 DEF RecvSABM
  <2>2. Effect(s, n, "SABM", << "UA" >>)
    BY <1>1, <2>1, HearsEffect, Short DEF Frame
  <2>3. StepOK(n, n, "SABM", << "UA" >>)
    <3>1. Step(n.told, n.told)
      BY DEF Step
    <3>2. Carries(<< "UA" >>, Frame \ {"XID"}) /\ Carries(<< "UA" >>, Frame \ Never)
      BY Short DEF Frame, Never, Setup
    <3> QED BY <3>1, <3>2 DEF StepOK, PendOK, OwnOK, FarOK, Never, Setup
  <2> QED BY <2>2, <2>3 DEF Steps
<1>4. CASE n.link.L2STATE # 4 /\ ~(n.link.L2STATE \in {2, 5} /\ ~n.link.SESSACTIVE)
  <2>1. PICK verdict :
            LET r == L2SABM(s, IF n.link.L2STATE \in {2, 5} THEN Unhooked(n) ELSE n, verdict)
            IN  Replies(s, r[1], << r[2] >>)
    BY <1>4 DEF RecvSABM
  <2> DEFINE u == IF n.link.L2STATE \in {2, 5} THEN Unhooked(n) ELSE n
             r == L2SABM(s, u, verdict)
  <2>2. /\ NodeOK(u) /\ Step(n.told, u.told) /\ u.link.L2STATE = n.link.L2STATE
        /\ n.link.L2STATE \in {2, 5} => Clear(u)
        /\ n.link.L2STATE \notin {2, 5} => u = n
    BY UnhookedOK DEF Step
  <2>3. Replies(s, r[1], << r[2] >>)
    BY <2>1
  <2> HIDE DEF u
  <2>4. /\ NodeOK(r[1]) /\ r[1].told = u.told /\ r[2] \in {"UA", "DM"}
        /\ r[1] = u \/ r[1].link.L2STATE \in {0, 5}
    BY <2>2, L2SABMOK
  <2> HIDE DEF r
  <2>5. Effect(s, r[1], "SABM", << r[2] >>)
    <3>1. << r[2] >> \in Seq(Frame)
      BY <2>4 DEF Frame
    <3> QED BY <1>1, <2>3, <3>1, HearsEffect
  <2>6. Carries(<< r[2] >>, Frame \ Never) /\ Carries(<< r[2] >>, Frame \ {"XID"})
    BY <2>4, Short DEF Frame, Never, Setup
  <2>7. StepOK(n, r[1], "SABM", << r[2] >>)
    <3>1. CASE r[1].link.L2STATE \in {0, 5}
      <4>1. NodeOK(r[1]) /\ Step(n.told, r[1].told)
        BY <2>2, <2>4
      <4>2. "SABM" \notin {"XID", Nothing} /\ r[1].link.L2STATE \notin {1, 2}
        BY <3>1 DEF Nothing
      <4> QED BY <2>6, <4>1, <4>2, Settles
    <3>2. CASE r[1] = u /\ u.link.L2STATE \notin {0, 5}
      <4>1. Calling(u) => u = n
        BY <2>2 DEF Calling, Clear, Used
      <4>2. Aside(n) => Aside(u)
        BY <2>2, <4>1 DEF Aside
      <4>4. u.link.L2STATE = 1 => n.link.L2STATE = 1
        BY <2>2
      <4> QED BY <2>2, <2>4, <2>6, <3>2, <4>1, <4>2, <4>4
              DEF StepOK, PendOK, OwnOK, FarOK, Never, Setup
    <3> QED BY <2>4, <3>1, <3>2
  <2> QED BY <2>5, <2>7 DEF Steps
<1> QED BY <1>2, <1>3, <1>4

LEMMA RecvXIDCommandOK ==
    ASSUME NEW s \in Station, NodeOK(node[s]), RecvXIDCommand(s)
    PROVE  Steps(s)
<1> DEFINE n == node[s]
<1>1. Hears(s, "XID")
  BY DEF RecvXIDCommand
<1>2. CASE n.link.L2STATE \in {4, 5}
  <2>1. Replies(s, Unhooked(n), << >>)
    BY <1>2 DEF RecvXIDCommand
  <2>2. Effect(s, Unhooked(n), "XID", << >>)
    BY <1>1, <2>1, HearsEffect, Short
  <2>3. StepOK(n, Unhooked(n), "XID", << >>)
    BY <1>2, UnhookedOK, Settles, Short
  <2> QED BY <2>2, <2>3 DEF Steps
<1>3. CASE n.link.L2STATE \notin {4, 5}
  <2>1. PICK verdict : LET r == ProcessXIDCommand(n, verdict)
                       IN  Replies(s, r[1], << r[2] >>)
    BY <1>3 DEF RecvXIDCommand
  <2>2. CASE verdict = "port"
    <3>1. Replies(s, n, << "DM" >>)
      BY <2>1, <2>2 DEF ProcessXIDCommand
    <3>2. Effect(s, n, "XID", << "DM" >>)
      BY <1>1, <3>1, HearsEffect, Short DEF Frame
    <3>3. StepOK(n, n, "XID", << "DM" >>)
      BY Stays, Short DEF Never, Setup, Frame
    <3> QED BY <3>2, <3>3 DEF Steps
  <2>3. CASE verdict # "port"
    <3> DEFINE l == [n.link EXCEPT !.L2STATE = 1]
               m == [n EXCEPT !.link = l]
    <3>1. Replies(s, m, << "XID(F)" >>)
      BY <2>1, <2>3 DEF ProcessXIDCommand
    <3>2. Effect(s, m, "XID", << "XID(F)" >>)
      BY <1>1, <3>1, HearsEffect, Short DEF Frame
    <3>3. /\ l \in Links /\ l.CIRCUITPOINTER = n.link.CIRCUITPOINTER /\ l.L2STATE = 1
          /\ l.L2TIMER = n.link.L2TIMER /\ l.L2SLOTIM = n.link.L2SLOTIM
          /\ n.link.L2STATE \in {0, 1, 2}
      BY <1>3 DEF NodeOK, Nodes, Links
    <3> HIDE DEF l
    <3>4. NodeOK(m) /\ m.link = l /\ m.told = n.told /\ m.L4TABLE = n.L4TABLE
      BY <3>3, LinkOK
    <3> HIDE DEF m
    <3>5. Calling(m) => Calling(n) /\ n.link.L2STATE # 0
      BY <3>3, <3>4 DEF Calling, Used, NodeOK, SessionsOK
    <3>6. Aside(n) => Aside(m)
      <4>1. Cold(n.link)
        BY DEF NodeOK
      <4> QED BY <3>3, <3>4, <3>5, <4>1 DEF Aside, Cold
    <3>7. StepOK(n, m, "XID", << "XID(F)" >>)
      <4>1. /\ Carries(<< "XID(F)" >>, Frame \ {"XID"}) /\ Carries(<< "XID(F)" >>, Frame \ Never)
            /\ Carries(<< "XID(F)" >>, Frame \ {"UA"})
        BY Short DEF Frame, Never, Setup
      <4> QED BY <3>4, <3>5, <3>6, <4>1
              DEF StepOK, PendOK, OwnOK, FarOK, Never, Setup, Step
    <3> QED BY <3>2, <3>7 DEF Steps
  <2> QED BY <2>2, <2>3
<1> QED BY <1>2, <1>3
-----------------------------------------------------------------------------
(***************************************************************************)
(* The other frames.                                                       *)
(***************************************************************************)

KeepsTimer(n, m, f) ==
    /\ Calling(m) /\ n.link.L2TIMER /\ f # "RR(F)"
    /\ n.link.L2STATE = 1 => f # "UA"
    => m.link.L2TIMER

\* Nothing is sent; a call that is still one was one, and keeps its timer.
LEMMA Quietly ==
    ASSUME NEW n, NEW m, NodeOK(m), Step(n.told, m.told),
           Calling(m) => Calling(n),
           m.link.L2STATE = 1 => n.link.L2STATE = 1,
           NEW f, f \notin Setup \cup {Nothing},
           KeepsTimer(n, m, f)
    PROVE  StepOK(n, m, f, << >>)
BY Short DEF StepOK, PendOK, OwnOK, FarOK, Nothing, Never, KeepsTimer

LEMMA RecvXIDResponseOK ==
    ASSUME NEW s \in Station, NodeOK(node[s]), RecvXIDResponse(s)
    PROVE  Steps(s)
<1> DEFINE n == node[s]
           l == [n.link EXCEPT !.L2STATE = 2, !.L2TIMER = TRUE]
           m == IF n.link.L2STATE # 1 THEN n ELSE [n EXCEPT !.link = l]
<1>1. Effect(s, m, "XID(F)", << >>)
  <2>1. Hears(s, "XID(F)") /\ Replies(s, m, << >>)
    BY DEF RecvXIDResponse
  <2> QED BY <2>1, HearsEffect, Short
<1>2. Step(n.told, n.told)
  BY DEF Step
<1>3. CASE n.link.L2STATE # 1
  <2>1. m = n
    BY <1>3
  <2> HIDE DEF m
  <2>2. KeepsTimer(n, m, "XID(F)")
    BY <2>1 DEF KeepsTimer
  <2> QED BY <1>1, <1>2, <1>3, <2>1, <2>2, Quietly DEF Steps, Setup, Nothing
<1>4. CASE n.link.L2STATE = 1
  <2>1. m = [n EXCEPT !.link = l]
    BY <1>4
  <2>a. n.link \in Links
    BY DEF NodeOK, Nodes
  <2>2. /\ l \in Links /\ l.CIRCUITPOINTER = n.link.CIRCUITPOINTER /\ l.L2STATE = 2
        /\ l.L2TIMER = TRUE
    BY <2>a DEF Links
  <2> HIDE DEF l, m
  <2>3. /\ NodeOK(m) /\ m.told = n.told /\ m.L4TABLE = n.L4TABLE /\ m.link = l
        /\ m.link.L2STATE # 1
    BY <1>4, <2>1, <2>2, LinkOK
  <2>4. Calling(m) => Calling(n)
    BY <1>4, <2>3 DEF Calling, Used
  <2>5. StepOK(n, m, "XID(F)", << >>)
    <3>1. KeepsTimer(n, m, "XID(F)")
      BY <2>2, <2>3 DEF KeepsTimer
    <3>2. Step(n.told, m.told)
      BY <1>2, <2>3
    <3> QED BY <2>3, <2>4, <3>1, <3>2, Quietly DEF Setup, Nothing
  <2> QED BY <1>1, <2>5 DEF Steps
<1> QED BY <1>3, <1>4

\* What the handlers write into an entry.
LEMMA UpEdit ==
    ASSUME NEW k \in Links
    PROVE  LET l == [k EXCEPT !.L2STATE = 5, !.L2TIMER = FALSE, !.L2RETRIES = 0,
                              !.L2SLOTIM = TRUE, !.unacked = FALSE]
           IN  l \in Links /\ l.L2STATE = 5 /\ l.CIRCUITPOINTER = k.CIRCUITPOINTER
<1> DEFINE l(x) == [k EXCEPT !.L2STATE = 5, !.L2TIMER = FALSE, !.L2RETRIES = x,
                             !.L2SLOTIM = TRUE, !.unacked = FALSE]
<1>1. \A x \in Int : l(x) \in Links
  BY DEF Links
<1>2. \A x : l(x).L2STATE = 5 /\ l(x).CIRCUITPOINTER = k.CIRCUITPOINTER
  BY DEF Links
<1>3. 0 \in Int
  OBVIOUS
<1> HIDE DEF l
<1>4. l(0) \in Links /\ l(0).L2STATE = 5 /\ l(0).CIRCUITPOINTER = k.CIRCUITPOINTER
  BY <1>1, <1>2, <1>3
<1> QED BY <1>4 DEF l

LEMMA AgainEdit ==
    ASSUME NEW k \in Links
    PROVE  LET l == [k EXCEPT !.L2STATE = 2, !.L2TIMER = TRUE, !.L2RETRIES = @ - 1]
           IN  /\ l \in Links /\ l.L2STATE = 2 /\ l.CIRCUITPOINTER = k.CIRCUITPOINTER
               /\ l.L2TIMER = TRUE
<1> DEFINE l(x) == [k EXCEPT !.L2STATE = 2, !.L2TIMER = TRUE, !.L2RETRIES = x]
<1>1. \A x \in Int : l(x) \in Links
  BY DEF Links
<1>2. \A x : /\ l(x).L2STATE = 2 /\ l(x).CIRCUITPOINTER = k.CIRCUITPOINTER
             /\ l(x).L2TIMER = TRUE
  BY DEF Links
<1>3. k.L2RETRIES - 1 \in Int
  BY DEF Links
<1> HIDE DEF l
<1>4. /\ l(k.L2RETRIES - 1) \in Links /\ l(k.L2RETRIES - 1).L2STATE = 2
      /\ l(k.L2RETRIES - 1).CIRCUITPOINTER = k.CIRCUITPOINTER
      /\ l(k.L2RETRIES - 1).L2TIMER = TRUE
  BY <1>1, <1>2, <1>3
<1> QED BY <1>4 DEF l

LEMMA AckedEdit ==
    ASSUME NEW k \in Links
    PROVE  LET l == [k EXCEPT !.L2RETRIES = 0, !.unacked = FALSE]
           IN  /\ l \in Links /\ l.CIRCUITPOINTER = k.CIRCUITPOINTER
               /\ l.L2STATE = k.L2STATE /\ l.L2TIMER = k.L2TIMER
<1> DEFINE l(x) == [k EXCEPT !.L2RETRIES = x, !.unacked = FALSE]
<1>1. \A x \in Int : l(x) \in Links
  BY DEF Links
<1>2. \A x : /\ l(x).L2STATE = k.L2STATE /\ l(x).CIRCUITPOINTER = k.CIRCUITPOINTER
              /\ l(x).L2TIMER = k.L2TIMER
  BY DEF Links
<1>3. 0 \in Int
  OBVIOUS
<1>4. l(0) \in Links
  BY <1>1, <1>3
<1> QED BY <1>2, <1>4

LEMMA SENDCONNECTREPLYOK ==
    ASSUME NEW n, NodeOK(n), n.link.L2STATE = 5
    PROVE  /\ NodeOK(SENDCONNECTREPLY(n)) /\ SENDCONNECTREPLY(n).link.L2STATE = 5
           /\ Step(n.told, SENDCONNECTREPLY(n).told)
<1> DEFINE p == n.link.CIRCUITPOINTER
           m == SENDCONNECTREPLY(n)
<1>1. CASE p = None \/ n.L4TABLE[p] # "call"
  <2>1. m = n
    BY <1>1 DEF SENDCONNECTREPLY
  <2> QED BY <2>1 DEF Step
<1>2. CASE ~(p = None \/ n.L4TABLE[p] # "call")
  <2>1. p \in Sessions /\ n.L4TABLE[p] = "call"
    BY <1>2, BoundAssumption DEF NodeOK, Nodes, Links, None, Sessions
  <2>2. m = [n EXCEPT !.L4TABLE[p] = "up", !.told = "connected"]
    BY <1>2 DEF SENDCONNECTREPLY
  <2>a. n \in Nodes /\ [n.L4TABLE EXCEPT ![p] = "up"] \in [Sessions -> Uses]
    BY <2>1 DEF NodeOK, Nodes, Uses
  <2>3. /\ m \in Nodes /\ m.link = n.link /\ m.told = "connected"
        /\ m.L4TABLE = [n.L4TABLE EXCEPT ![p] = "up"]
    BY <2>2, <2>a DEF Nodes, Told, Answers
  <2> HIDE DEF m
  <2>4. \A i \in Sessions : IF i = p THEN m.L4TABLE[i] = "up"
                                     ELSE m.L4TABLE[i] \in {"free", "other"}
    BY <2>1, <2>3 DEF NodeOK, SessionsOK, Nodes, Uses
  <2>5. SessionsOK(m) /\ ToldOK(m)
    BY <2>1, <2>3, <2>4 DEF SessionsOK, ToldOK, Used
  <2>6. n.told = "calling"
    BY <2>1 DEF NodeOK, ToldOK, Used
  <2>7. m.link.L2STATE = 5 /\ Step(n.told, m.told)
    BY <2>3, <2>6 DEF Step, Answers
  <2>8. NodeOK(m)
    BY <2>3, <2>5 DEF NodeOK
  <2> QED BY <2>7, <2>8 DEF m
<1> QED BY <1>1, <1>2

LEMMA RecvUAOK ==
    ASSUME NEW s \in Station, NodeOK(node[s]), RecvUA(s)
    PROVE  Steps(s)
<1> DEFINE n == node[s]
<1>1. Hears(s, "UA")
  BY DEF RecvUA
<1>2. CASE n.link.L2STATE = 2
  <2> DEFINE l == [n.link EXCEPT !.L2STATE = 5, !.L2TIMER = FALSE, !.L2RETRIES = 0,
                                 !.L2SLOTIM = TRUE, !.unacked = FALSE]
             u == [n EXCEPT !.link = l]
             m == SENDCONNECTREPLY(u)
  <2>a. n \in Nodes /\ n.link \in Links
    BY DEF NodeOK, Nodes
  <2>b. LinkIsUp(n) = u
    BY <2>a DEF LinkIsUp, Nodes, Links
  <2>1. Replies(s, m, << >>)
    BY <1>2, <2>b DEF RecvUA
  <2>2. l \in Links /\ l.L2STATE = 5 /\ l.CIRCUITPOINTER = n.link.CIRCUITPOINTER
    BY <2>a, UpEdit
  <2> HIDE DEF l
  <2>3. NodeOK(u) /\ u.link = l /\ u.told = n.told
    BY <2>2, LinkOK
  <2> HIDE DEF u
  <2>4. NodeOK(m) /\ m.link.L2STATE = 5 /\ Step(n.told, m.told)
    BY <2>2, <2>3, SENDCONNECTREPLYOK
  <2> HIDE DEF m
  <2>5. StepOK(n, m, "UA", << >>)
    BY <2>4, Settles, Short DEF Nothing, Setup
  <2>6. Effect(s, m, "UA", << >>)
    BY <1>1, <2>1, HearsEffect, Short
  <2> QED BY <2>5, <2>6 DEF Steps
<1>3. CASE n.link.L2STATE = 4
  <2> DEFINE m == Dropped(n)
  <2>1. Replies(s, m, << >>)
    BY <1>3 DEF RecvUA
  <2>2. Effect(s, m, "UA", << >>)
    BY <1>1, <2>1, HearsEffect, Short
  <2>3. StepOK(n, m, "UA", << >>)
    BY DroppedOK, Settles, Short DEF Nothing, Setup
  <2> QED BY <2>2, <2>3 DEF Steps
<1>4. CASE n.link.L2STATE \notin {2, 4}
  <2> DEFINE m == Heard(n)
  <2>1. Replies(s, m, << >>)
    BY <1>4 DEF RecvUA
  <2>2. Effect(s, m, "UA", << >>)
    BY <1>1, <2>1, HearsEffect, Short
  <2>3. Same(n, m) /\ m.link.L2STATE = n.link.L2STATE
    BY HeardOK
  <2> HIDE DEF m
  <2>4. NodeOK(m) /\ Step(n.told, m.told) /\ (Calling(m) => Calling(n))
    BY <2>3 DEF Same, Step, Calling, Used
  <2>5. StepOK(n, m, "UA", << >>)
    <3>1. KeepsTimer(n, m, "UA")
      BY <1>4, <2>3 DEF KeepsTimer, Calling
    <3> QED BY <2>3, <2>4, <3>1, Quietly DEF Setup, Nothing
  <2> QED BY <2>2, <2>5 DEF Steps
<1> QED BY <1>2, <1>3, <1>4

LEMMA RecvDMOK ==
    ASSUME NEW s \in Station, NodeOK(node[s]), RecvDM(s)
    PROVE  Steps(s)
<1> DEFINE n == node[s]
<1>1. Hears(s, "DM")
  BY DEF RecvDM
<1>2. CASE n.link.L2STATE = 0
  <2>1. Replies(s, n, << >>)
    BY <1>2 DEF RecvDM
  <2>2. Effect(s, n, "DM", << >>)
    BY <1>1, <2>1, HearsEffect, Short
  <2>3. StepOK(n, n, "DM", << >>)
    BY Stays, Short
  <2> QED BY <2>2, <2>3 DEF Steps
<1>3. CASE n.link.L2STATE = 1
  <2> DEFINE l == [n.link EXCEPT !.L2STATE = 2, !.L2TIMER = TRUE, !.L2RETRIES = @ - 1]
             m == [n EXCEPT !.link = l]
  <2>a. n \in Nodes /\ n.link \in Links
    BY DEF NodeOK, Nodes
  <2>b. m = [n EXCEPT !.link.L2STATE = 2, !.link.L2TIMER = TRUE, !.link.L2RETRIES = @ - 1]
    BY <2>a DEF Nodes, Links
  <2>1. Replies(s, m, << >>)
    BY <1>3, <2>b DEF RecvDM
  <2>2. /\ l \in Links /\ l.CIRCUITPOINTER = n.link.CIRCUITPOINTER /\ l.L2STATE = 2
        /\ l.L2TIMER = TRUE
    BY <2>a, AgainEdit
  <2> HIDE DEF l
  <2>3. /\ NodeOK(m) /\ m.told = n.told /\ m.L4TABLE = n.L4TABLE /\ m.link = l
        /\ m.link.L2STATE # 1
    BY <1>3, <2>2, LinkOK
  <2> HIDE DEF m
  <2>4. (Calling(m) => Calling(n)) /\ Step(n.told, m.told)
    BY <1>3, <2>3 DEF Calling, Used, Step
  <2>5. StepOK(n, m, "DM", << >>)
    <3>1. KeepsTimer(n, m, "DM")
      BY <2>2, <2>3 DEF KeepsTimer
    <3> QED BY <2>3, <2>4, <3>1, Quietly DEF Setup, Nothing
  <2>6. Effect(s, m, "DM", << >>)
    BY <1>1, <2>1, HearsEffect, Short
  <2> QED BY <2>5, <2>6 DEF Steps
<1>4. CASE n.link.L2STATE = 2
  <2> DEFINE h == Heard(n)
             m == ConnectFailedOrRefused(h, "busy")
  <2>1. Replies(s, m, << >>)
    BY <1>4 DEF RecvDM
  <2>2. NodeOK(h) /\ h.told = n.told /\ h.link.L2STATE = 2
    BY <1>4, HeardOK DEF Same
  <2> HIDE DEF h
  <2>3. Clear(m) /\ m.link = h.link /\ Step(n.told, m.told)
    BY <2>2, ConnectFailedOrRefusedOK
  <2> HIDE DEF m
  <2>4. NodeOK(m) /\ ~Calling(m) /\ m.link.L2STATE # 1
    BY <2>2, <2>3 DEF NodeOK, Clear, SessionsOK, ToldOK, Used, Calling
  <2>5. StepOK(n, m, "DM", << >>)
    <3>1. KeepsTimer(n, m, "DM")
      BY <2>4 DEF KeepsTimer
    <3> QED BY <2>3, <2>4, <3>1, Quietly DEF Setup, Nothing
  <2>6. Effect(s, m, "DM", << >>)
    BY <1>1, <2>1, HearsEffect, Short
  <2> QED BY <2>5, <2>6 DEF Steps
<1>5. CASE n.link.L2STATE \notin {0, 1, 2}
  <2> DEFINE m == Dropped(n)
  <2>1. Replies(s, m, << >>)
    BY <1>5 DEF RecvDM
  <2>2. Effect(s, m, "DM", << >>)
    BY <1>1, <2>1, HearsEffect, Short
  <2>3. StepOK(n, m, "DM", << >>)
    BY DroppedOK, Settles, Short DEF Nothing, Setup
  <2> QED BY <2>2, <2>3 DEF Steps
<1> QED BY <1>2, <1>3, <1>4, <1>5

LEMMA RecvDISCOK ==
    ASSUME NEW s \in Station, NodeOK(node[s]), RecvDISC(s)
    PROVE  Steps(s)
<1> DEFINE n == node[s]
           m == Dropped(n)
           x == IF n.link.L2STATE = 0 THEN "DM" ELSE "UA"
<1>1. Hears(s, "DISC") /\ Replies(s, m, << x >>)
  BY DEF RecvDISC
<1>2. x \in {"DM", "UA"}
  OBVIOUS
<1> HIDE DEF x
<1>3. << x >> \in Seq(Frame) /\ Carries(<< x >>, Frame \ {"XID"})
  BY <1>2, Short DEF Frame
<1>4. Effect(s, m, "DISC", << x >>)
  BY <1>1, <1>3, HearsEffect
<1>a. NodeOK(m) /\ m.link.L2STATE \notin {1, 2} /\ Step(n.told, m.told)
  BY DroppedOK
<1> HIDE DEF m
<1>5. StepOK(n, m, "DISC", << x >>)
  BY <1>3, <1>a, Settles DEF Nothing, Setup
<1> QED BY <1>4, <1>5 DEF Steps

LEMMA RecvIOK ==
    ASSUME NEW s \in Station, NodeOK(node[s]), RecvI(s)
    PROVE  Steps(s)
<1> DEFINE n == node[s]
           l == [n.link EXCEPT !.SESSACTIVE = TRUE]
           active == [n EXCEPT !.link = l]
<1>1. Hears(s, "I")
  BY DEF RecvI
<1>2. CASE n.link.L2STATE = 0
  <2>1. Replies(s, n, << "DM" >>)
    BY <1>2 DEF RecvI
  <2>2. Effect(s, n, "I", << "DM" >>)
    BY <1>1, <2>1, HearsEffect, Short DEF Frame
  <2>3. ~Calling(n)
    BY <1>2 DEF Calling
  <2>4. StepOK(n, n, "I", << "DM" >>)
    BY <2>3, Stays, Short DEF Never, Setup, Frame
  <2> QED BY <2>2, <2>4 DEF Steps
<1>3. CASE n.link.L2STATE \in {1, 2, 4}
  <2>1. Replies(s, n, << >>)
    BY <1>3 DEF RecvI
  <2>2. Effect(s, n, "I", << >>)
    BY <1>1, <2>1, HearsEffect, Short
  <2>3. StepOK(n, n, "I", << >>)
    BY Stays, Short
  <2> QED BY <2>2, <2>3 DEF Steps
<1>4. CASE n.link.L2STATE \notin {0, 1, 2, 4}
  <2> DEFINE m == IF n.link.CIRCUITPOINTER # None \/ Free(n) = {} THEN active
                  ELSE SetupSessionForL2(active)
  <2>1. Replies(s, m, << "RR(F)" >>)
    BY <1>4 DEF RecvI
  <2>2. n.link.L2STATE = 5
    BY <1>4 DEF NodeOK, Nodes, Links
  <2>3. /\ l \in Links /\ l.CIRCUITPOINTER = n.link.CIRCUITPOINTER /\ l.L2STATE = 5
    BY <2>2 DEF NodeOK, Nodes, Links
  <2> HIDE DEF l
  <2>4. /\ NodeOK(active) /\ active.told = n.told /\ active.link = l
        /\ active.L4TABLE = n.L4TABLE
    BY <2>3, LinkOK
  <2>5. Free(active) = Free(n)
    BY <2>4 DEF Free
  <2> HIDE DEF active
  <2>6. NodeOK(m) /\ m.link.L2STATE = 5 /\ m.told = n.told
    <3>1. CASE n.link.CIRCUITPOINTER # None \/ Free(n) = {}
      BY <2>3, <2>4, <3>1
    <3>2. CASE ~(n.link.CIRCUITPOINTER # None \/ Free(n) = {})
      <4>1. m = SetupSessionForL2(active)
        BY <3>2
      <4> HIDE DEF m
      <4> QED BY <2>3, <2>4, <2>5, <3>2, <4>1, SetupSessionForL2OK
    <3> QED BY <3>1, <3>2
  <2> HIDE DEF m
  <2>7. Step(n.told, m.told)
    BY <2>6 DEF Step
  <2>8. StepOK(n, m, "I", << "RR(F)" >>)
    BY <2>6, <2>7, Settles, Short DEF Nothing, Frame, Setup
  <2>9. Effect(s, m, "I", << "RR(F)" >>)
    BY <1>1, <2>1, HearsEffect, Short DEF Frame
  <2> QED BY <2>8, <2>9 DEF Steps
<1> QED BY <1>2, <1>3, <1>4

LEMMA RecvPollOK ==
    ASSUME NEW s \in Station, NodeOK(node[s]), RecvPoll(s)
    PROVE  Steps(s)
<1> DEFINE n == node[s]
           out == CASE n.link.L2STATE = 0 -> << "DM" >>
                    [] n.link.L2STATE = 5 -> << "RR(F)" >>
                    [] OTHER -> << >>
<1>1. Hears(s, "RR") /\ Replies(s, n, out)
  BY DEF RecvPoll
<1>2. /\ out \in Seq(Frame) /\ Carries(out, Frame \ {"XID"})
      /\ n.link.L2STATE \in {1, 2} => out = << >>
  <2>1. CASE n.link.L2STATE = 0
    <3>1. out = << "DM" >>
      BY <2>1
    <3> HIDE DEF out
    <3> QED BY <2>1, <3>1, Short DEF Frame, Setup
  <2>2. CASE n.link.L2STATE = 5
    <3>1. out = << "RR(F)" >>
      BY <2>2
    <3> HIDE DEF out
    <3> QED BY <2>2, <3>1, Short DEF Frame, Setup
  <2>3. CASE n.link.L2STATE \notin {0, 5}
    <3>1. out = << >>
      BY <2>3
    <3> HIDE DEF out
    <3> QED BY <3>1, Short
  <2> QED BY <2>1, <2>2, <2>3
<1> HIDE DEF out
<1>3. Effect(s, n, "RR", out)
  BY <1>1, <1>2, HearsEffect
<1>4. Step(n.told, n.told)
  BY DEF Step
<1>5. StepOK(n, n, "RR", out)
  <2>1. CASE n.link.L2STATE \in {1, 2}
    BY <1>2, <2>1, Stays, Short
  <2>2. CASE n.link.L2STATE \notin {1, 2}
    BY <1>2, <1>4, <2>2, Settles DEF Nothing, Setup
  <2> QED BY <2>1, <2>2
<1> QED BY <1>3, <1>5 DEF Steps

LEMMA RecvRROK ==
    ASSUME NEW s \in Station, NodeOK(node[s]), RecvRR(s)
    PROVE  Steps(s)
<1> DEFINE n == node[s]
           h == Heard(n)
           l == [h.link EXCEPT !.L2RETRIES = 0, !.unacked = FALSE]
           m == IF h.link.L2STATE # 5 THEN h ELSE [h EXCEPT !.link = l]
<1>1. Hears(s, "RR(F)") /\ Replies(s, m, << >>)
  BY DEF RecvRR
<1>2. Effect(s, m, "RR(F)", << >>)
  BY <1>1, HearsEffect, Short
<1>3. NodeOK(h) /\ h.told = n.told /\ h.L4TABLE = n.L4TABLE /\ h.link.L2STATE = n.link.L2STATE
  BY HeardOK DEF Same
<1> HIDE DEF h
<1>4. NodeOK(m) /\ m.told = n.told /\ m.L4TABLE = n.L4TABLE /\ m.link.L2STATE = n.link.L2STATE
  <2>1. CASE h.link.L2STATE # 5
    BY <1>3, <2>1
  <2>2. CASE h.link.L2STATE = 5
    <3>1. /\ l \in Links /\ l.CIRCUITPOINTER = h.link.CIRCUITPOINTER
          /\ l.L2STATE = h.link.L2STATE /\ l.L2TIMER = h.link.L2TIMER
      <4>1. h.link \in Links
        BY <1>3 DEF NodeOK, Nodes
      <4> QED BY <4>1, AckedEdit
    <3>2. m = [h EXCEPT !.link = l]
      BY <2>2
    <3> HIDE DEF l, m
    <3> QED BY <1>3, <2>2, <3>1, <3>2, LinkOK
  <2> QED BY <2>1, <2>2
<1> HIDE DEF m
<1>5. Step(n.told, m.told) /\ (Calling(m) => Calling(n))
  BY <1>4 DEF Step, Calling, Used
<1>a. KeepsTimer(n, m, "RR(F)")
  BY DEF KeepsTimer
<1>6. StepOK(n, m, "RR(F)", << >>)
  BY <1>4, <1>5, <1>a, Quietly DEF Setup, Nothing
<1> QED BY <1>2, <1>6 DEF Steps
-----------------------------------------------------------------------------
(***************************************************************************)
(* Users and timers.                                                       *)
(***************************************************************************)

\* What CLOSECURRENTSESSION, CancelCall and the timers write into an entry.
LEMMA CloseEdit ==
    ASSUME NEW k \in Links
    PROVE  /\ [k EXCEPT !.CIRCUITPOINTER = None, !.L2STATE = 4, !.L2TIMER = TRUE] \in Links
           /\ [k EXCEPT !.L2STATE = 4, !.L2TIMER = TRUE] \in Links
           /\ \A x \in Int : [k EXCEPT !.L2STATE = 4, !.L2RETRIES = x] \in Links
           /\ \A x \in Int : [k EXCEPT !.CIRCUITPOINTER = None, !.L2STATE = 4, !.L2TIMER = TRUE,
                                       !.L2RETRIES = x] \in Links
<1>1. None \in 0..MAXCIRCUITS
  BY BoundAssumption DEF None
<1>2. \A p \in 0..MAXCIRCUITS, x \in Int :
        [k EXCEPT !.CIRCUITPOINTER = p, !.L2STATE = 4, !.L2TIMER = TRUE, !.L2RETRIES = x]
            \in Links
  BY DEF Links
<1>3. \A p \in 0..MAXCIRCUITS :
        [k EXCEPT !.CIRCUITPOINTER = p, !.L2STATE = 4, !.L2TIMER = TRUE] \in Links
  BY DEF Links
<1>4. [k EXCEPT !.L2STATE = 4, !.L2TIMER = TRUE] \in Links
  BY DEF Links
<1>5. \A x \in Int : [k EXCEPT !.L2STATE = 4, !.L2RETRIES = x] \in Links
  BY DEF Links
<1> QED BY <1>1, <1>2, <1>3, <1>4, <1>5

LEMMA TriedEdit ==
    ASSUME NEW k \in Links
    PROVE  LET l == [k EXCEPT !.L2RETRIES = @ + 1, !.L2TIMER = TRUE]
           IN  /\ l \in Links /\ l.CIRCUITPOINTER = k.CIRCUITPOINTER
               /\ l.L2STATE = k.L2STATE /\ l.L2TIMER = TRUE
<1> DEFINE l(x) == [k EXCEPT !.L2RETRIES = x, !.L2TIMER = TRUE]
<1>1. \A x \in Int : l(x) \in Links
  BY DEF Links
<1>2. \A x : /\ l(x).L2STATE = k.L2STATE /\ l(x).CIRCUITPOINTER = k.CIRCUITPOINTER
             /\ l(x).L2TIMER = TRUE
  BY DEF Links
<1>3. k.L2RETRIES + 1 \in Int
  BY DEF Links
<1>4. l(k.L2RETRIES + 1) \in Links
  BY <1>1, <1>3
<1> QED BY <1>2, <1>4

\* The session of a link has gone, and the link is closed.
LEMMA ClosingOK ==
    ASSUME NEW n, NEW c, Clear(c), Step(n.told, c.told), NEW l \in Links, l.L2STATE = 4,
           NEW f, NEW out \in {<< >>, << "DISC" >>}
    PROVE  StepOK(n, [c EXCEPT !.link = l], f, out)
<1> DEFINE m == [c EXCEPT !.link = l]
<1>1. NodeOK(m) /\ m.link.L2STATE = 4 /\ Step(n.told, m.told)
  BY ClearOK
<1>2. /\ Carries(out, Frame \ Never) /\ Carries(out, Frame \ {"UA"})
      /\ Carries(out, Frame \ {"XID"})
  BY Short DEF Frame, Never, Setup
<1> HIDE DEF m
<1>a. m.link.L2STATE \notin {1, 2}
  BY <1>1
<1>3. StepOK(n, m, f, out)
  BY <1>1, <1>2, <1>a, Settles
<1> QED BY <1>3 DEF m

LEMMA CLOSECURRENTSESSIONOK ==
    ASSUME NEW s \in Station, NodeOK(node[s]), CLOSECURRENTSESSION(s)
    PROVE  Steps(s)
<1> DEFINE n == node[s]
<1>1. PICK i \in OnThisLink(n) :
          Sends(s, [CloseSession(n, i) EXCEPT !.link.CIRCUITPOINTER = None,
                      !.link.L2STATE = 4, !.link.L2TIMER = TRUE], << >>)
  BY DEF CLOSECURRENTSESSION
<1> DEFINE c == CloseSession(n, i)
           l == [c.link EXCEPT !.CIRCUITPOINTER = None, !.L2STATE = 4, !.L2TIMER = TRUE]
<1>2. Clear(c) /\ Step(n.told, c.told)
  BY CloseSessionOK
<1>3. Sends(s, [c EXCEPT !.link = l], << >>)
  BY <1>1
<1> HIDE DEF c
<1>4. l \in Links /\ l.L2STATE = 4
  <2>1. c.link \in Links
    BY <1>2 DEF Clear, Nodes
  <2>2. \A q : (q = l) => q.L2STATE = 4
    BY <2>1 DEF Links
  <2> QED BY <2>1, <2>2, CloseEdit, BoundAssumption
<1> HIDE DEF l
<1>5. StepOK(n, [c EXCEPT !.link = l], Nothing, << >>)
  BY <1>2, <1>4, ClosingOK
<1>6. Effect(s, [c EXCEPT !.link = l], Nothing, << >>)
  BY <1>3, SendsEffect, Short
<1> QED BY <1>5, <1>6 DEF Steps

LEMMA CancelCallOK ==
    ASSUME NEW s \in Station, NodeOK(node[s]), CancelCall(s)
    PROVE  Steps(s)
<1> DEFINE n == node[s]
<1>1. PICK i \in Sessions : /\ n.L4TABLE[i] = "call"
          /\ Sends(s, [CloseSession(n, i) EXCEPT !.link.CIRCUITPOINTER = None,
                      !.link.L2STATE = 4, !.link.L2TIMER = TRUE,
                      !.link.L2RETRIES = PORTN2 - 2], << >>)
  BY DEF CancelCall
<1> DEFINE c == CloseSession(n, i)
           l == [c.link EXCEPT !.CIRCUITPOINTER = None, !.L2STATE = 4, !.L2TIMER = TRUE,
                               !.L2RETRIES = PORTN2 - 2]
<1>0. PORTN2 - 2 \in Int
  BY BoundAssumption
<1>2. Clear(c) /\ Step(n.told, c.told)
  <2>1. i \in OnThisLink(n)
    BY <1>1 DEF OnThisLink
  <2> QED BY <2>1, CloseSessionOK
<1>3. Sends(s, [c EXCEPT !.link = l], << >>)
  BY <1>1
<1> HIDE DEF c
<1>4. l \in Links /\ l.L2STATE = 4
  <2>1. c.link \in Links
    BY <1>2 DEF Clear, Nodes
  <2>2. \A q : (q = l) => q.L2STATE = 4
    BY <2>1 DEF Links
  <2> QED BY <1>0, <2>1, <2>2, CloseEdit
<1> HIDE DEF l
<1>5. StepOK(n, [c EXCEPT !.link = l], Nothing, << >>)
  BY <1>2, <1>4, ClosingOK
<1>6. Effect(s, [c EXCEPT !.link = l], Nothing, << >>)
  BY <1>3, SendsEffect, Short
<1> QED BY <1>5, <1>6 DEF Steps

\* The entry stays in its state, 4 or 5, and out is sent.
LEMMA Remains ==
    ASSUME NEW n, NodeOK(n), n.link.L2STATE \in {4, 5}, NEW l \in Links,
           l.CIRCUITPOINTER = n.link.CIRCUITPOINTER, l.L2STATE = n.link.L2STATE,
           NEW x \in {"I", "RR", "DISC"}
    PROVE  StepOK(n, [n EXCEPT !.link = l], Nothing, << x >>) /\ << x >> \in Seq(Frame)
<1> DEFINE m == [n EXCEPT !.link = l]
<1>1. NodeOK(m) /\ m.link = l /\ m.told = n.told
  BY LinkOK
<1> HIDE DEF m
<1>2. Step(n.told, m.told) /\ m.link.L2STATE \notin {1, 2}
  BY <1>1 DEF Step
<1>3. /\ Carries(<< x >>, Frame \ Never) /\ Carries(<< x >>, Frame \ {"UA"})
      /\ Carries(<< x >>, Frame \ {"XID"}) /\ << x >> \in Seq(Frame)
  BY Short DEF Frame, Never, Setup
<1>4. StepOK(n, m, Nothing, << x >>)
  BY <1>1, <1>2, <1>3, Settles
<1> QED BY <1>3, <1>4 DEF m

LEMMA SendDataOK ==
    ASSUME NEW s \in Station, NodeOK(node[s]), SendData(s)
    PROVE  Steps(s)
<1> DEFINE n == node[s]
           l == [n.link EXCEPT !.L2TIMER = TRUE, !.unacked = TRUE]
           m == [n EXCEPT !.link = l]
<1>1. n.link.L2STATE = 5 /\ Sends(s, m, << "I" >>)
  BY DEF SendData
<1>2. n.link \in Links
  BY DEF NodeOK, Nodes
<1>3. l \in Links /\ l.CIRCUITPOINTER = n.link.CIRCUITPOINTER /\ l.L2STATE = n.link.L2STATE
  BY <1>2 DEF Links
<1> HIDE DEF l
<1>4. StepOK(n, m, Nothing, << "I" >>) /\ << "I" >> \in Seq(Frame)
  BY <1>1, <1>3, Remains
<1> QED BY <1>1, <1>4, SendsEffect DEF Steps

LEMMA ValidateLinkOK ==
    ASSUME NEW s \in Station, NodeOK(node[s]), ValidateLink(s)
    PROVE  Steps(s)
<1> DEFINE n == node[s]
           l == [n.link EXCEPT !.L2TIMER = TRUE]
           m == [n EXCEPT !.link = l]
<1>1. /\ n.link.L2STATE # 0 /\ ~n.link.L2TIMER /\ n.link.L2SLOTIM
      /\ Sends(s, m, << "RR" >>)
  BY DEF ValidateLink, ValidateDue, Quiet
<1>2. n.link \in Links
  BY DEF NodeOK, Nodes
<1>3. /\ l \in Links /\ l.CIRCUITPOINTER = n.link.CIRCUITPOINTER /\ l.L2STATE = n.link.L2STATE
  BY <1>2 DEF Links
<1> HIDE DEF l
<1>4. NodeOK(m) /\ m.link = l /\ m.told = n.told /\ m.L4TABLE = n.L4TABLE
  BY <1>1, <1>3, LinkOK
<1>5. Effect(s, m, Nothing, << "RR" >>)
  BY <1>1, SendsEffect, Short DEF Frame
<1> HIDE DEF m
<1>6. (Calling(m) <=> Calling(n)) /\ m.link.L2STATE = n.link.L2STATE /\ Step(n.told, m.told)
  BY <1>3, <1>4 DEF Calling, Used, Step
<1>7. /\ Carries(<< "RR" >>, Frame \ Never) /\ Carries(<< "RR" >>, Frame \ {"UA"})
      /\ Carries(<< "RR" >>, Frame \ {"XID"})
  BY Short DEF Frame, Never, Setup
<1>8. Aside(n) => Aside(m)
  BY <1>1, <1>6 DEF Aside
<1>9. StepOK(n, m, Nothing, << "RR" >>)
  BY <1>1, <1>4, <1>6, <1>7, <1>8 DEF StepOK, PendOK, OwnOK, FarOK
<1> QED BY <1>5, <1>9 DEF Steps
LEMMA RetrySetupOK ==
    ASSUME NEW s \in Station, NodeOK(node[s]), RetrySetup(s)
    PROVE  Steps(s)
<1> DEFINE n == node[s]
<1>1. n.link.L2STATE \in {1, 2} /\ n.link.L2TIMER
  BY DEF RetrySetup
<1>2. CASE LastTry(n)
  <2> DEFINE c == ConnectFailedOrRefused(n, "failed")
             m == CLEAROUTLINK(c)
  <2>1. Sends(s, m, << >>)
    BY <1>2 DEF RetrySetup
  <2>2. Clear(c) /\ Step(n.told, c.told)
    BY <1>1, ConnectFailedOrRefusedOK
  <2> HIDE DEF c
  <2>3. NodeOK(m) /\ m.link.L2STATE = 0 /\ m.told = c.told
    BY <2>2, CLEAROUTLINKOK
  <2> HIDE DEF m
  <2>4. m.link.L2STATE \notin {1, 2} /\ Step(n.told, m.told)
    BY <2>2, <2>3
  <2>5. StepOK(n, m, Nothing, << >>)
    BY <2>3, <2>4, Settles, Short
  <2>6. Effect(s, m, Nothing, << >>)
    BY <2>1, SendsEffect, Short
  <2> QED BY <2>5, <2>6 DEF Steps
<1>3. CASE ~LastTry(n)
  <2> DEFINE l == [n.link EXCEPT !.L2RETRIES = @ + 1, !.L2TIMER = TRUE]
             m == [n EXCEPT !.link = l]
             x == IF n.link.L2STATE = 1 THEN "XID" ELSE "SABM"
  <2>1. n \in Nodes /\ n.link \in Links
    BY DEF NodeOK, Nodes
  <2>2. Tried(n) = m
    BY <2>1 DEF Tried, Nodes, Links
  <2>3. Sends(s, m, << x >>)
    BY <1>3, <2>2 DEF RetrySetup
  <2>4. /\ l \in Links /\ l.CIRCUITPOINTER = n.link.CIRCUITPOINTER
        /\ l.L2STATE = n.link.L2STATE /\ l.L2TIMER = TRUE
    BY <2>1, TriedEdit
  <2> HIDE DEF l
  <2>5. /\ NodeOK(m) /\ m.told = n.told /\ m.L4TABLE = n.L4TABLE
        /\ m.link.L2STATE = n.link.L2STATE /\ m.link.L2TIMER = TRUE
    BY <1>1, <2>4, LinkOK
  <2> HIDE DEF m
  <2>6. (Calling(m) => Calling(n)) /\ Step(n.told, m.told)
    BY <2>5 DEF Calling, Used, Step
  <2>7. /\ << x >> \in Seq(Frame) /\ Carries(<< x >>, Setup)
        /\ n.link.L2STATE = 1 => Carries(<< x >>, {"XID"})
        /\ n.link.L2STATE # 1 => Carries(<< x >>, Frame \ {"XID"})
    <3>1. CASE n.link.L2STATE = 1
      <4>1. x = "XID"
        BY <3>1
      <4> HIDE DEF x
      <4> QED BY <3>1, <4>1, Short DEF Frame, Setup
    <3>2. CASE n.link.L2STATE # 1
      <4>1. x = "SABM"
        BY <3>2
      <4> HIDE DEF x
      <4> QED BY <3>2, <4>1, Short DEF Frame, Setup
    <3> QED BY <3>1, <3>2
  <2> HIDE DEF x
  <2>8. ~Aside(n)
    BY <1>1 DEF Aside
  <2>9. StepOK(n, m, Nothing, << x >>)
    BY <2>5, <2>6, <2>7, <2>8 DEF StepOK, PendOK, OwnOK, FarOK
  <2>10. Effect(s, m, Nothing, << x >>)
    BY <2>3, <2>7, SendsEffect
  <2> QED BY <2>9, <2>10 DEF Steps
<1> QED BY <1>2, <1>3

\* A closing link has no session.
LEMMA ClosingIsClear ==
    ASSUME NEW n, NodeOK(n), n.link.L2STATE = 4
    PROVE  Clear(n)
BY DEF NodeOK, SessionsOK, ToldOK, Used, Nodes, Uses, Clear

LEMMA RetryDISCOK ==
    ASSUME NEW s \in Station, NodeOK(node[s]), RetryDISC(s)
    PROVE  Steps(s)
<1> DEFINE n == node[s]
<1>1. n.link.L2STATE = 4
  BY DEF RetryDISC
<1>2. CASE LastTry(n)
  <2> DEFINE m == CLEAROUTLINK(n)
  <2>1. Sends(s, m, << >>)
    BY <1>2 DEF RetryDISC
  <2>2. NodeOK(m) /\ m.link.L2STATE = 0 /\ m.told = n.told
    BY <1>1, ClosingIsClear, CLEAROUTLINKOK
  <2> HIDE DEF m
  <2>3. m.link.L2STATE \notin {1, 2} /\ Step(n.told, m.told)
    BY <2>2 DEF Step
  <2>4. StepOK(n, m, Nothing, << >>)
    BY <2>2, <2>3, Settles, Short
  <2>5. Effect(s, m, Nothing, << >>)
    BY <2>1, SendsEffect, Short
  <2> QED BY <2>4, <2>5 DEF Steps
<1>3. CASE ~LastTry(n)
  <2> DEFINE l == [n.link EXCEPT !.L2RETRIES = @ + 1, !.L2TIMER = TRUE]
             m == [n EXCEPT !.link = l]
  <2>1. n \in Nodes /\ n.link \in Links
    BY DEF NodeOK, Nodes
  <2>2. Tried(n) = m
    BY <2>1 DEF Tried, Nodes, Links
  <2>3. Sends(s, m, << "DISC" >>)
    BY <1>3, <2>2 DEF RetryDISC
  <2>4. /\ l \in Links /\ l.CIRCUITPOINTER = n.link.CIRCUITPOINTER
        /\ l.L2STATE = n.link.L2STATE
    BY <2>1, TriedEdit
  <2> HIDE DEF l
  <2>5. StepOK(n, m, Nothing, << "DISC" >>) /\ << "DISC" >> \in Seq(Frame)
    BY <1>1, <2>4, Remains
  <2> QED BY <2>3, <2>5, SendsEffect DEF Steps
<1> QED BY <1>2, <1>3

LEMMA RetryPollOK ==
    ASSUME NEW s \in Station, NodeOK(node[s]), RetryPoll(s)
    PROVE  Steps(s)
<1> DEFINE n == node[s]
<1>1. n.link.L2STATE = 5
  BY DEF RetryPoll
<1>2. CASE LastTry(n)
  <2> DEFINE c == InformPartner(n)
             l == [c.link EXCEPT !.L2STATE = 4, !.L2RETRIES = PORTN2 - 1]
             m == [c EXCEPT !.link = l]
  <2>1. Sends(s, m, << "DISC" >>)
    BY <1>2 DEF RetryPoll
  <2>2. Clear(c) /\ Step(n.told, c.told)
    BY InformPartnerOK
  <2> HIDE DEF c
  <2>3. l \in Links /\ l.L2STATE = 4
    <3>1. c.link \in Links /\ PORTN2 - 1 \in Int
      BY <2>2, BoundAssumption DEF Clear, Nodes
    <3>2. \A q : (q = l) => q.L2STATE = 4
      BY <3>1 DEF Links
    <3> QED BY <3>1, <3>2, CloseEdit
  <2> HIDE DEF l
  <2>4. StepOK(n, m, Nothing, << "DISC" >>)
    BY <2>2, <2>3, ClosingOK
  <2>5. Effect(s, m, Nothing, << "DISC" >>)
    BY <2>1, SendsEffect, Short DEF Frame
  <2> QED BY <2>4, <2>5 DEF Steps
<1>3. CASE ~LastTry(n)
  <2> DEFINE l == [n.link EXCEPT !.L2RETRIES = @ + 1, !.L2TIMER = TRUE]
             m == [n EXCEPT !.link = l]
  <2>1. n \in Nodes /\ n.link \in Links
    BY DEF NodeOK, Nodes
  <2>2. Tried(n) = m
    BY <2>1 DEF Tried, Nodes, Links
  <2>3. Sends(s, m, << "RR" >>)
    BY <1>3, <2>2 DEF RetryPoll
  <2>4. /\ l \in Links /\ l.CIRCUITPOINTER = n.link.CIRCUITPOINTER
        /\ l.L2STATE = n.link.L2STATE
    BY <2>1, TriedEdit
  <2> HIDE DEF l
  <2>5. StepOK(n, m, Nothing, << "RR" >>) /\ << "RR" >> \in Seq(Frame)
    BY <1>1, <2>4, Remains
  <2> QED BY <2>3, <2>5, SendsEffect DEF Steps
<1> QED BY <1>2, <1>3

\* An entry in state 1 whose call waits has its timer running.
LEMMA IdleTooLongOK ==
    ASSUME NEW s \in Station, NodeOK(node[s]), IdleTooLong(s),
           Calling(node[s]) /\ XIDPending => node[s].link.L2TIMER
    PROVE  Steps(s)
<1> DEFINE n == node[s]
<1>1. ~n.link.L2TIMER /\ n.link.L2STATE \in {1, 2, 5}
  BY DEF IdleTooLong, Quiet
<1>2. CASE n.link.L2STATE = 1
  <2> DEFINE m == CLEAROUTLINK(n)
  <2>1. Sends(s, m, << >>)
    BY <1>2 DEF IdleTooLong
  <2>2. XIDPending
    BY <1>2 DEF XIDPending
  <2>3. ~Used(n, "call")
    BY <1>1, <1>2, <2>2 DEF Calling
  <2>4. Clear(n)
    BY <1>2, <2>3 DEF NodeOK, SessionsOK, ToldOK, Used, Nodes, Uses, Clear
  <2>5. NodeOK(m) /\ m.link.L2STATE = 0 /\ m.told = n.told
    BY <2>4, CLEAROUTLINKOK
  <2> HIDE DEF m
  <2>6. m.link.L2STATE \notin {1, 2} /\ Step(n.told, m.told)
    BY <2>5 DEF Step
  <2>7. StepOK(n, m, Nothing, << >>)
    BY <2>5, <2>6, Settles, Short
  <2>8. Effect(s, m, Nothing, << >>)
    BY <2>1, SendsEffect, Short
  <2> QED BY <2>7, <2>8 DEF Steps
<1>3. CASE n.link.L2STATE # 1
  <2> DEFINE c == InformPartner(n)
             l == [c.link EXCEPT !.L2STATE = 4, !.L2TIMER = TRUE]
             m == [c EXCEPT !.link = l]
  <2>1. Sends(s, m, << >>)
    BY <1>3 DEF IdleTooLong
  <2>2. Clear(c) /\ Step(n.told, c.told)
    BY InformPartnerOK
  <2> HIDE DEF c
  <2>3. l \in Links /\ l.L2STATE = 4
    <3>1. c.link \in Links
      BY <2>2 DEF Clear, Nodes
    <3>2. \A q : (q = l) => q.L2STATE = 4
      BY <3>1 DEF Links
    <3> QED BY <3>1, <3>2, CloseEdit
  <2> HIDE DEF l
  <2>4. StepOK(n, m, Nothing, << >>)
    BY <2>2, <2>3, ClosingOK
  <2>5. Effect(s, m, Nothing, << >>)
    BY <2>1, SendsEffect, Short
  <2> QED BY <2>4, <2>5 DEF Steps
<1> QED BY <1>2, <1>3
-----------------------------------------------------------------------------
(***************************************************************************)
(* Both nodes and the air.                                                 *)
(***************************************************************************)
LEMMA ContainsIs ==
    ASSUME NEW q \in Seq(Frame), NEW x
    PROVE  Contains(q, x) <=> ~Carries(q, Frame \ {x})
<1>1. \A k \in 1..Len(q) : q[k] \in Frame
  OBVIOUS
<1> QED BY <1>1 DEF Contains, Carries

\* No XID is about.
LEMMA PendingIs ==
    ASSUME air \in [Station -> Seq(Frame)]
    PROVE  ~XIDPending <=> \A u \in Station : /\ node[u].link.L2STATE # 1
                                              /\ Carries(air[u], Frame \ {"XID"})
<1>1. \A u \in Station : Contains(air[u], "XID") <=> ~Carries(air[u], Frame \ {"XID"})
  BY ContainsIs
<1> QED BY <1>1 DEF XIDPending

LEMMA PendingIsNext ==
    ASSUME air' \in [Station -> Seq(Frame)]
    PROVE  ~XIDPending' <=> \A u \in Station : /\ node'[u].link.L2STATE # 1
                                               /\ Carries(air'[u], Frame \ {"XID"})
<1>1. \A u \in Station : Contains(air'[u], "XID") <=> ~Carries(air'[u], Frame \ {"XID"})
  BY ContainsIs
<1> QED BY <1>1 DEF XIDPending

ToldNext == \A r \in Station : Step(node[r].told, node'[r].told)

LEMMA StepsKeep ==
    ASSUME IInv, NEW s \in Station, Steps(s)
    PROVE  IInv' /\ ToldNext
<1> DEFINE t == Other(s)
           n == node[s]
<1>1. PICK m, f, out : Effect(s, m, f, out) /\ StepOK(n, m, f, out)
  BY DEF Steps
<1>2. t \in Station /\ t # s /\ Other(t) = s /\ \A r \in Station : r = s \/ r = t
  BY Others2
<1>3. /\ node \in [Station -> Nodes] /\ air \in [Station -> Seq(Frame)] /\ NodeOK(n)
      /\ NodeOK(node[t]) /\ CallOK(s, t) /\ CallOK(t, s)
  BY <1>2 DEF IInv
<1> HIDE DEF t, n
<1>4. /\ m \in Nodes /\ node' = [node EXCEPT ![s] = m] /\ out \in Seq(Frame)
  BY <1>1 DEF Effect, StepOK, NodeOK
<1>5. node' \in [Station -> Nodes] /\ node'[s] = m /\ node'[t] = node[t]
  BY <1>2, <1>3, <1>4
<1>6. /\ air' \in [Station -> Seq(Frame)]
      /\ \A F : Carries(air[t], F) /\ Carries(out, F) => Carries(air'[t], F)
      /\ \A F : Carries(air[s], F) => Carries(air'[s], F) /\ (f = Nothing \/ f \in F)
  <2>1. /\ Clip(air[t] \o out) \in Seq(Frame)
        /\ \A F : Carries(air[t], F) /\ Carries(out, F) => Carries(Clip(air[t] \o out), F)
    BY <1>2, <1>3, <1>4, ClipOK
  <2>2. CASE f = Nothing /\ air' = [air EXCEPT ![t] = Clip(@ \o out)]
    <3>1. air'[t] = Clip(air[t] \o out) /\ air'[s] = air[s]
          /\ air' \in [Station -> Seq(Frame)]
      BY <1>2, <1>3, <2>1, <2>2
    <3> QED BY <2>1, <2>2, <3>1
  <2>3. CASE Hears(s, f) /\ air' = [air EXCEPT ![s] = Tail(@), ![t] = Clip(@ \o out)]
    <3>1. air[s] # << >> /\ f = Head(air[s])
      BY <2>3 DEF Hears
    <3>2. /\ Tail(air[s]) \in Seq(Frame)
          /\ \A F : Carries(air[s], F) => f \in F /\ Carries(Tail(air[s]), F)
      BY <1>3, <3>1, TailOK
    <3>3. air'[t] = Clip(air[t] \o out) /\ air'[s] = Tail(air[s])
          /\ air' \in [Station -> Seq(Frame)]
      BY <1>2, <1>3, <2>1, <2>3, <3>2
    <3> QED BY <2>1, <3>2, <3>3
  <2> QED BY <1>1, <2>2, <2>3 DEF Effect, t
<1>7. NodeOK(m) /\ Step(n.told, m.told)
  BY <1>1 DEF StepOK
<1>8. ASSUME ~XIDPending PROVE ~XIDPending'
  <2>1. \A u \in Station : node[u].link.L2STATE # 1 /\ Carries(air[u], Frame \ {"XID"})
    BY <1>3, <1>8, PendingIs
  <2>2. n.link.L2STATE # 1
    BY <2>1 DEF n
  <2>3. f # "XID"
    BY <1>6, <2>1 DEF Nothing
  <2>4. m.link.L2STATE # 1 /\ Carries(out, Frame \ {"XID"})
    BY <1>1, <2>2, <2>3 DEF StepOK, PendOK
  <2>5. \A u \in Station : node'[u].link.L2STATE # 1 /\ Carries(air'[u], Frame \ {"XID"})
    BY <1>2, <1>5, <1>6, <2>1, <2>4
  <2> QED BY <1>6, <2>5, PendingIsNext
<1>9. CallOK(s, t)'
  <2> SUFFICES ASSUME Calling(m), XIDPending'
               PROVE  /\ m.link.L2TIMER /\ Aside(node[t])
                      /\ Carries(air'[s], Frame \ Never) /\ Carries(air'[t], Setup)
                      /\ m.link.L2STATE = 1 =>
                            Carries(air'[s], Frame \ {"UA"}) /\ Carries(air'[t], {"XID"})
    BY <1>5 DEF CallOK
  <2>1. Calling(n)
    BY <1>1 DEF StepOK, PendOK
  <2>2. /\ n.link.L2TIMER /\ Aside(node[t])
        /\ Carries(air[s], Frame \ Never) /\ Carries(air[t], Setup)
        /\ n.link.L2STATE = 1 => Carries(air[s], Frame \ {"UA"}) /\ Carries(air[t], {"XID"})
    BY <1>3, <1>8, <2>1 DEF CallOK, n
  <2>3. f \notin Never /\ (n.link.L2STATE = 1 => f # "UA")
    BY <1>6, <2>2 DEF Never, Setup, Nothing
  <2>4. /\ m.link.L2TIMER /\ Carries(out, Setup)
        /\ m.link.L2STATE = 1 => n.link.L2STATE = 1 /\ Carries(out, {"XID"})
    BY <1>1, <2>2, <2>3 DEF StepOK, OwnOK
  <2> QED BY <1>6, <2>2, <2>4
<1>10. CallOK(t, s)'
  <2> DEFINE c == node[t]
  <2> SUFFICES ASSUME Calling(c), XIDPending'
               PROVE  /\ c.link.L2TIMER /\ Aside(m)
                      /\ Carries(air'[t], Frame \ Never) /\ Carries(air'[s], Setup)
                      /\ c.link.L2STATE = 1 =>
                            Carries(air'[t], Frame \ {"UA"}) /\ Carries(air'[s], {"XID"})
    BY <1>5 DEF CallOK
  <2>1. /\ c.link.L2TIMER /\ Aside(n)
        /\ Carries(air[t], Frame \ Never) /\ Carries(air[s], Setup)
        /\ c.link.L2STATE = 1 => Carries(air[t], Frame \ {"UA"}) /\ Carries(air[s], {"XID"})
    BY <1>3, <1>8 DEF CallOK, n
  <2>2. f \in Setup \cup {Nothing} /\ (c.link.L2STATE = 1 => f # "SABM")
    BY <1>6, <2>1 DEF Setup, Nothing
  <2>3. /\ Aside(m) /\ Carries(out, Frame \ Never)
        /\ c.link.L2STATE = 1 => Carries(out, Frame \ {"UA"})
    BY <1>1, <2>1, <2>2 DEF StepOK, FarOK
  <2> QED BY <1>6, <2>1, <2>3
<1>11. \A r \in Station : NodeOK(node'[r]) /\ CallOK(r, Other(r))'
  BY <1>2, <1>3, <1>5, <1>7, <1>9, <1>10 DEF t
<1>12. ToldNext
  <2>1. Step(node[t].told, node'[t].told)
    BY <1>5 DEF Step
  <2> QED BY <1>2, <1>5, <1>7, <2>1 DEF ToldNext, n
<1>13. (XIDCallers = {} => ~XIDPending)'
  BY <1>8 DEF IInv
<1> QED BY <1>5, <1>6, <1>11, <1>12, <1>13 DEF IInv

LEMMA LoseFrameOK ==
    ASSUME IInv, NEW s \in Station, LoseFrame(s)
    PROVE  IInv' /\ ToldNext
<1>1. air[s] # << >> /\ air' = [air EXCEPT ![s] = Tail(@)] /\ node' = node
  BY DEF LoseFrame
<1>2. air \in [Station -> Seq(Frame)] /\ node \in [Station -> Nodes]
  BY DEF IInv
<1>3. /\ Tail(air[s]) \in Seq(Frame)
      /\ \A F : Carries(air[s], F) => Carries(Tail(air[s]), F)
  BY <1>1, <1>2, TailOK
<1>4. air' \in [Station -> Seq(Frame)]
      /\ \A r \in Station : \A F : Carries(air[r], F) => Carries(air'[r], F)
  BY <1>1, <1>2, <1>3
<1>5. ASSUME ~XIDPending PROVE ~XIDPending'
  <2>1. \A u \in Station : node[u].link.L2STATE # 1 /\ Carries(air[u], Frame \ {"XID"})
    BY <1>2, <1>5, PendingIs
  <2> QED BY <1>1, <1>4, <2>1, PendingIsNext
<1>6. ASSUME NEW r \in Station PROVE CallOK(r, Other(r))'
  <2>1. CallOK(r, Other(r)) /\ Other(r) \in Station
    BY Others2 DEF IInv
  <2> QED BY <1>1, <1>4, <1>5, <2>1 DEF CallOK
<1>7. \A r \in Station : NodeOK(node'[r]) /\ Step(node[r].told, node'[r].told)
  BY <1>1 DEF IInv, Step
<1>8. (XIDCallers = {} => ~XIDPending)'
  BY <1>5 DEF IInv
<1> QED BY <1>1, <1>2, <1>4, <1>6, <1>7, <1>8 DEF IInv, ToldNext
LEMMA ConnectEdit ==
    ASSUME NEW k \in Links, NEW i \in Sessions, NEW st \in {1, 2}
    PROVE  LET l == [k EXCEPT !.LINKTYPE = 2, !.CIRCUITPOINTER = i, !.L2STATE = st,
                              !.L2TIMER = TRUE, !.unacked = FALSE]
           IN  l \in Links
<1>1. i \in 0..MAXCIRCUITS /\ st \in {0, 1, 2, 4, 5}
  BY BoundAssumption DEF Sessions
<1> QED BY <1>1 DEF Links

LEMMA ConnectOK ==
    ASSUME IInv, NoCrossing, NEW s \in Station, NEW xid \in BOOLEAN, Connect(s, xid)
    PROVE  IInv' /\ ToldNext
<1> DEFINE t == Other(s)
           n == node[s]
           i == First(Free(n))
           st == IF xid THEN 1 ELSE 2
           x == IF xid THEN "XID" ELSE "SABM"
           l == [n.link EXCEPT !.LINKTYPE = 2, !.CIRCUITPOINTER = i, !.L2STATE = st,
                               !.L2TIMER = TRUE, !.unacked = FALSE]
           m == [n EXCEPT !.L4TABLE[i] = "call", !.told = "calling", !.link = l]
<1>1. /\ t \in Station /\ t # s /\ Other(t) = s /\ \A r \in Station : r = s \/ r = t
  BY Others2
<1>2. /\ node \in [Station -> Nodes] /\ air \in [Station -> Seq(Frame)] /\ NodeOK(n)
      /\ NodeOK(node[t])
  BY <1>1 DEF IInv
<1>3. /\ OnThisLink(n) = {} /\ Free(n) # {} /\ n \in Nodes /\ n.link \in Links
      /\ xid => s \in XIDCallers
      /\ XIDMayCross \/ (IF xid THEN Calm(s) ELSE ~XIDPending)
  BY <1>2 DEF Connect, NodeOK, Nodes
<1>4. i \in Sessions /\ n.L4TABLE[i] = "free" /\ st \in {1, 2}
  BY <1>3, FirstFree
<1>5. node' = [node EXCEPT ![s] = m] /\ air' = [air EXCEPT ![t] = Clip(Append(@, x))]
  <2>1. node' = [node EXCEPT
           ![s].L4TABLE[i] = "call", ![s].told = "calling",
           ![s].link = [@ EXCEPT !.LINKTYPE = 2, !.CIRCUITPOINTER = i, !.L2STATE = st,
                                 !.L2TIMER = TRUE, !.unacked = FALSE]]
    BY DEF Connect
  <2>2. air' = [air EXCEPT ![t] = Clip(Append(@, x))]
    BY DEF Connect
  <2> QED BY <1>2, <2>1, <2>2
<1>a. x \in Frame /\ (xid => x = "XID" /\ st = 1) /\ (~xid => x = "SABM" /\ st = 2)
  BY DEF Frame
<1> HIDE DEF t, i, st, x, n
<1>6. l \in Links /\ l.CIRCUITPOINTER = i /\ l.L2STATE = st /\ l.L2TIMER = TRUE
  <2>1. l \in Links
    BY <1>3, <1>4, ConnectEdit
  <2>2. l.CIRCUITPOINTER = i /\ l.L2STATE = st
    BY <1>3 DEF Links
  <2>3. l.L2TIMER = TRUE
    BY <1>3 DEF Links
  <2> QED BY <2>1, <2>2, <2>3
<1> HIDE DEF l
<1>7. /\ m \in Nodes /\ m.link = l /\ m.told = "calling"
      /\ m.L4TABLE = [n.L4TABLE EXCEPT ![i] = "call"]
  <2>1. [n.L4TABLE EXCEPT ![i] = "call"] \in [Sessions -> Uses]
    BY <1>3, <1>4 DEF Nodes, Uses
  <2> QED BY <1>3, <1>6, <2>1 DEF Nodes, Told
<1> HIDE DEF m
<1>8. \A j \in Sessions : IF j = i THEN m.L4TABLE[j] = "call"
                                   ELSE m.L4TABLE[j] \in {"free", "other"}
  BY <1>3, <1>4, <1>7 DEF OnThisLink, Nodes, Uses
<1>9. NodeOK(m)
  <2>1. SessionsOK(m)
    BY <1>4, <1>6, <1>7, <1>8 DEF SessionsOK
  <2>2. ToldOK(m)
    BY <1>4, <1>7, <1>8 DEF ToldOK, Used
  <2>3. Cold(l)
    BY <1>4, <1>6 DEF Cold
  <2> QED BY <1>7, <2>1, <2>2, <2>3 DEF NodeOK
<1>10. Step(n.told, m.told)
  <2>1. n.told \notin {"calling", "connected"}
    BY <1>2, <1>3 DEF NodeOK, ToldOK, Used, OnThisLink
  <2> QED BY <1>3, <1>7, <2>1 DEF Step, Nodes, Told, Answers
<1>11. node' \in [Station -> Nodes] /\ node'[s] = m /\ node'[t] = node[t]
  BY <1>1, <1>2, <1>5, <1>7
<1>12. /\ air' \in [Station -> Seq(Frame)] /\ air'[s] = air[s]
       /\ \A F : Carries(air[t], F) /\ x \in F => Carries(air'[t], F)
  <2>1. << x >> \in Seq(Frame) /\ \A F : x \in F => Carries(<< x >>, F)
    BY <1>a, Short
  <2>2. /\ Clip(air[t] \o << x >>) \in Seq(Frame)
        /\ \A F : Carries(air[t], F) /\ Carries(<< x >>, F) => Carries(Clip(air[t] \o << x >>), F)
    BY <1>1, <1>2, <2>1, ClipOK
  <2>3. Append(air[t], x) = air[t] \o << x >>
    BY <1>1, <1>2, <2>1
  <2>4. air'[t] = Clip(air[t] \o << x >>)
    BY <1>1, <1>2, <1>5, <2>3
  <2>5. air' \in [Station -> Seq(Frame)]
    BY <1>1, <1>2, <1>5, <2>2, <2>3
  <2> QED BY <1>1, <1>2, <1>5, <2>1, <2>2, <2>4, <2>5
<1>13. CallOK(s, t)' /\ CallOK(t, s)' /\ (XIDCallers = {} => ~XIDPending')
  <2>1. CASE xid
    <3>1. XIDCallers # {} /\ Calm(s)
      BY <1>3, <2>1 DEF NoCrossing
    <3>2. /\ node[t].link.L2STATE \notin {1, 2} /\ air[s] = << >> /\ air[t] = << >>
      BY <1>1, <3>1 DEF Calm
    <3>3. x = "XID" /\ st = 1
      BY <1>a, <2>1
    <3>4. /\ Carries(air'[s], Frame \ Never) /\ Carries(air'[s], Frame \ {"UA"})
          /\ Carries(air'[t], Setup) /\ Carries(air'[t], {"XID"})
      BY <1>12, <3>2, <3>3, Short DEF Setup
    <3>5. m.link.L2TIMER /\ Aside(node[t]) /\ ~Calling(node[t])
      BY <1>6, <1>7, <3>2 DEF Aside, Calling
    <3>6. CallOK(s, t)'
      BY <1>11, <3>4, <3>5 DEF CallOK
    <3>7. CallOK(t, s)'
      BY <1>11, <3>5 DEF CallOK
    <3> QED BY <3>1, <3>6, <3>7
  <2>2. CASE ~xid
    <3>1. ~XIDPending
      BY <1>3, <2>2 DEF NoCrossing, IInv
    <3>2. \A u \in Station : node[u].link.L2STATE # 1 /\ Carries(air[u], Frame \ {"XID"})
      BY <1>2, <3>1, PendingIs
    <3>3. x \in Frame \ {"XID"} /\ st = 2
      BY <1>a, <2>2
    <3>4. \A u \in Station : node'[u].link.L2STATE # 1 /\ Carries(air'[u], Frame \ {"XID"})
      <4>1. node'[s].link.L2STATE # 1 /\ node'[t].link.L2STATE # 1
        BY <1>1, <1>6, <1>7, <1>11, <3>2, <3>3
      <4>2. Carries(air'[s], Frame \ {"XID"}) /\ Carries(air'[t], Frame \ {"XID"})
        BY <1>1, <1>12, <3>2, <3>3
      <4> QED BY <1>1, <4>1, <4>2
    <3>5. ~XIDPending'
      BY <1>12, <3>4, PendingIsNext
    <3> QED BY <3>5 DEF CallOK
  <2> QED BY <2>1, <2>2
<1>14. \A r \in Station : NodeOK(node'[r]) /\ CallOK(r, Other(r))'
  <2>1. NodeOK(node'[s]) /\ NodeOK(node'[t])
    BY <1>2, <1>9, <1>11
  <2> QED BY <1>1, <1>13, <2>1 DEF t
<1>15. ToldNext
  <2>1. Step(node[t].told, node'[t].told)
    BY <1>11 DEF Step
  <2> QED BY <1>1, <1>10, <1>11, <2>1 DEF ToldNext, n
<1> QED BY <1>11, <1>12, <1>13, <1>14, <1>15 DEF IInv

LEMMA InitOK ==
    ASSUME Init
    PROVE  IInv
<1>1. PICK full \in SUBSET Others :
          node = [s \in Station |->
                    [link |-> EmptyLink, told |-> "none",
                     L4TABLE |-> [i \in Sessions |-> IF s \in full THEN "other" ELSE "free"]]]
  BY DEF Init
<1>2. ASSUME NEW s \in Station
      PROVE  node[s] \in Nodes /\ NodeOK(node[s]) /\ node[s].link.L2STATE = 0
  <2> DEFINE T == [i \in Sessions |-> IF s \in full THEN "other" ELSE "free"]
             m == [link |-> EmptyLink, told |-> "none", L4TABLE |-> T]
  <2>1. T \in [Sessions -> Uses] /\ \A i \in Sessions : T[i] \in {"free", "other"}
    BY DEF Uses
  <2> HIDE DEF T
  <2>2. node[s] = m
    BY <1>1 DEF T
  <2>3. m \in Nodes
    BY <2>1, EmptyOK DEF Nodes, Told
  <2>4. NodeOK(m)
    BY <2>1, <2>3, EmptyOK DEF NodeOK, SessionsOK, ToldOK, Used
  <2> QED BY <2>2, <2>3, <2>4, EmptyOK
<1>3. node \in [Station -> Nodes]
  BY <1>1, <1>2
<1>4. air = [s \in Station |-> << >>] /\ air \in [Station -> Seq(Frame)]
  BY Short DEF Init
<1>5. ~XIDPending
  <2>1. \A u \in Station : node[u].link.L2STATE # 1 /\ Carries(air[u], Frame \ {"XID"})
    BY <1>2, <1>4, Short
  <2> QED BY <1>4, <2>1, PendingIs
<1>6. \A s \in Station : CallOK(s, Other(s))
  BY <1>5 DEF CallOK
<1> QED BY <1>2, <1>3, <1>4, <1>5, <1>6 DEF IInv

LEMMA NextOK ==
    ASSUME NoCrossing, IInv, [Next]_vars
    PROVE  IInv' /\ ToldNext
<1>1. ASSUME NEW s \in Station, Receive(s) PROVE Steps(s)
  <2>1. NodeOK(node[s])
    BY DEF IInv
  <2> QED BY <1>1, <2>1, RecvSABMOK, RecvXIDCommandOK, RecvXIDResponseOK, RecvUAOK, RecvDMOK,
             RecvDISCOK, RecvIOK, RecvPollOK, RecvRROK DEF Receive
<1>2. ASSUME NEW s \in Station, User(s), ~ \E xid \in BOOLEAN : Connect(s, xid) PROVE Steps(s)
  <2>1. NodeOK(node[s])
    BY DEF IInv
  <2> QED BY <1>2, <2>1, CLOSECURRENTSESSIONOK, CancelCallOK, SendDataOK DEF User
<1>3. ASSUME NEW s \in Station, L2TIMEOUT(s) \/ ValidateLink(s) \/ IdleTooLong(s) PROVE Steps(s)
  <2>1. NodeOK(node[s]) /\ (Calling(node[s]) /\ XIDPending => node[s].link.L2TIMER)
    BY DEF IInv, CallOK
  <2> QED BY <1>3, <2>1, RetrySetupOK, RetryDISCOK, RetryPollOK, ValidateLinkOK, IdleTooLongOK
          DEF L2TIMEOUT
<1>4. CASE Next
  <2>1. PICK s \in Station : Receive(s) \/ LoseFrame(s) \/ User(s) \/ L2TIMEOUT(s)
                             \/ ValidateLink(s) \/ IdleTooLong(s)
    BY <1>4 DEF Next
  <2>2. CASE Receive(s)
    BY <1>1, <2>2, StepsKeep
  <2>3. CASE LoseFrame(s)
    BY <2>3, LoseFrameOK
  <2>4. CASE User(s)
    <3>1. CASE \E xid \in BOOLEAN : Connect(s, xid)
      BY <3>1, ConnectOK
    <3>2. CASE ~ \E xid \in BOOLEAN : Connect(s, xid)
      BY <1>2, <2>4, <3>2, StepsKeep
    <3> QED BY <3>1, <3>2
  <2>5. CASE L2TIMEOUT(s) \/ ValidateLink(s) \/ IdleTooLong(s)
    BY <1>3, <2>5, StepsKeep
  <2> QED BY <2>1, <2>2, <2>3, <2>4, <2>5
<1>5. CASE UNCHANGED vars
  <2>1. node' = node /\ air' = air
    BY <1>5 DEF vars
  <2>2. ToldNext
    BY <2>1 DEF ToldNext, Step
  <2>3. XIDPending' <=> XIDPending
    BY <2>1 DEF XIDPending
  <2>4. IInv'
    BY <2>1, <2>3 DEF IInv, CallOK
  <2> QED BY <2>2, <2>4
<1> QED BY <1>4, <1>5

\* A call over a link ends with the link or before it, whichever end gives up,
\* whatever is lost and however the two ends' calls cross, as long as none is
\* made with XID across another: no session is left that no link leads to.
THEOREM SessionsKeepTheirLink == ASSUME NoCrossing PROVE Spec => []NoOrphan
<1>1. IInv => NoOrphan
  BY DEF IInv, NoOrphan, NodeOK, SessionsOK, OnThisLink
<1>2. Init => IInv
  BY InitOK
<1>3. IInv /\ [Next]_vars => IInv'
  BY NextOK
<1> QED BY <1>1, <1>2, <1>3, PTL DEF Spec

\* What ConnectFailedOrRefused, SENDCONNECTREPLY and CloseSessionPartner tell a
\* user is one answer to each call.
THEOREM OneAnswer == ASSUME NoCrossing PROVE Spec => AnsweredOnce
<1>1. Init => IInv
  BY InitOK
<1>2. IInv /\ [Next]_vars => IInv' /\ [ToldNext]_vars
  BY NextOK
<1>3. ToldNext => \A s \in Station : Step(node[s].told, node'[s].told)
  BY DEF ToldNext
<1> QED BY <1>1, <1>2, <1>3, PTL DEF Spec, AnsweredOnce
=============================================================================
