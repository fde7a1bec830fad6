------------------------------ MODULE L3Routes ------------------------------
(***************************************************************************)
(* NET/ROM level 3 (L3Code.c, NETROMMSG and FRAMEFORUS of L4Code.c, and    *)
(* DecayNETROMRoutes of BPQINP3.c): the NODES broadcasts from which a node *)
(* learns its routes, the crosslinks it sets up to use them, and the       *)
(* messages that are forwarded over these.  Every node runs the same code. *)
(*                                                                         *)
(* Level 2 is seen from above: a crosslink comes up, fails to, carries     *)
(* messages in order, and is closed or lost (L2Connect and L2Data have the *)
(* rest).  A broadcast is heard at once or not at all, and fits into one   *)
(* fragment.  Left out: INP3, NET/ROM over TCP and VARA, application       *)
(* nodes, exclusions, quality normalisation and adjustment, full tables.   *)
(***************************************************************************)
EXTENDS Integers, Sequences, FiniteSets, FiniteSetsExt, SequencesExt

CONSTANTS Nodes, Networks,
          OBSINIT, OBSMIN,      \* obsolescence of a new route, and to be sent
          MINQUAL, PORTQUALITY,
          L3LIVES               \* hops a message may make

Entries == [via : Nodes, quality : 0..255, obs : 0..255]

\* The routes of a destination: at most three, each by way of another neighbour,
\* the best first.
Ranked(s) == /\ s \in Seq(Entries) /\ Len(s) <= 3
             /\ \A i, j \in DOMAIN s : i < j => /\ s[i].via # s[j].via
                                                /\ s[i].quality >= s[j].quality

ASSUME NodesAssumption == IsFiniteSet(Nodes)
ASSUME KnownAssumption == \A N \in Networks : \A n, d \in Nodes : Ranked(N.known[n][d])
ASSUME ObsAssumption  == OBSINIT \in 1..127 /\ OBSMIN \in 0..OBSINIT
ASSUME QualAssumption == /\ MINQUAL \in 1..255 /\ PORTQUALITY \in 1..255
                         /\ L3LIVES \in 1..255

VARIABLES net,     \* the network of this behaviour, a member of Networks:
                   \* who hears whom, between whom a link can be set up, the
                   \* routes known at the start, the calls, a bound for each fault
          node,    \* node[n]: what n keeps: DESTS, NEIGHBOURS and LINKS
          up,      \* the nodes that are running
          due,     \* the nodes whose L3TIMER has yet to run out in this interval
          left,    \* what is left of the bounds
          arrived  \* the messages that have reached their destination

vars == << net, node, up, due, left, arrived >>

LOCKED == 128                         \* the top bit of ROUT_OBSCOUNT

NoDest == [NRROUTE |-> << >>, DEST_ROUTE |-> 0, DEST_Q |-> << >>]
NoLink == [L2STATE |-> 0, NEIGHBOUR |-> FALSE, crosslink |-> FALSE, TX_Q |-> << >>]
NoRoute == [used |-> FALSE, LINK |-> FALSE]

Fresh(known) == [dest |-> [d \in Nodes |-> [NoDest EXCEPT !.NRROUTE = known[d]]],
                 ROUTE |-> [m \in Nodes |->
                     [NoRoute EXCEPT !.used = \E d \in Nodes : \E i \in DOMAIN known[d] :
                                                  known[d][i].via = m]],
                 LINK |-> [m \in Nodes |-> NoLink]]

Nothing == [d \in Nodes |-> << >>]

Init == /\ net \in Networks
        /\ node = [n \in Nodes |-> Fresh(net.known[n])]
        /\ up = net.nodes
        /\ due = net.nodes
        /\ left = net.max
        /\ arrived = {}

Known(N, d) == N.dest[d].NRROUTE # << >>

-----------------------------------------------------------------------------
(* The routes of a destination.                                            *)

Via(s, m) == {i \in DOMAIN s : s[i].via = m}

Swap(s, i) == IF i + 1 \in DOMAIN s /\ s[i + 1].quality > s[i].quality
              THEN [s EXCEPT ![i] = s[i + 1], ![i + 1] = s[i]] ELSE s
Sorted(s) == Swap(Swap(Swap(s, 1), 2), 1)

\* Mutant: only a spare slot gets a new obsolescence count.
Written_NoRefresh(s, i, m, Qual) ==
    [s EXCEPT ![i] = [via |-> m,
                      quality |-> IF Qual # 0 THEN Qual ELSE @.quality,
                      obs |-> IF @.obs # 0 THEN @.obs ELSE OBSINIT]]

\* Slot i gets the route; a lock stays with the slot, and so does the quality
\* if there is no new one.
Written(s, i, m, Qual) ==
    [s EXCEPT ![i] = [via |-> m,
                      quality |-> IF Qual # 0 THEN Qual ELSE @.quality,
                      obs |-> IF @.obs >= LOCKED THEN @.obs ELSE OBSINIT]]

\* Those from slot i on move down to make room; the last of three drops out.
MovedDown(s, i) ==
    SubSeq(SubSeq(s, 1, i) \o SubSeq(s, i, Len(s)), 1, Min({3, Len(s) + 1}))

Spare(m) == [via |-> m, quality |-> 0, obs |-> 0]

\* Mutant: the neighbour is looked for in the first slot only.
PROCROUTES_First(D, m, Qual) ==
    LET s     == D.NRROUTE
        worse == {i \in DOMAIN s : s[i].quality < Qual}
        Gets(t, i) == [D EXCEPT !.NRROUTE = Sorted(Written(t, i, m, Qual)),
                                !.DEST_ROUTE = 0]
    IN  IF 1 \in Via(s, m) THEN Gets(s, 1)
        ELSE IF worse # {} THEN Gets(MovedDown(s, Min(worse)), Min(worse))
        ELSE IF Len(s) < 3 THEN Gets(Append(s, Spare(m)), Len(s) + 1)
        ELSE D

PROCROUTES(D, m, Qual) ==
    LET s     == D.NRROUTE
        worse == {i \in DOMAIN s : s[i].quality < Qual}
        Gets(t, i) == [D EXCEPT !.NRROUTE = Sorted(Written(t, i, m, Qual)),
                                !.DEST_ROUTE = 0]
    IN  IF Via(s, m) # {} THEN Gets(s, Min(Via(s, m)))
        ELSE IF worse # {} THEN Gets(MovedDown(s, Min(worse)), Min(worse))
        ELSE IF Len(s) < 3 THEN Gets(Append(s, Spare(m)), Len(s) + 1)
        ELSE D

\* Mutant: the last step to 0 is not made.
Older_Sticks(e) == IF e.obs \in 2..(LOCKED - 1) THEN [e EXCEPT !.obs = @ - 1] ELSE e

Older(e) == IF e.obs \in 1..(LOCKED - 1) THEN [e EXCEPT !.obs = @ - 1] ELSE e

\* t, and what is left of the next entry.
Kept(t, e) == IF Older(e).obs > 0 THEN Append(t, Older(e)) ELSE t

\* UPDATEDESTLIST, for one destination.
Aged(D) ==
    LET s == FoldLeft(Kept, << >>, D.NRROUTE)
    IN  IF s = << >> THEN NoDest                                  \* REMOVENODE
        ELSE [D EXCEPT !.NRROUTE = s,
                       !.DEST_ROUTE = IF Len(s) < Len(D.NRROUTE) THEN 0 ELSE @]

\* ROUT_OBSCOUNT has eight bits.
Less(e, by) == [e EXCEPT !.obs = (@ - by) % 256]

\* DecayNETROMRoutes, for one destination: the best route is spared when it is
\* locked and stops at 0, the others do neither.
Decayed(D, m) ==
    LET s == D.NRROUTE
        i == Min(Via(s, m))
        e == IF i > 1 THEN Less(s[i], 1)
             ELSE IF s[i].obs >= LOCKED THEN s[i] ELSE Less(s[i], Min({2, s[i].obs}))
    IN  IF Via(s, m) = {} THEN D
        ELSE IF e.obs > 0 THEN [D EXCEPT !.NRROUTE[i] = e]
        ELSE IF Len(s) = 1 THEN NoDest                            \* REMOVENODE
        ELSE [D EXCEPT !.NRROUTE = RemoveAt(s, i)]

DecayNETROMRoutes(N, m) ==
    [N EXCEPT !.dest = [d \in Nodes |-> Decayed(N.dest[d], m)]]

-----------------------------------------------------------------------------
(* NODES broadcasts.                                                       *)

UPDATEDESTLIST(N) == [N EXCEPT !.dest = [d \in Nodes |-> Aged(N.dest[d])]]

\* What SENDNEXTNODESFRAGMENT puts in.
Sent(N) == {d \in Nodes : /\ Known(N, d)
                          /\ N.dest[d].NRROUTE[1].quality >= 1
                          /\ N.dest[d].NRROUTE[1].obs >= OBSMIN}

Scaled(quality) == (PORTQUALITY * quality + 128) \div 256

\* The quality at r of what F, a node it hears, sends about d.
QualityOf(F, r, d) == IF F.dest[d].NRROUTE[1].via = r THEN 0          \* a loop
                      ELSE Scaled(F.dest[d].NRROUTE[1].quality)

\* r hears the broadcast of m, which keeps F.
PROCESSNODEMESSAGE(N, r, m, F) ==
    LET taken == {d \in Sent(F) \ {r} : Scaled(F.dest[d].NRROUTE[1].quality) >= MINQUAL}
        Heard(D, d) == IF d \in taken THEN PROCROUTES(D, m, QualityOf(F, r, d)) ELSE D
    IN  [N EXCEPT !.ROUTE[m].used = TRUE,
                  !.dest = [d \in Nodes |->
                      Heard(IF d = m THEN PROCROUTES(@[d], m, PORTQUALITY) ELSE @[d], d)]]

-----------------------------------------------------------------------------
(* Crosslinks, as L3Code.c sees them.                                      *)

L3LINKCLOSED(N, m) ==
    IF ~N.LINK[m].crosslink \/ ~N.LINK[m].NEIGHBOUR THEN N
    ELSE DecayNETROMRoutes([N EXCEPT !.LINK[m].NEIGHBOUR = FALSE,
                                     !.ROUTE[m].LINK = FALSE], m)

\* Mutant: all messages that wait pay for the attempt.
NextTried_All(D, m) ==
    IF D.DEST_ROUTE \in Via(D.NRROUTE, m)
    THEN [D EXCEPT !.NRROUTE[D.DEST_ROUTE] = Older(@), !.DEST_Q = << >>,
                   !.DEST_ROUTE = @ + 1]
    ELSE D

\* The next route is to be tried, and the message at the head of the queue
\* pays for the attempt.
NextTried(D, m) ==
    IF D.DEST_ROUTE \in Via(D.NRROUTE, m)
    THEN [D EXCEPT !.NRROUTE[D.DEST_ROUTE] = Older(@),
                   !.DEST_Q = IF @ = << >> THEN @ ELSE Tail(@),
                   !.DEST_ROUTE = @ + 1]
    ELSE D

L3TRYNEXTDEST(N, m) == [N EXCEPT !.dest = [d \in Nodes |-> NextTried(N.dest[d], m)]]

L3LINKSETUPFAILED(N, m) ==
    IF N.LINK[m].NEIGHBOUR
    THEN L3TRYNEXTDEST(DecayNETROMRoutes([N EXCEPT !.ROUTE[m].LINK = FALSE], m), m)
    ELSE N

\* L2SETUPCROSSLINK: a new link, or the one that there is.
SetUp(N, m) ==
    [N EXCEPT !.LINK[m].L2STATE = IF @ = 0 THEN 2 ELSE @,
              !.LINK[m].NEIGHBOUR = TRUE, !.LINK[m].crosslink = TRUE,
              !.ROUTE[m].LINK = TRUE]

\* ACTIVATE_DEST: the link of this route, if it is not there already.
Activated(N, m) == IF N.ROUTE[m].LINK /\ N.LINK[m].L2STATE # 0 THEN N ELSE SetUp(N, m)

ActiveRoute(D) == IF D.DEST_ROUTE \in DOMAIN D.NRROUTE THEN D.DEST_ROUTE ELSE 1

Passed(N, d, m) ==
    IF N.LINK[m].L2STATE < 5 THEN N
    ELSE [N EXCEPT !.LINK[m].TX_Q = @ \o N.dest[d].DEST_Q, !.dest[d].DEST_Q = << >>]

\* One destination in the loop of L3BG.
Forward(d, N) ==
    LET a == ActiveRoute(N.dest[d])
        m == N.dest[d].NRROUTE[a].via
    IN  Passed(Activated([N EXCEPT !.dest[d].DEST_ROUTE = a], m), d, m)

Waiting(N) == {d \in Nodes : N.dest[d].DEST_Q # << >>}

L3BG(N) == FoldSet(Forward, N, Waiting(N))

-----------------------------------------------------------------------------
(* Messages.  A call (CREQ) is accepted (CACK), and then there is data     *)
(* (INFO), which is acknowledged (IACK); NCMP says that a message could    *)
(* not be delivered.                                                       *)

Message(src, dst, kind) == [src |-> src, dst |-> dst, kind |-> kind, L3TTL |-> L3LIVES]

Queue(N, msg) == [N EXCEPT !.dest[msg.dst].DEST_Q = Append(@, msg)]

Reply(N, msg) == IF Known(N, msg.dst) THEN Queue(N, msg) ELSE N

\* Mutant: a link that has a neighbour's messages is not made known to it.
CHECKNEIGHBOUR_OneWay(N, m) == [N EXCEPT !.LINK[m].NEIGHBOUR = TRUE]

CHECKNEIGHBOUR(N, m) ==
    IF N.LINK[m].NEIGHBOUR THEN N
    ELSE [N EXCEPT !.ROUTE[m] = [used |-> TRUE, LINK |-> TRUE], !.LINK[m].NEIGHBOUR = TRUE]

\* The way back to a node that is not known: the way its message came.
CHECKL3TABLES(N, m, src) ==
    IF Known(N, src) THEN N
    ELSE [N EXCEPT !.dest[src] = [PROCROUTES(@, m, 0) EXCEPT !.DEST_ROUTE = 1]]

REFRESHROUTE(N, d) ==
    IF N.dest[d].DEST_ROUTE \notin DOMAIN N.dest[d].NRROUTE THEN N
    ELSE [N EXCEPT !.dest[d].NRROUTE[N.dest[d].DEST_ROUTE].obs =
                       IF @ >= LOCKED THEN @ ELSE OBSINIT]

FRAMEFORUS(N, r, m, msg) ==
    CASE msg.kind = "CREQ" -> Reply(CHECKL3TABLES(N, m, msg.src), Message(r, msg.src, "CACK"))
      [] msg.kind = "CACK" -> Reply(N, Message(r, msg.src, "INFO"))
      [] msg.kind = "INFO" -> Reply(REFRESHROUTE(N, msg.src), Message(r, msg.src, "IACK"))
      [] msg.kind = "IACK" -> REFRESHROUTE(N, msg.src)
      [] OTHER             -> N

\* The route after this one; DEST_ROUTE has eight bits.
Next3(i) == IF i + 1 = 4 THEN 1 ELSE (i + 1) % 256

CameBack(D)   == [D EXCEPT !.DEST_ROUTE = Next3(@)]
NotBack(D, m) == [D EXCEPT !.DEST_ROUTE =
                    IF @ = 0 THEN IF D.NRROUTE[1].via = m THEN 2 ELSE 0
                    ELSE IF @ \in Via(D.NRROUTE, m) THEN Next3(@) ELSE @]

\* A message for another node.
Route(N, r, m, msg) ==
    IF msg.L3TTL = 0 \/ ~Known(N, msg.dst) THEN Reply(N, Message(r, msg.src, "NCMP"))
    ELSE IF msg.src = r /\ Len(N.dest[msg.dst].NRROUTE) = 1 THEN N
    ELSE Queue(CHECKL3TABLES([N EXCEPT !.dest[msg.dst] =
                                  NotBack(IF msg.src = r THEN CameBack(@) ELSE @, m)],
                             m, msg.src),
               msg)

\* Mutant: L3TTL is not counted down.
NETROMMSG_NoTTL(N, r, m, msg) ==
    IF msg.dst = r THEN FRAMEFORUS(CHECKNEIGHBOUR(N, m), r, m, msg)
    ELSE Route(CHECKNEIGHBOUR(N, m), r, m, msg)

\* r has a message from m.
NETROMMSG(N, r, m, msg) ==
    IF msg.dst = r THEN FRAMEFORUS(CHECKNEIGHBOUR(N, m), r, m, msg)
    ELSE Route(CHECKNEIGHBOUR(N, m), r, m, [msg EXCEPT !.L3TTL = @ - 1])

-----------------------------------------------------------------------------
(* Actions.                                                                *)

Spend(what, n) == left[what] >= n /\ left' = [left EXCEPT ![what] = @ - n]

InUse(N, m) == N.ROUTE[m].LINK \/ \E d \in Nodes : Via(N.dest[d].NRROUTE, m) # {}

\* A neighbour that no destination uses is deleted.
Tidied(N) == [N EXCEPT !.ROUTE = [m \in Nodes |-> IF InUse(N, m) THEN @[m] ELSE NoRoute]]

\* L3MinuteTimerProc when L3TIMER runs out.  Every node has the same interval,
\* so that each broadcasts once before any does so again, in any order.
Due(n) == n \in due /\ (net.broadcasts \/ left.timers > 0)

L3Timer(n) ==
    /\ Due(n)
    /\ \E F \in {UPDATEDESTLIST(node[n])},
          heard \in SUBSET {r \in up : << n, r >> \in net.hears} :
         /\ node' = [r \in Nodes |-> IF r = n THEN Tidied(F)
                                     ELSE IF r \in heard
                                     THEN PROCESSNODEMESSAGE(node[r], r, n, F)
                                     ELSE node[r]]
         /\ \E lost \in {Cardinality({r \in up : << n, r >> \in net.hears} \ heard)} :
              /\ lost <= left.losses
              /\ left' = [left EXCEPT !.losses = @ - lost,
                                      !.timers = IF net.broadcasts THEN @ ELSE @ - 1]
    /\ due' = IF due = {n} THEN up ELSE due \ {n}
    /\ UNCHANGED << net, up, arrived >>

\* L3MinuteTimerProc in the minutes in which it does not.
TidyRoutes(n) ==
    /\ Tidied(node[n]) # node[n]
    /\ node' = [node EXCEPT ![n] = Tidied(@)]
    /\ UNCHANGED << net, up, due, left, arrived >>

CanForward(n) == /\ \E d \in Waiting(node[n]) : LET N == node[n] IN
                      \/ ~N.ROUTE[N.dest[d].NRROUTE[ActiveRoute(N.dest[d])].via].LINK
                      \/ N.LINK[N.dest[d].NRROUTE[ActiveRoute(N.dest[d])].via].L2STATE \notin {2, 4}

Transfer(n) ==
    /\ CanForward(n)
    /\ node' = [node EXCEPT ![n] = L3BG(@)]
    /\ UNCHANGED << net, up, due, left, arrived >>

\* A station or an application at n calls d.
Call(n, d) ==
    /\ n \in up /\ << n, d >> \in net.calls /\ Known(node[n], d)
    /\ Spend("calls", 1)
    /\ node' = [node EXCEPT ![n] = Queue(@, Message(n, d, "CREQ"))]
    /\ UNCHANGED << net, up, due, arrived >>

Reaches(n, m) == n # m /\ {n, m} \in net.links /\ {n, m} \subseteq up

Carries(m, r) == /\ Reaches(m, r) /\ node[m].LINK[r].L2STATE = 5
                 /\ node[r].LINK[m].L2STATE = 5

CanReceive(r, m) == Carries(m, r) /\ node[m].LINK[r].TX_Q # << >>

Receive(r, m) ==
    /\ CanReceive(r, m)
    /\ \E msg \in {Head(node[m].LINK[r].TX_Q)} :
         /\ node' = [node EXCEPT ![m].LINK[r].TX_Q = Tail(@), ![r] = NETROMMSG(@, r, m, msg)]
         /\ arrived' = arrived \cup IF msg.dst = r THEN {<< msg.src, r, msg.kind >>} ELSE {}
    /\ UNCHANGED << net, up, due, left >>

\* The SABM of n is answered.  An end that had the link up closes it first,
\* unless nothing had been received on it (SESSACTIVE).
Accepted(N, n, active) ==
    IF N.LINK[n].L2STATE = 5 /\ active
    THEN [L3LINKCLOSED(N, n) EXCEPT !.LINK[n].TX_Q = << >>]
    ELSE [N EXCEPT !.LINK[n].L2STATE = 5]

Answers(n, m) == Reaches(n, m) /\ node[m].LINK[n].L2STATE # 4

LinkUp(n, m) ==
    /\ n \in up /\ node[n].LINK[m].L2STATE = 2 /\ Answers(n, m)
    /\ \E active \in BOOLEAN :
         node' = [node EXCEPT ![n].LINK[m].L2STATE = 5, ![m] = Accepted(@, n, active)]
    /\ UNCHANGED << net, up, due, left, arrived >>

CLEAROUTLINK(N, m) == [N EXCEPT !.LINK[m] = NoLink]

\* No answer, or a DM.
SetupFails(n, m) ==
    /\ n \in up /\ node[n].LINK[m].L2STATE = 2
    /\ Spend("fails", IF Answers(n, m) THEN 1 ELSE 0)
    /\ node' = [node EXCEPT ![n] = CLEAROUTLINK(L3LINKSETUPFAILED(@, m), m)]
    /\ UNCHANGED << net, up, due, arrived >>

Closing(N, m) == [L3LINKCLOSED(N, m) EXCEPT !.LINK[m].L2STATE = 4]

\* The link has been idle, or is lost for a while.
Close(n, m) ==
    /\ n \in up /\ node[n].LINK[m].L2STATE = 5 /\ Spend("closes", 1)
    /\ node' = [node EXCEPT ![n] = Closing(@, m)]
    /\ UNCHANGED << net, up, due, arrived >>

\* The other end has gone: it does not answer, or says DM.
Gone(n, m) == ~Reaches(n, m) \/ node[m].LINK[n].L2STATE = 0

Lost(n, m) ==
    /\ n \in up /\ node[n].LINK[m].L2STATE = 5 /\ Gone(n, m)
    /\ node' = [node EXCEPT ![n] = IF Reaches(n, m)
                                   THEN CLEAROUTLINK(L3LINKCLOSED(@, m), m)
                                   ELSE Closing(@, m)]
    /\ UNCHANGED << net, up, due, left, arrived >>

\* The DISC is answered, and the other end closes if it is up.
Disconnects(n, m) ==
    /\ n \in up /\ node[n].LINK[m].L2STATE = 4 /\ Reaches(n, m)
    /\ node' = [node EXCEPT ![n] = CLEAROUTLINK(L3LINKCLOSED(@, m), m),
                            ![m] = IF @.LINK[n].L2STATE = 5
                                   THEN CLEAROUTLINK(L3LINKCLOSED(@, n), n) ELSE @]
    /\ UNCHANGED << net, up, due, left, arrived >>

\* It is not, and level 3 does not learn that the link has gone.
GivesUp(n, m) ==
    /\ n \in up /\ node[n].LINK[m].L2STATE = 4
    /\ Spend("fails", IF Reaches(n, m) THEN 1 ELSE 0)
    /\ node' = [node EXCEPT ![n] = CLEAROUTLINK(@, m)]
    /\ UNCHANGED << net, up, due, arrived >>

\* A node goes down; it comes back without a BPQNODES.dat.
Crash(n) ==
    /\ n \in up /\ Spend("crashes", 1)
    /\ up' = up \ {n}
    /\ due' = IF due = {n} THEN up' ELSE due \ {n}
    /\ node' = [node EXCEPT ![n] = Fresh(Nothing)]
    /\ UNCHANGED << net, arrived >>

Restart(n) ==
    /\ n \in net.nodes \ up /\ Spend("restarts", 1)
    /\ up' = up \cup {n}
    /\ UNCHANGED << net, node, due, arrived >>

Next == \/ \E n \in Nodes : L3Timer(n)
        \/ \E n \in Nodes : TidyRoutes(n)
        \/ \E n \in Nodes : Transfer(n)
        \/ \E n, d \in Nodes : Call(n, d)
        \/ \E r, m \in Nodes : Receive(r, m)
        \/ \E n, m \in Nodes : LinkUp(n, m)
        \/ \E n, m \in Nodes : SetupFails(n, m)
        \/ \E n, m \in Nodes : Close(n, m)
        \/ \E n, m \in Nodes : Lost(n, m)
        \/ \E n, m \in Nodes : Disconnects(n, m)
        \/ \E n, m \in Nodes : GivesUp(n, m)
        \/ \E n \in Nodes : Crash(n)
        \/ \E n \in Nodes : Restart(n)

Spec == Init /\ [][Next]_vars

\* Timers run out, L3BG runs, links that work carry what they are given, and a
\* setup or a close ends.
FairSpec ==
    /\ Spec
    /\ \A n \in Nodes :
         /\ []<>~Due(n) \/ []<><<L3Timer(n)>>_vars
         /\ []<>~CanForward(n) \/ []<><<Transfer(n)>>_vars
         /\ WF_vars(TidyRoutes(n))
    /\ \A n, m \in Nodes :
         /\ []<>~CanReceive(n, m) \/ []<><<Receive(n, m)>>_vars
         /\ WF_vars(LinkUp(n, m) \/ SetupFails(n, m))
         /\ WF_vars(Disconnects(n, m) \/ GivesUp(n, m))
         /\ WF_vars(Lost(n, m))

-----------------------------------------------------------------------------
Messages == [src : Nodes, dst : Nodes, kind : {"CREQ", "CACK", "INFO", "IACK", "NCMP"},
             L3TTL : 1..L3LIVES]

\* Every entry keeps its type, and a destination has at most three routes, each
\* by way of another neighbour, the best first (PROCROUTES, UPDATEDESTLIST and
\* DecayNETROMRoutes all move entries).
TypeOK ==
    /\ up \subseteq net.nodes /\ due \subseteq up
    /\ \A n \in Nodes :
         /\ \A d \in Nodes :
              LET s == node[n].dest[d].NRROUTE
              IN  /\ Ranked(s)
                  /\ node[n].dest[d].DEST_ROUTE \in 0..255
                  /\ node[n].dest[d].DEST_Q \in Seq(Messages)
                  /\ s = << >> => node[n].dest[d] = NoDest
         /\ node[n].ROUTE \in [Nodes -> [used : BOOLEAN, LINK : BOOLEAN]]
         /\ node[n].LINK \in [Nodes -> [L2STATE : {0, 2, 4, 5}, NEIGHBOUR : BOOLEAN,
                                        crosslink : BOOLEAN, TX_Q : Seq(Messages)]]

\* Nothing points to a neighbour that has been deleted, and a neighbour is told
\* of the link whose end it will be told of: L3LINKCLOSED clears what is there
\* (CHECKNEIGHBOUR, L2SETUPCROSSLINK, L3LINKCLOSED and L3MinuteTimerProc).
NoDangling ==
    \A n, m \in Nodes :
      LET N == node[n] IN
        /\ \A d \in Nodes : Via(N.dest[d].NRROUTE, m) # {} => N.ROUTE[m].used
        /\ N.ROUTE[m].LINK => N.ROUTE[m].used
        /\ N.LINK[m].NEIGHBOUR => N.ROUTE[m].LINK

\* Only the sysop locks a route: no decay turns an old route into one that never
\* grows old ("If OBS reaches zero, remove", BPQINP3.c:284).
NoSelfLock ==
    \A n, d \in Nodes : \A i \in DOMAIN node[n].dest[d].NRROUTE :
        node[n].dest[d].NRROUTE[i].obs < LOCKED

Quiet == \A n \in up : /\ Waiting(node[n]) = {}
                       /\ \A m \in Nodes : Carries(n, m) => node[n].LINK[m].TX_Q = << >>

\* No message goes round for ever or waits for ever, whichever links fail and
\* wherever the tables point.
ComesToRest == <>[]Quiet

\* The best route does not work: a call is lost in finding this out, and another
\* one after each broadcast, which makes the best route active again; the next
\* call gets there by the second best, and is answered though the called node
\* did not know the caller (L3TRYNEXTDEST, PROCROUTES, CHECKL3TABLES).
GetsThrough == net.works /\ left.calls = 0 ~> \A c \in net.calls :
                   {<< c[1], c[2], "CREQ" >>, << c[2], c[1], "CACK" >>} \subseteq arrived

\* What has gone down is forgotten everywhere, though neighbours go on telling
\* each other of it for a while.
Forgets == \A d \in Nodes :
    net.broadcasts /\ d \in net.nodes \ up ~> \/ d \in up
                            \/ \A n \in up : ~Known(node[n], d)

Joined(n, d) == n \in up /\ d \in up /\ << d, n >> \in net.hears

\* In the end the best route of every node to every other one is a shortest one.
Learns == net.broadcasts => <>[](\A n, d \in up :
    n # d => LET best == node[n].dest[d].NRROUTE[1].via
                 near == {m \in Nodes : Joined(n, m) /\ (m = d \/ Joined(m, d))}
             IN  near # {} => /\ Known(node[n], d)
                              /\ best \in IF d \in near THEN {d} ELSE near)
=============================================================================
