------------------------------ MODULE ChatNet -------------------------------
(***************************************************************************)
(* The chat network (HanksRT.c): nodes that link to each other over        *)
(* sessions of the packet network, tell each other of the nodes and users  *)
(* each can reach, and pass on what users say.  Every node runs the same   *)
(* code and keeps nothing when it goes down.                               *)
(*                                                                         *)
(* A session keeps the order of its lines until it breaks, which each end  *)
(* notices in its own time.  Left out: names and QTHs (passed on as topics *)
(* are), private messages, polls (with them an end finds out sooner that a *)
(* session has broken), the two hours' idle timer, consoles, callers that  *)
(* are not configured as nodes, and the limits on streams and on the table *)
(* of recent texts, whose entries expire only where net.slow says so.      *)
(***************************************************************************)
EXTENDS Integers, Sequences, FiniteSets, FiniteSetsExt, SequencesExt

CONSTANTS Nodes, Networks,
          Calls,             \* the users' callsigns
          Topics, deftopic,
          Local              \* the circuit of a user who is here

ASSUME TopicAssumption == deftopic \in Topics /\ IsFiniteSet(Nodes)

VARIABLES net,     \* the network of this behaviour, a member of Networks:
                   \* links: << n, m >> when n has a LINK entry for m,
                   \* here, up: the users and links there are at the start,
                   \* logins: which user may log in where,
                   \* tree: no loops, slow: texts may come seconds apart,
                   \* max: a bound for each kind of event
          chat,    \* chat[n]: what n keeps
          left,    \* what is left of the bounds, and the texts still to say: at
                   \* which nodes, and whether only when nothing is on its way
          owed     \* (history) << call, speaker, text >> of who should hear
                   \* what was said, until the network changes

vars == << net, chat, left, owed >>

(***************************************************************************)
(* Circuit << "out", m >> of a node is its call to m, << "in", m >> is m's  *)
(* call to it.  rtcflags is as in the code.  session is what the packet    *)
(* network makes of the stream: "closing" when Disconnect was called,      *)
(* "lost" when it has broken, "shut" when ChatDisconnected has been called *)
(* and the other end's has not.  tx holds the lines on their way to the    *)
(* other end.                                                              *)
(***************************************************************************)
Circuits == {"out", "in"} \X Nodes

PeerOf(n, c) == << IF c[1] = "out" THEN "in" ELSE "out", n >>

ASSUME LocalAssumption == Local \notin Circuits

\* S is what is left on m's side when the link of n and m is taken out of links.
Cut(links, n, m, S) ==
    /\ m \in S /\ n \notin S
    /\ \A k \in links : (k[1] \in S <=> k[2] \in S) \/ {k[1], k[2]} = {n, m}

\* Where there are no loops each link is the only one between its two sides, and
\* the nodes start with nobody on them.
ASSUME NetworkAssumption == \A w \in Networks :
          /\ w.links \in SUBSET (Nodes \X Nodes)
          /\ w.tree => /\ w.here = {} /\ w.up = {}
                       /\ \A l \in w.links : \E S \in SUBSET Nodes : Cut(w.links, l[1], l[2], S)
          /\ {"quick", "says"} \subseteq DOMAIN w.max
          /\ w.max.says \in Seq([at : SUBSET Nodes, text : Seq(Nat), settled : BOOLEAN])

NoCircuit == [rtcflags |-> "nil", session |-> "free", refcnt |-> 0,
              hnode |-> [x \in Nodes |-> 0], tx |-> << >>]

NewNode == [node |-> [x \in Nodes |-> 0],           \* refcnt; 0: not on the list
            user |-> {},                            \* the user list
            link |-> [m \in Nodes |-> "none"],      \* flags of the LINK to m
            RunningConnectScript |-> FALSE,
            circuit |-> [c \in Circuits |-> NoCircuit],
            DupInfo |-> {}, heard |-> << >>]

Line(kind, node, call, arg) == [kind |-> kind, node |-> node, call |-> call, arg |-> arg]

Users(N, c)     == {u \in N.user : u.via = c}
circuit_hd(N)   == {c \in Circuits : N.circuit[c].rtcflags \in {"linked", "linkini"}}
node_find(N, x) == N.node[x] > 0
cn_find(C, x)   == C.hnode[x] > 0
ct_find(N, c, topic) == \E u \in Users(N, c) : u.topic = topic

\* user_find and, when it finds one, the user.
user_find(N, call, at) == \E u \in N.user : u.call = call /\ u.at = at
UserAt(N, call, at)    == CHOOSE u \in N.user : u.call = call /\ u.at = at

-----------------------------------------------------------------------------
(* Telling other nodes.                                                    *)

Send(C, lines) == IF C.session = "open" THEN [C EXCEPT !.tx = @ \o lines] ELSE C

\* echo: to every link but this one, unless it is how node x is reached.
echo(N, from, x, line) ==
    [N EXCEPT !.circuit = [c \in Circuits |->
        IF @[c].rtcflags = "linked" /\ c # from /\ ~cn_find(@[c], x)
        THEN Send(@[c], << line >>) ELSE @[c]]]

\* node_tell and user_tell: a line about node x.
Tell(N, x, line) == echo(N, Local, x, line)

-----------------------------------------------------------------------------
(* Reference counts.                                                       *)

cn_inc(N, c, x) == [N EXCEPT !.node[x] = @ + 1, !.circuit[c].hnode[x] = @ + 1]

cn_dec(N, c, x) == [N EXCEPT !.circuit[c].hnode[x] = IF @ > 0 THEN @ - 1 ELSE 0]

\* The records that point to x.
Pointing(N, x) == Cardinality({u \in N.user : u.at = x})
    + Cardinality({c \in Circuits : N.circuit[c].rtcflags = "linked" /\ cn_find(N.circuit[c], x)})

\* The last reference goes: the node is removed unless it is pointed to.
node_dec(N, x) == [N EXCEPT !.node[x] = IF @ > 1 THEN @ - 1 ELSE Pointing(N, x)]

\* The end of circuit_free: with the last circuit the node list goes too.
CleanUp(N) == IF circuit_hd(N) = {} /\ Users(N, Local) = {}
              THEN [N EXCEPT !.node = NewNode.node] ELSE N

circuit_free(N, c) ==
    CleanUp([N EXCEPT !.circuit[c].hnode = NoCircuit.hnode,
                      !.circuit[c].refcnt = 0, !.circuit[c].rtcflags = "nil"])

-----------------------------------------------------------------------------
(* Links.                                                                  *)

\* A user is told of as a user of its node, and its topic as one of this node's.
UserLines(n, m, u) ==
    (IF u.at = m THEN << >> ELSE << Line("join", u.at, u.call, deftopic) >>)
    \o << Line("topic", n, u.call, u.topic) >>

\* Mutant: m is not told of the nodes.
state_tell_UsersOnly(N, n, c, m) ==
    [Tell(cn_inc(N, c, m), m, Line("link", n, m, deftopic)) EXCEPT !.circuit[c] =
        Send(@, FlattenSeq(SetToSeq({UserLines(n, m, u) : u \in N.user})))]

\* state_tell: c is a new link to m.  The others are told of m, and m of the
\* nodes and users.
state_tell(N, n, c, m) ==
    LET nodes == {x \in Nodes \ {n, m} : node_find(N, x)}
        told == Tell(cn_inc(N, c, m), m, Line("link", n, m, deftopic))
    IN  [told EXCEPT !.circuit[c] =
            Send(@, SetToSeq({Line("link", n, x, deftopic) : x \in nodes})
                    \o FoldLeft(LAMBDA lines, u : lines \o UserLines(n, m, u), << >>,
                                SetToSeq(N.user)))]

\* Mutant: the LINK stays marked as linked.
Unlink_FlagsStay(N, c) == [N EXCEPT !.circuit[c].rtcflags = "nil"]

Unlink(N, c) ==
    [N EXCEPT !.link[c[2]] = IF N.circuit[c].rtcflags = "linkini" THEN "failed" ELSE "none",
              !.circuit[c].rtcflags = "nil"]

\* link_drop: the users and nodes that were reached by circuit c are gone, and
\* the other links are told so.  (node_dec's repair of a count that is too low
\* is made once, at the end.)
link_drop(N, n, c) ==
    LET users == Users(N, c)
        nodes == {x \in Nodes : cn_find(N.circuit[c], x)}
        fewer(x) == Cardinality({u \in users : u.at = x}) + Cardinality({x} \cap nodes)
        news(D) ==
            SetToSeq({Line("leave", u.at, u.call, deftopic) :
                      u \in {w \in users : ~cn_find(D, w.at)}})
            \o SetToSeq({Line("unlink", n, x, deftopic) : x \in {y \in nodes : ~cn_find(D, y)}})
        S == [Unlink(N, c) EXCEPT
                !.user = @ \ users,
                !.circuit = [d \in Circuits |->
                    IF @[d].rtcflags = "linked" THEN Send(@[d], news(@[d])) ELSE @[d]]]
    IN  circuit_free([S EXCEPT !.node = [x \in Nodes |->
            IF fewer(x) = 0 \/ @[x] > fewer(x) THEN @[x] - fewer(x) ELSE Pointing(S, x)]], c)

\* Disconnect on the streams of the circuits S.
Disconnect(N, S) == [N EXCEPT !.circuit = [c \in Circuits |->
    IF c \in S /\ @[c].session # "lost" THEN [@[c] EXCEPT !.session = "closing"] ELSE @[c]]]

\* The other circuit of this link, if there is one: closed and forgotten.
OldClosed(N, n, c) ==
    LET old == {d \in circuit_hd(N) : d[2] = c[2]}
    IN  IF N.link[c[2]] \notin {"linked", "linkini"} \/ old = {} THEN N
        ELSE LET d == CHOOSE d \in old : TRUE IN link_drop(Disconnect(N, {d}), n, d)

\* rtloginl: the node that called on circuit c has said *RTL.
rtloginl(N, n, c) ==
    IF node_find(N, c[2]) THEN [Disconnect(N, {c}) EXCEPT !.circuit[c].rtcflags = "nil"]
    ELSE LET S == OldClosed(N, n, c)
         IN  state_tell([S EXCEPT !.circuit[c].rtcflags = "linked", !.link[c[2]] = "linked",
                                  !.circuit[c].tx = Append(@, Line("OK", n, n, deftopic))],
                        n, c, c[2])

\* ProcessChatConnectScript on the answer to *RTL.
Answered(N, n, c) ==
    LET S == [N EXCEPT !.RunningConnectScript = FALSE]
    IN  IF node_find(N, c[2]) THEN Disconnect(S, {c})
        ELSE state_tell([S EXCEPT !.circuit[c].rtcflags = "linked",
                                  !.link[c[2]] = "linked"], n, c, c[2])

ChatDisconnected(N, n, c) ==
    IF N.circuit[c].rtcflags \in {"linked", "linkini"}
    THEN link_drop([N EXCEPT !.RunningConnectScript = @ /\ N.link[c[2]] # "linkini"], n, c)
    ELSE circuit_free(N, c)

-----------------------------------------------------------------------------
(* Users.                                                                  *)

NewUser(call, at, via) == [call |-> call, at |-> at, via |-> via, topic |-> deftopic]

rtloginu(N, n, call) ==
    Tell([N EXCEPT !.node[n] = @ + 1, !.user = @ \cup {NewUser(call, n, Local)}],
         n, Line("join", n, call, deftopic))

logout(N, n, u) ==
    CleanUp(node_dec([Tell(N, n, Line("leave", n, u.call, deftopic))
                      EXCEPT !.user = @ \ {u}], n))

InTopic(N, u, topic) == [N EXCEPT !.user = (@ \ {u}) \cup {[u EXCEPT !.topic = topic]}]

\* The /t command: every link is told, whatever it reaches.
topic_chg(N, n, u, topic) ==
    [InTopic(N, u, topic) EXCEPT !.circuit = [c \in Circuits |->
        IF @[c].rtcflags = "linked" THEN Send(@[c], << Line("topic", n, u.call, topic) >>)
        ELSE @[c]]]

\* text_tellu, to the local users in u's topic, and on to those links that have
\* users in it.
text_tellu(N, u, text, circuits, line) ==
    [N EXCEPT
        !.heard = @ \o SetToSeq({<< v.call, u.call, text >> :
                      v \in {w \in Users(N, Local) : w.topic = u.topic /\ w # u}}),
        !.circuit = [c \in Circuits |->
            IF /\ c \in circuits /\ @[c].rtcflags = "linked"
               /\ @[c].refcnt # 0 /\ ct_find(N, c, u.topic)
            THEN Send(@[c], << line >>) ELSE @[c]]]

\* ProcessChatLine on text.
Said(N, n, u, text) == text_tellu(N, u, text, Circuits, Line("data", n, u.call, text))

-----------------------------------------------------------------------------
(* chkctl: a line of a linked node, which came in on circuit c.            *)

\* CheckforDups: the text, or the start of it, came from this call in the last
\* seconds.
IsDup(N, L) == \E d \in N.DupInfo : d[1] = L.call /\ IsPrefix(d[2], L.arg)

\* Mutant: nothing is taken for a duplicate.
Data_NoDups(N, L, recent) ==
    IF ~user_find(N, L.call, L.node) THEN N
    ELSE text_tellu(N, UserAt(N, L.call, L.node), L.arg,
                    {d \in Circuits : ~cn_find(N.circuit[d], L.node)}, L)

Data(N, L, recent) ==
    LET S == [N EXCEPT !.DupInfo = @ \cup {<< L.call, L.arg >>}]
    IN  IF recent /\ IsDup(N, L) THEN N
        ELSE IF ~user_find(N, L.call, L.node) THEN S
        ELSE text_tellu(S, UserAt(N, L.call, L.node), L.arg,
                        {d \in Circuits : ~cn_find(N.circuit[d], L.node)}, L)

Joined(N, c, L) ==
    IF user_find(N, L.call, L.node) THEN N
    ELSE [cn_inc(echo(N, c, L.node, L), c, L.node)
          EXCEPT !.circuit[c].refcnt = @ + 1, !.user = @ \cup {NewUser(L.call, L.node, c)}]

\* Mutant: the node keeps the reference of a user who has left.
Gone_KeepsNode(N, c, L) ==
    IF ~user_find(N, L.call, L.node) THEN N
    ELSE cn_dec([echo(N, c, L.node, L) EXCEPT
                    !.circuit[c].refcnt = @ - 1,
                    !.user = @ \ {UserAt(N, L.call, L.node)}], c, L.node)

Gone(N, c, L) ==
    IF ~user_find(N, L.call, L.node) THEN N
    ELSE LET S == [echo(N, c, L.node, L) EXCEPT
                      !.circuit[c].refcnt = @ - 1,
                      !.user = @ \ {UserAt(N, L.call, L.node)}]
         IN  node_dec(cn_dec(S, c, L.node), L.node)

LinkedTo(N, c, L) ==
    IF node_find(N, L.call) THEN N
    ELSE echo(cn_inc(N, c, L.call), c, L.node, L)

Unlinked(N, c, L) ==
    IF ~node_find(N, L.call) \/ ~cn_find(N.circuit[c], L.call) THEN N
    ELSE echo(node_dec(cn_dec(N, c, L.call), L.call), c, L.node, L)

TopicOf(N, c, L) ==
    LET u == UserAt(N, L.call, L.node)
    IN  IF ~user_find(N, L.call, L.node) \/ u.topic = L.arg THEN N
        ELSE InTopic(echo(N, c, L.node, L), u, L.arg)

chkctl(N, n, c, L, recent) ==
    IF ~node_find(N, L.node) \/ L.node = n THEN N
    ELSE CASE L.kind = "data"   -> Data(N, L, recent)
           [] L.kind = "join"   -> Joined(N, c, L)
           [] L.kind = "leave"  -> Gone(N, c, L)
           [] L.kind = "link"   -> LinkedTo(N, c, L)
           [] L.kind = "unlink" -> Unlinked(N, c, L)
           [] L.kind = "topic"  -> TopicOf(N, c, L)
           [] OTHER             -> N

-----------------------------------------------------------------------------
(* The start: nodes with nobody on them, or some of them with users and a      *)
(* link between two, as they are when these have come and all has settled.     *)

\* n and the node at the other end of circuit c have told each other all.
LinkedAlready(N, n, c) ==
    LET up == [cn_inc(N, c, c[2]) EXCEPT !.link[c[2]] = "linked",
                  !.circuit[c].rtcflags = "linked", !.circuit[c].session = "open"]
    IN  FoldSet(LAMBDA call, S : Joined(S, c, Line("join", c[2], call, deftopic)),
                up, {call \in Calls : << c[2], call >> \in net.here})

AtStart(n) ==
    LET users == FoldSet(LAMBDA call, N : rtloginu(N, n, call), NewNode,
                         {call \in Calls : << n, call >> \in net.here})
        circuits == {c \in Circuits : (IF c[1] = "out" THEN << n, c[2] >>
                                       ELSE << c[2], n >>) \in net.up}
    IN  FoldSet(LAMBDA c, N : LinkedAlready(N, n, c), users, circuits)

Init == /\ net \in Networks
        /\ chat = [n \in Nodes |-> AtStart(n)]
        /\ left = net.max
        /\ owed = {}

-----------------------------------------------------------------------------
(* Actions.                                                                *)

Spend(what) == left[what] > 0 /\ left' = [left EXCEPT ![what] = @ - 1]

\* n becomes N, and with it what everyone should have heard is void.
Becomes(n, N) == chat' = [chat EXCEPT ![n] = N]
Changes(n, N) == Becomes(n, N) /\ owed' = {}

Incoming(n, c) == chat[c[2]].circuit[PeerOf(n, c)].tx

Arriving(n, c) == chat[n].circuit[c].session = "open" /\ Incoming(n, c) # << >>

\* n takes the first line on its way on circuit c.
Takes(n, c, N) ==
    chat' = [chat EXCEPT ![n] = N, ![c[2]].circuit[PeerOf(n, c)].tx = Tail(@)]

\* ChatTimer and makelinks: while there are users, one call at a time.  At most
\* left.crossings times a node calls one that is calling it or that still thinks
\* its own call to this node stands.
MakeLink(n, m) ==
    LET N == chat[n]  c == << "out", m >> IN
    /\ << n, m >> \in net.links /\ N.user # {} /\ ~N.RunningConnectScript
    /\ N.link[m] \notin {"linked", "linkini"} /\ ~node_find(N, m)
    /\ N.circuit[c].session = "free" /\ chat[m].circuit[PeerOf(n, c)].session = "free"
    /\ Becomes(n, [N EXCEPT !.link[m] = "linkini", !.RunningConnectScript = TRUE,
                            !.circuit[c].rtcflags = "linkini",
                            !.circuit[c].session = "calling"])
    /\ IF chat[m].circuit[<< "out", n >>].session # "free"
       THEN Spend("crossings") ELSE UNCHANGED left
    /\ UNCHANGED << net, owed >>

\* The connect script runs, and *RTL is said to the other node's SID.
Reaches(n, m) ==
    LET c == << "out", m >> IN
    /\ chat[n].circuit[c].session = "calling"
    /\ chat' = [chat EXCEPT
         ![n].circuit[c].session = "open",
         ![n].circuit[c].tx = << Line("RTL", n, n, deftopic) >>,
         ![m].circuit[PeerOf(n, c)] = [@ EXCEPT !.session = "open", !.rtcflags = "linkwait"]]
    /\ UNCHANGED << net, left, owed >>

\* The calls on the circuits S have come to nothing.
Failed(N, S) == [Disconnect(N, S) EXCEPT
    !.link = [m \in Nodes |-> IF \E c \in S : c[2] = m THEN "failed" ELSE @[m]],
    !.RunningConnectScript = FALSE]

\* The answer to the script says that the connect failed.
ConnectFails(n, m) ==
    /\ chat[n].circuit[<< "out", m >>].session = "calling" /\ Spend("fails")
    /\ Becomes(n, Failed(chat[n], {<< "out", m >>}))
    /\ UNCHANGED << net, owed >>

Connecting(N) == {c \in Circuits : N.circuit[c].rtcflags = "linkini"}

\* makelinks, when a script has run for more than 30 seconds, or was left
\* marked as running when its circuit was dropped.
ScriptTimesOut(n) ==
    /\ chat[n].RunningConnectScript /\ chat[n].user # {}
    /\ IF Connecting(chat[n]) = {} THEN UNCHANGED left ELSE Spend("fails")
    /\ Becomes(n, Failed(chat[n], Connecting(chat[n])))
    /\ UNCHANGED << net, owed >>

HearRTL(n, c) ==
    /\ Arriving(n, c) /\ chat[n].circuit[c].rtcflags = "linkwait"
    /\ Takes(n, c, rtloginl(chat[n], n, c))
    /\ UNCHANGED << net, left, owed >>

HearOK(n, c) ==
    /\ Arriving(n, c) /\ chat[n].circuit[c].rtcflags = "linkini"
    /\ Takes(n, c, Answered(chat[n], n, c))
    /\ UNCHANGED << net, left, owed >>

HearLine(n, c) ==
    /\ Arriving(n, c) /\ chat[n].circuit[c].rtcflags = "linked"
    /\ \E recent \in IF net.slow THEN BOOLEAN ELSE {TRUE} :
           Takes(n, c, chkctl(chat[n], n, c, Head(Incoming(n, c)), recent))
    /\ UNCHANGED << net, left, owed >>

\* A leave or unlink for an entry that is less than three seconds old.
TooSoon(n, c) ==
    /\ Arriving(n, c) /\ chat[n].circuit[c].rtcflags = "linked"
    /\ Head(Incoming(n, c)).kind \in {"leave", "unlink"} /\ Spend("quick")
    /\ Takes(n, c, chat[n])
    /\ UNCHANGED << net, owed >>

\* The session is over at this end: it was disconnected, it broke, or the other
\* end has finished with it and all it sent has been read.
Over(n, c) ==
    \/ chat[n].circuit[c].session \in {"closing", "lost"}
    \/ /\ chat[n].circuit[c].session = "open" /\ Incoming(n, c) = << >>
       /\ chat[c[2]].circuit[PeerOf(n, c)].session = "shut"

\* The end of a session whose other end is over.
Finished(C, last) == [C EXCEPT !.session = IF last THEN "free" ELSE @, !.tx = << >>]

Ended(n, c) ==
    LET p == PeerOf(n, c)
        last == chat[c[2]].circuit[p].session \in {"shut", "free"}
        N == ChatDisconnected(chat[n], n, c)
    IN  /\ Over(n, c)
        /\ chat' = [chat EXCEPT
             ![n] = [N EXCEPT !.circuit[c].session = IF last THEN "free" ELSE "shut",
                              !.circuit[c].tx = IF last THEN << >> ELSE @],
             ![c[2]].circuit[p] = Finished(@, last)]
        /\ owed' = {}
        /\ UNCHANGED << net, left >>

\* The connection breaks, or the other end goes down: what was on its way is lost.
Broken(C) == [C EXCEPT !.session = IF @ \in {"shut", "free"} THEN "free" ELSE "lost",
                       !.tx = << >>]

Breaks(n, m) ==
    LET c == << "out", m >> IN
    /\ chat[n].circuit[c].session = "open" /\ Spend("breaks")
    /\ chat' = [chat EXCEPT ![n].circuit[c] = Broken(@),
                            ![m].circuit[PeerOf(n, c)] = Broken(@)]
    /\ owed' = {}
    /\ UNCHANGED net

\* A node goes down and comes back with nothing.
Crash(n) ==
    /\ Spend("crashes")
    /\ chat' = [m \in Nodes |->
         IF m = n THEN [NewNode EXCEPT !.heard = chat[n].heard]
         ELSE [chat[m] EXCEPT !.circuit = [c \in Circuits |->
                                             IF c[2] = n THEN Broken(@[c]) ELSE @[c]]]]
    /\ owed' = {}
    /\ UNCHANGED net

\* Nothing is on its way to or from n.
Settled(n) == \A c \in Circuits :
    /\ chat[n].circuit[c].session \in {"free", "open"} /\ chat[n].circuit[c].tx = << >>
    /\ chat[n].circuit[c].rtcflags \in {"nil", "linked"} /\ Incoming(n, c) = << >>

\* node_keepalive with no users: node_close.
NodeClose(n) ==
    LET N == chat[n]
        open == {c \in circuit_hd(N) : N.circuit[c].session \in {"calling", "open"}}
    IN  /\ N.user = {} /\ open # {}
        /\ IF Settled(n) THEN UNCHANGED left ELSE Spend("ticks")
        /\ Becomes(n, Disconnect(N, open))
        /\ UNCHANGED << net, owed >>

Login(n, call) ==
    /\ << n, call >> \in net.logins /\ Spend("logins")
    /\ \A u \in chat[n].user : u.call # call
    /\ Changes(n, rtloginu(chat[n], n, call))
    /\ UNCHANGED net

Logout(n) ==
    /\ Spend("logouts")
    /\ \E u \in Users(chat[n], Local) : Changes(n, logout(chat[n], n, u))
    /\ UNCHANGED net

ChangeTopic(n, topic) ==
    /\ Spend("topics")
    /\ \E u \in Users(chat[n], Local) :
         u.topic # topic /\ Changes(n, topic_chg(chat[n], n, u, topic))
    /\ UNCHANGED net

-----------------------------------------------------------------------------
(* What the properties say.                                                *)

Joint(n, m) == \E c \in {<< "out", m >>, << "in", m >>} :
    /\ chat[n].circuit[c].rtcflags = "linked"
    /\ chat[m].circuit[PeerOf(n, c)].rtcflags = "linked"

\* The nodes that n is linked with, directly or not.
Cluster(n) == FoldSet(LAMBDA x, S : S \cup {m \in Nodes : \E k \in S : Joint(k, m)},
                      {n}, Nodes)

\* << call, node, topic >> of the users that are on a node of n's cluster.
Present(n) == UNION {{<< u.call, m, u.topic >> : u \in Users(chat[m], Local)} : m \in Cluster(n)}

Known(n) == {<< u.call, u.at, u.topic >> : u \in chat[n].user}

\* No call is in progress, no session is ending and no line is on its way.
Quiet == \A n \in Nodes : Settled(n)

\* Who should hear u's text: the users in the topic, when all agree who that is.
Listeners(n, u) ==
    IF Quiet /\ net.tree /\ \A m \in Cluster(n) : Known(m) = Present(n)
    THEN {v[1] : v \in {w \in Present(n) : w[3] = u.topic /\ << w[1], w[2] >> # << u.call, n >>}}
    ELSE {}

Say(n) ==
    /\ left.says # << >> /\ n \in Head(left.says).at
    /\ Head(left.says).settled => Quiet
    /\ left' = [left EXCEPT !.says = Tail(@)]
    /\ LET text == Head(left.says).text IN
         \E u \in Users(chat[n], Local) :
           /\ Becomes(n, Said(chat[n], n, u, text))
           /\ owed' = owed \cup {<< call, u.call, text >> : call \in Listeners(n, u)}
    /\ UNCHANGED net

Next == \/ \E n, m \in Nodes : MakeLink(n, m) \/ Reaches(n, m) \/ ConnectFails(n, m)
                               \/ Breaks(n, m)
        \/ \E n \in Nodes, c \in Circuits :
               HearRTL(n, c) \/ HearOK(n, c) \/ HearLine(n, c) \/ TooSoon(n, c) \/ Ended(n, c)
        \/ \E n \in Nodes : ScriptTimesOut(n) \/ NodeClose(n) \/ Crash(n) \/ Logout(n) \/ Say(n)
        \/ \E n \in Nodes, call \in Calls : Login(n, call)
        \/ \E n \in Nodes, topic \in Topics : ChangeTopic(n, topic)

\* ChatTimer and ChatPollStreams keep running, lines arrive while the connection
\* lasts, and the ten minutes' tick comes again when nothing is going on.
Chat == \/ \E n, m \in Nodes : MakeLink(n, m) \/ Reaches(n, m)
        \/ \E n \in Nodes, c \in Circuits :
               HearRTL(n, c) \/ HearOK(n, c) \/ HearLine(n, c) \/ Ended(n, c)
        \/ \E n \in Nodes : (Connecting(chat[n]) = {} /\ ScriptTimesOut(n))
                            \/ (Settled(n) /\ NodeClose(n))

Spec == Init /\ [][Next]_vars /\ WF_vars(Chat)

-----------------------------------------------------------------------------
(* Properties.                                                             *)

\* No loops, and no leave or unlink is ignored because it came too soon.
Exact == net.tree /\ net.max.quick = 0

\* The references to x that the links hold.
LinkRefs(N, x) == MapThenSumSet(LAMBDA c : N.circuit[c].hnode[x], Circuits)

\* A node's reference count is the number of references there are, and a link's
\* counts are those of what it reaches.  When a count is short node_dec frees a
\* record that users and links still point to (HanksRT.c: node_inc, node_dec,
\* cn_inc, cn_dec, refcnt in chkctl and link_drop).
CountsAgree ==
    Exact => \A n, x \in Nodes :
      LET N == chat[n]
          hnode(c) == N.circuit[c].hnode[x]
          at(c) == Cardinality({u \in Users(N, c) : u.at = x})
      IN  /\ N.node[x] = at(Local) + LinkRefs(N, x)
          /\ \A c \in Circuits :
               /\ N.circuit[c].refcnt = Cardinality(Users(N, c))
               /\ hnode(c) \in IF at(c) = 0 THEN {0, 1} ELSE {at(c) + 1}

\* When nothing is on its way the nodes that are linked with each other, directly
\* or not, have the same nodes and the same users on their lists, whatever came
\* up, broke or crashed before in whatever order, and the topics of a neighbour's
\* users are right (state_tell, echo, link_drop).
Agree ==
    Exact /\ Quiet => \A n \in Nodes :
      /\ {x \in Nodes \ {n} : node_find(chat[n], x)} = Cluster(n) \ {n}
      /\ {<< k[1], k[2] >> : k \in Known(n)} = {<< p[1], p[2] >> : p \in Present(n)}
      /\ \A k \in Known(n) : k[2] = n \/ Joint(n, k[2]) => k \in Present(n)

\* What is said in a settled network is heard by every user in the topic when it
\* has gone round, and nobody hears a text twice, in a loop either (CheckforDups).
Heard ==
    /\ Quiet => owed \subseteq UNION {Range(chat[n].heard) : n \in Nodes}
    /\ \A n \in Nodes : IsInjective(chat[n].heard)

Linkable == UNION {{l[1], l[2]} : l \in net.links}

Dormant(N) == N.user = {} /\ N.node = NewNode.node /\ N.circuit = NewNode.circuit

\* Links come up when there is a user, all the way through the network, and go
\* down again when the last has left, and nobody is left on any list
\* (docs/subsystems/chat.md: "Connections come up lazily").
LinksFollowUsers ==
    /\ \A n \in Nodes : Users(chat[n], Local) # {}
                        ~> Linkable \subseteq Cluster(n) \/ Users(chat[n], Local) = {}
    /\ (\A n \in Nodes : Users(chat[n], Local) = {})
          ~> \/ \E n \in Nodes : Users(chat[n], Local) # {}
             \/ \A n \in Nodes : Dormant(chat[n])
=============================================================================
