--------------------------- MODULE ChatNetProofs ----------------------------
(***************************************************************************)
(* ChatNet for every set of nodes, users, topics and networks: where there *)
(* are no loops the reference counts of nodes, links and their lists are   *)
(* exact (CountsAgree).                                                    *)
(*                                                                         *)
(* No node can see by itself that its counts are right: that an unlink     *)
(* takes the last reference to a node, and that link_drop and Gone take as *)
(* many as there are, depends on what the others have sent and on what is  *)
(* still on its way.  Behind(n, m) is what n can reach only by way of m;   *)
(* NodeOK says of one node that each of its circuits counts only nodes     *)
(* behind it, so that no two count the same; Way says of the two ends of a *)
(* session that what one knows by it the other knows, or has sent that it  *)
(* no longer does, and that an unlink comes after the leaves of the users  *)
(* there.  A step of a node is right if it keeps NodeOK and sends what it  *)
(* must (Tells), or takes what it has heard (Hears); each operator of the  *)
(* code has a lemma for this and each action one that it keeps Fine.       *)
(***************************************************************************)
EXTENDS ChatNet, FoldProofs, SequenceTheorems

(***************************************************************************)
(* The tree.                                                               *)
(***************************************************************************)
Adjacent(n, m) == << n, m >> \in net.links \/ << m, n >> \in net.links

\* The nodes that n can reach only by way of m.
Behind(n, m) == {x \in Nodes : \A S \in SUBSET Nodes : Cut(net.links, n, m, S) => x \in S}

(***************************************************************************)
(* The types.                                                              *)
(***************************************************************************)
UserRecs == [call : Calls, at : Nodes, via : Circuits \cup {Local}, topic : Topics]

\* What users say.
Texts == Seq(Nat)

\* A text still to be said.
Sayings == [at : SUBSET Nodes, text : Texts, settled : BOOLEAN]

\* The lines that one node sends another.
Lines == {L \in [kind : {"RTL", "OK", "link", "unlink", "join", "leave", "topic", "data"},
                 node : Nodes, call : Calls \cup Nodes, arg : Topics \cup Texts] :
             /\ L.kind \in {"join", "leave"} => L.call \in Calls
             /\ L.kind = "topic" => L.arg \in Topics}

\* What a node keeps of a circuit.
CircuitRecs == [rtcflags : {"nil", "linkwait", "linkini", "linked"},
                session : {"free", "calling", "open", "closing", "lost", "shut"},
                refcnt : Nat, hnode : [Nodes -> Nat], tx : Seq(Lines)]

\* What a node keeps.
NodeType(N) ==
    /\ N = [node |-> N.node, user |-> N.user, link |-> N.link,
            RunningConnectScript |-> N.RunningConnectScript, circuit |-> N.circuit,
            DupInfo |-> N.DupInfo, heard |-> N.heard]
    /\ N.node \in [Nodes -> Nat] /\ N.user \in SUBSET UserRecs /\ IsFiniteSet(N.user)
    /\ N.link \in [Nodes -> {"none", "linkini", "linked", "failed"}]
    /\ N.circuit \in [Circuits -> CircuitRecs]

(***************************************************************************)
(* A node by itself.                                                       *)
(***************************************************************************)
Linked(N, c) == N.circuit[c].rtcflags = "linked"

\* The users of node x that are reached by circuit c.
Guests(N, c, x) == {u \in N.user : u.via = c /\ u.at = x}

\* What the session of a circuit allows.
SessionOK(n, C, c) ==
    /\ C.session \in {"free", "shut"} => C.rtcflags = "nil"
    /\ C.session \in {"free", "calling"} => C.tx = << >>
    /\ C.session = "calling" => c[1] = "out" /\ C.rtcflags # "linked"
    /\ C.session # "free" => Adjacent(n, c[2])

\* The counts of circuit c: it reaches only what is behind the node it leads to, what
\* it reaches is counted by nothing else, and each of its users counts once.
CircuitOK(n, N, c) ==
    LET C == N.circuit[c] IN
    /\ SessionOK(n, C, c)
    /\ Linked(N, c) => C.hnode[c[2]] > 0
    /\ ~Linked(N, c) => C.hnode = NoCircuit.hnode
    /\ C.refcnt = Cardinality(Users(N, c))
    /\ \A x \in Nodes :
         /\ C.hnode[x] > 0 => x \in Behind(n, c[2]) /\ N.node[x] = C.hnode[x]
         /\ C.hnode[x] \in IF Guests(N, c, x) = {} THEN {0, 1}
                           ELSE {Cardinality(Guests(N, c, x)) + 1}

\* Node n by itself is as it should be when it is N: its users are here or reached by a
\* circuit, known once, and all that is on its list is here or reached.
NodeOK(n, N) ==
    /\ NodeType(N)
    /\ \A u \in N.user : \/ u.via = Local /\ u.at = n
                         \/ u.via \in Circuits /\ N.circuit[u.via].hnode[u.at] > 0
    /\ \A u, v \in N.user : u.call = v.call /\ u.at = v.at => u = v
    /\ \A c, d \in Circuits : Linked(N, c) /\ Linked(N, d) /\ c[2] = d[2] => c = d
    /\ \A c \in Circuits : CircuitOK(n, N, c)
    /\ N.node[n] = Cardinality(Users(N, Local))
    /\ \A x \in Nodes \ {n} : N.node[x] > 0 => \E c \in Circuits : N.circuit[c].hnode[x] > 0

(***************************************************************************)
(* What is on its way from m to n, on m's circuit p and n's circuit c.     *)
(***************************************************************************)
\* A line that m may send to n.
FromSide(n, m, L) ==
    /\ L.kind \in {"join", "leave"} => L.node \in Behind(n, m)
    /\ L.kind \in {"link", "unlink"} => L.call \in Behind(n, m) \ {m}

\* L is of this kind and about this user or node.
Says(L, kind, call, x) == L.kind = kind /\ L.node = x /\ L.call = call

\* What n (R) knows by circuit c is known to m (N), or m has sent that it no longer is; and
\* before an unlink m has sent that every user of that node has left.
Way(n, R, c, m, N, p) ==
    LET C == N.circuit[p]  w == C.tx IN
    /\ \A k \in DOMAIN w : FromSide(n, m, w[k])
    /\ C.session = "open" /\ C.rtcflags # "linked" =>
          Users(R, c) = {} /\ \A k \in DOMAIN w : w[k].kind # "join"
    /\ C.session = "open" => \A call \in Calls, x \in Nodes :
          /\ (\E u \in Users(R, c) : u.call = call /\ u.at = x) =>
                user_find(N, call, x) \/ \E j \in DOMAIN w : Says(w[j], "leave", call, x)
          /\ \A k \in DOMAIN w : Says(w[k], "join", call, x) =>
                \/ user_find(N, call, x)
                \/ \E j \in DOMAIN w : j > k /\ Says(w[j], "leave", call, x)
    /\ \A k \in DOMAIN w : w[k].kind = "unlink" => \A call \in Calls :
          /\ (\E u \in Users(R, c) : u.call = call /\ u.at = w[k].call) =>
                \E j \in DOMAIN w : j < k /\ Says(w[j], "leave", call, w[k].call)
          /\ \A i \in DOMAIN w : i < k /\ Says(w[i], "join", call, w[k].call) =>
                \E j \in DOMAIN w : i < j /\ j < k /\ Says(w[j], "leave", call, w[k].call)

\* The other end of a session that is being called for is not taken, and what is on
\* its way to n is right.
Between(ch, n, c) ==
    LET m == c[2]  p == PeerOf(n, c) IN
    /\ ch[n].circuit[c].session = "calling" => ch[m].circuit[p].session = "free"
    /\ Way(n, ch[n], c, m, ch[m], p)

\* The nodes of a network are as they should be.
Fine(ch) == /\ DOMAIN ch = Nodes
            /\ \A n \in Nodes : NodeOK(n, ch[n])
            /\ \A n \in Nodes, c \in Circuits : Between(ch, n, c)

\* What is left of the bounds that the proof is about.
LeftOK(l) == /\ "quick" \in DOMAIN l /\ l.quick = 0
             /\ "says" \in DOMAIN l /\ l.says \in Seq(Sayings)

\* What holds in a network without loops.
TreeInv == Fine(chat) /\ LeftOK(left)

\* The inductive invariant.
IInv == net \in Networks /\ (Exact => TreeInv)
\* What is between two neighbours of a tree.
LEMMA CutIs ==
    ASSUME net \in Networks, net.tree, NEW n, NEW m, Adjacent(n, m)
    PROVE  /\ n \in Nodes /\ m \in Nodes /\ n # m
           /\ \E S \in SUBSET Nodes : Cut(net.links, n, m, S)
<1>1. /\ net.links \in SUBSET (Nodes \X Nodes)
      /\ \A l \in net.links : \E S \in SUBSET Nodes : Cut(net.links, l[1], l[2], S)
  BY NetworkAssumption
<1> DEFINE links == net.links
<1> HIDE DEF links
<1>2. CASE << n, m >> \in links
  <2>1. n \in Nodes /\ m \in Nodes
    BY <1>1, <1>2 DEF links
  <2>2. \E S \in SUBSET Nodes : Cut(links, n, m, S)
    BY <1>1, <1>2 DEF links
  <2> QED BY <2>1, <2>2 DEF Cut, links
<1>3. CASE << m, n >> \in links
  <2>1. n \in Nodes /\ m \in Nodes
    BY <1>1, <1>3 DEF links
  <2>2. PICK S \in SUBSET Nodes : Cut(links, m, n, S)
    BY <1>1, <1>3 DEF links
  <2>3. \A k \in links : k[1] \in Nodes /\ k[2] \in Nodes
    BY <1>1 DEF links
  <2> DEFINE R == Nodes \ S
  <2>4. m \in R /\ n \notin R /\ n # m
    BY <2>1, <2>2 DEF Cut
  <2>5. \A k \in links : (k[1] \in R <=> k[2] \in R) \/ {k[1], k[2]} = {n, m}
    BY <2>2, <2>3 DEF Cut
  <2> HIDE DEF R
  <2>6. Cut(links, n, m, R)
    BY <2>4, <2>5 DEF Cut
  <2> QED BY <2>1, <2>4, <2>6 DEF links, R
<1> QED BY <1>2, <1>3 DEF Adjacent, links

\* A link joins the same two nodes from either end.
LEMMA AdjacentBack ==
    ASSUME NEW n, NEW m, Adjacent(n, m)
    PROVE  Adjacent(m, n)
  BY DEF Adjacent

\* The neighbours of n are behind themselves, and n is not behind them.
LEMMA BehindIs ==
    ASSUME net \in Networks, net.tree, NEW n, NEW m, Adjacent(n, m)
    PROVE  m \in Behind(n, m) /\ n \notin Behind(n, m)
<1>1. m \in Nodes
  BY CutIs
<1>2. PICK S \in SUBSET Nodes : Cut(net.links, n, m, S)
  BY CutIs
<1>3. n \notin Behind(n, m)
  BY <1>2 DEF Behind, Cut
<1>4. m \in Behind(n, m)
  BY <1>1 DEF Behind, Cut
<1> QED BY <1>3, <1>4

\* A link from n is no link from another of its neighbours.
LEMMA CutOther ==
    ASSUME net \in Networks, net.tree, NEW n, NEW m, NEW p, Adjacent(n, m), Adjacent(n, p), m # p,
           NEW S, Cut(net.links, n, m, S)
    PROVE  p \notin S
<1>1. n # m /\ n # p
  BY CutIs
<1>2. {n, p} # {n, m} /\ {p, n} # {n, m}
  BY <1>1
<1>3. \A k \in net.links : (k[1] \in S <=> k[2] \in S) \/ {k[1], k[2]} = {n, m}
  BY DEF Cut
<1>4. n \notin S
  BY DEF Cut
<1>5. CASE << n, p >> \in net.links
  <2>1. (n \in S <=> p \in S) \/ {n, p} = {n, m}
    BY <1>3, <1>5
  <2> QED BY <1>2, <1>4, <2>1
<1>6. CASE << p, n >> \in net.links
  <2>1. (p \in S <=> n \in S) \/ {p, n} = {n, m}
    BY <1>3, <1>6
  <2> QED BY <1>2, <1>4, <2>1
<1> QED BY <1>5, <1>6 DEF Adjacent

\* No node is behind two neighbours.
LEMMA BehindOne ==
    ASSUME net \in Networks, net.tree, NEW n, NEW m, NEW p, Adjacent(n, m), Adjacent(n, p), m # p,
           NEW x \in Behind(n, m)
    PROVE  x \notin Behind(n, p)
<1>1. PICK S \in SUBSET Nodes : Cut(net.links, n, m, S)
  BY CutIs
<1>2. PICK T \in SUBSET Nodes : Cut(net.links, n, p, T)
  BY CutIs
<1>3. m \notin T /\ p \notin S
  BY <1>1, <1>2, CutOther
<1> DEFINE R == S \ T
<1>4. \A k \in net.links : (k[1] \in R <=> k[2] \in R) \/ {k[1], k[2]} = {n, m}
  <2> SUFFICES ASSUME NEW k \in net.links, {k[1], k[2]} # {n, m}
               PROVE  k[1] \in R <=> k[2] \in R
    OBVIOUS
  <2>1. k[1] \in S <=> k[2] \in S
    BY <1>1 DEF Cut
  <2>2. CASE {k[1], k[2]} = {n, p}
    <3>1. n \notin S
      BY <1>1 DEF Cut
    <3>2. k[1] \in {n, p} /\ k[2] \in {n, p}
      BY <2>2
    <3> QED BY <1>3, <3>1, <3>2
  <2>3. CASE {k[1], k[2]} # {n, p}
    <3>1. k[1] \in T <=> k[2] \in T
      BY <1>2, <2>3 DEF Cut
    <3> QED BY <2>1, <3>1
  <2> QED BY <2>2, <2>3
<1>5. R \in SUBSET Nodes /\ m \in R /\ n \notin R
  BY <1>1, <1>3 DEF Cut
<1> HIDE DEF R
<1>6. x \in R
  BY <1>4, <1>5 DEF Cut, Behind
<1> QED BY <1>2, <1>6 DEF R, Behind

\* What is behind p for n is on n's side for another neighbour.
LEMMA BehindThrough ==
    ASSUME net \in Networks, net.tree, NEW n, NEW m, NEW p, Adjacent(n, m), Adjacent(n, p), m # p
    PROVE  Behind(n, p) \subseteq Behind(m, n) \ {n}
<1>1. PICK S \in SUBSET Nodes : Cut(net.links, n, p, S)
  BY CutIs
<1>2. ASSUME NEW x \in Behind(n, p), NEW T \in SUBSET Nodes, Cut(net.links, m, n, T)
      PROVE  x \in T
  <2> DEFINE R == S \cap T
  <2>1. n # m /\ n # p
    BY CutIs
  <2>2. n \in T /\ m \notin S
    <3>1. m \notin S
      BY <1>1, CutOther
    <3> QED BY <1>2, <3>1 DEF Cut
  <2>3. p \in T
    <3>1. {n, p} # {m, n} /\ {p, n} # {m, n}
      BY <2>1
    <3>2. \A k \in net.links : (k[1] \in T <=> k[2] \in T) \/ {k[1], k[2]} = {m, n}
      BY <1>2 DEF Cut
    <3>3. CASE << n, p >> \in net.links
      <4>1. (n \in T <=> p \in T) \/ {n, p} = {m, n}
        BY <3>2, <3>3
      <4> QED BY <2>2, <3>1, <4>1
    <3>4. CASE << p, n >> \in net.links
      <4>1. (p \in T <=> n \in T) \/ {p, n} = {m, n}
        BY <3>2, <3>4
      <4> QED BY <2>2, <3>1, <4>1
    <3> QED BY <3>3, <3>4 DEF Adjacent
  <2>4. \A k \in net.links : (k[1] \in R <=> k[2] \in R) \/ {k[1], k[2]} = {n, p}
    <3> SUFFICES ASSUME NEW k \in net.links, {k[1], k[2]} # {n, p}
                 PROVE  k[1] \in R <=> k[2] \in R
      OBVIOUS
    <3>1. k[1] \in S <=> k[2] \in S
      BY <1>1 DEF Cut
    <3>2. CASE {k[1], k[2]} = {m, n}
      <4>1. n \notin S
        BY <1>1 DEF Cut
      <4>2. k[1] \in {m, n} /\ k[2] \in {m, n}
        BY <3>2
      <4> QED BY <2>2, <4>1, <4>2
    <3>3. CASE {k[1], k[2]} # {m, n}
      <4>1. k[1] \in T <=> k[2] \in T
        BY <1>2, <3>3 DEF Cut
      <4> QED BY <3>1, <4>1
    <3> QED BY <3>2, <3>3
  <2>5. R \in SUBSET Nodes /\ p \in R /\ n \notin R
    BY <1>1, <2>3 DEF Cut
  <2> HIDE DEF R
  <2>6. x \in R
    BY <2>4, <2>5 DEF Cut, Behind
  <2> QED BY <2>6 DEF R
<1>3. n \notin Behind(n, p)
  BY BehindIs
<1> QED BY <1>2, <1>3 DEF Behind

\* Nothing is on both sides of a link.
LEMMA BehindBack ==
    ASSUME net \in Networks, net.tree, NEW n, NEW m, Adjacent(n, m), NEW x \in Behind(n, m)
    PROVE  x \notin Behind(m, n)
<1>1. PICK S \in SUBSET Nodes : Cut(net.links, n, m, S)
  BY CutIs
<1>2. PICK T \in SUBSET Nodes : Cut(net.links, m, n, T)
  BY CutIs, AdjacentBack
<1> DEFINE R == S \ T
<1>3. \A k \in net.links : (k[1] \in R <=> k[2] \in R) \/ {k[1], k[2]} = {n, m}
  <2> SUFFICES ASSUME NEW k \in net.links, {k[1], k[2]} # {n, m}
               PROVE  k[1] \in R <=> k[2] \in R
    OBVIOUS
  <2>1. {k[1], k[2]} # {m, n}
    OBVIOUS
  <2>2. (k[1] \in S <=> k[2] \in S) /\ (k[1] \in T <=> k[2] \in T)
    BY <1>1, <1>2, <2>1 DEF Cut
  <2> QED BY <2>2
<1>4. R \in SUBSET Nodes /\ m \in R /\ n \notin R
  BY <1>1, <1>2 DEF Cut
<1> HIDE DEF R
<1>5. x \in R
  BY <1>3, <1>4 DEF Cut, Behind
<1> QED BY <1>2, <1>5 DEF R, Behind

(***************************************************************************)
(* Sequences.                                                              *)
(***************************************************************************)
\* What is in a sequence.
LEMMA SeqIs ==
    ASSUME NEW T, NEW s \in Seq(T)
    PROVE  Len(s) \in Nat /\ DOMAIN s = 1..Len(s) /\ \A i \in DOMAIN s : s[i] \in T
  OBVIOUS

\* A function on 1..n is a sequence.
LEMMA MapIsSeq ==
    ASSUME NEW T, NEW n \in Nat, NEW f \in [1..n -> T]
    PROVE  f \in Seq(T) /\ Len(f) = n /\ DOMAIN f = 1..n
  OBVIOUS

\* One sequence behind another.
LEMMA ConcatIs ==
    ASSUME NEW T, NEW s \in Seq(T), NEW t \in Seq(T)
    PROVE  /\ s \o t \in Seq(T) /\ Len(s \o t) = Len(s) + Len(t)
           /\ Len(s) \in Nat /\ Len(t) \in Nat
           /\ DOMAIN s = 1..Len(s) /\ DOMAIN t = 1..Len(t)
           /\ DOMAIN (s \o t) = 1..(Len(s) + Len(t))
           /\ \A i \in 1..Len(s) : (s \o t)[i] = s[i]
           /\ \A i \in 1..Len(t) : (s \o t)[Len(s) + i] = t[i]
  OBVIOUS

\* Nothing behind a sequence.
LEMMA ConcatNone ==
    ASSUME NEW T, NEW s \in Seq(T)
    PROVE  s \o << >> = s /\ << >> \in Seq(T) /\ DOMAIN << >> = {} /\ Len(<< >>) = 0
  OBVIOUS

\* One element behind it.
LEMMA OneIs ==
    ASSUME NEW T, NEW x \in T
    PROVE  /\ << x >> \in Seq(T) /\ Len(<< x >>) = 1 /\ DOMAIN << x >> = {1} /\ << x >>[1] = x
           /\ << x >> # << >>
<1>1. << x >> \in Seq(T) /\ Len(<< x >>) = 1 /\ << x >>[1] = x
  OBVIOUS
<1>2. DOMAIN << x >> = {1}
  BY <1>1
<1> QED BY <1>1, <1>2

\* The first element of a sequence and what is behind it.
LEMMA TailIs ==
    ASSUME NEW T, NEW w \in Seq(T), w # << >>
    PROVE  /\ Tail(w) \in Seq(T) /\ Len(Tail(w)) = Len(w) - 1 /\ Len(w) \in Nat /\ Len(w) >= 1
           /\ DOMAIN w = 1..Len(w) /\ DOMAIN Tail(w) = 1..(Len(w) - 1)
           /\ Head(w) = w[1] /\ w[1] \in T
           /\ \A i \in 1..(Len(w) - 1) : Tail(w)[i] = w[i + 1]
  OBVIOUS

\* The elements of a finite set in a sequence.
LEMMA SetToSeqIs ==
    ASSUME NEW S, IsFiniteSet(S)
    PROVE  /\ SetToSeq(S) \in Seq(S)
           /\ \A x \in S : \E i \in DOMAIN SetToSeq(S) : SetToSeq(S)[i] = x
<1> DEFINE n == Cardinality(S)
           f == SetToSeq(S)
<1>1. n \in Nat /\ ExistsBijection(1..n, S)
  BY FS_CardinalityType
<1> HIDE DEF n
<1>2. PICK g \in [1..n -> S] : IsInjective(g)
  BY <1>1 DEF ExistsBijection, Bijection, Injection
<1>3. f = CHOOSE h \in [1..n -> S] : IsInjective(h)
  BY DEF SetToSeq, n
<1> HIDE DEF f
<1>4. f \in [1..n -> S] /\ IsInjective(f)
  BY <1>2, <1>3
<1>5. f \in Injection(1..n, S)
  BY <1>4 DEF Injection
<1>6. Cardinality(1..n) = n
  BY <1>1, FS_Interval
<1>7. f \in Surjection(1..n, S)
  BY <1>5, <1>6, FS_Injection DEF n
<1>8. \A x \in S : \E i \in 1..n : f[i] = x
  BY <1>7 DEF Surjection
<1> QED BY <1>1, <1>4, <1>8, MapIsSeq DEF f

\* A set of what a finite set is mapped to is finite.
LEMMA ImageIsFinite ==
    ASSUME NEW S, IsFiniteSet(S), NEW f, DOMAIN f = S
    PROVE  IsFiniteSet({f[x] : x \in S})
<1> DEFINE T == {f[x] : x \in S}
           g == [x \in S |-> f[x]]
<1>1. g \in Surjection(S, T)
  BY DEF Surjection
<1> HIDE DEF g, T
<1>2. IsFiniteSet(T)
  BY <1>1, FS_Surjection
<1> QED BY <1>2 DEF T

(***************************************************************************)
(* What is on its way.                                                     *)
(***************************************************************************)
\* n, which was N and is M, sends s to the node at the other end of p.
Sends(n, N, M, p, s) ==
    /\ M.circuit[p].tx = N.circuit[p].tx \o s
    /\ s # << >> => N.circuit[p].session = "open"
    /\ \A k \in DOMAIN s : FromSide(p[2], n, s[k])
    /\ M.circuit[p].session = "open" => N.circuit[p].session = "open"
    /\ M.circuit[p].session = "open" /\ ~Linked(M, p) =>
          ~Linked(N, p) /\ \A k \in DOMAIN s : s[k].kind # "join"
    /\ M.circuit[p].session = "open" => \A call \in Calls, x \in Behind(p[2], n) :
          /\ Linked(N, p) /\ user_find(N, call, x) =>
                user_find(M, call, x) \/ \E j \in DOMAIN s : Says(s[j], "leave", call, x)
          /\ \A k \in DOMAIN s : Says(s[k], "join", call, x) => user_find(M, call, x)
    /\ \A k \in DOMAIN s : s[k].kind = "unlink" =>
          /\ Linked(N, p)
          /\ \A j \in DOMAIN s : s[j].kind # "join"
          /\ \A call \in Calls : user_find(N, call, s[k].call) =>
                \E j \in DOMAIN s : j < k /\ Says(s[j], "leave", call, s[k].call)

\* n, which was N and is M, has sent on circuit p what the other end must know of that.
Tells(n, N, M, p) == \E s \in Seq(Lines) : Sends(n, N, M, p, s)

\* What n sends to r goes with what was on its way to r.
LEMMA WayTells ==
    ASSUME NEW r, NEW R, NEW c, NEW n, NEW N, NEW M, NEW p \in Circuits, p[2] = r,
           Way(r, R, c, n, N, p), Tells(n, N, M, p), N.circuit[p].tx \in Seq(Lines),
           \A u \in Users(R, c) : u.at \in Behind(r, n)
    PROVE  Way(r, R, c, n, M, p)
<1> DEFINE w == N.circuit[p].tx
           w2 == M.circuit[p].tx
           ses == N.circuit[p].session
           ses2 == M.circuit[p].session
           Out(call, x) == \E u \in Users(R, c) : u.call = call /\ u.at = x
           n1 == Len(w)
<1>1. PICK s \in Seq(Lines) : Sends(n, N, M, p, s)
  BY DEF Tells
<1> DEFINE n2 == Len(s)
<1>2. /\ w \in Seq(Lines) /\ w2 = w \o s /\ n1 \in Nat /\ n2 \in Nat
      /\ DOMAIN w = 1..n1 /\ DOMAIN s = 1..n2 /\ DOMAIN w2 = 1..(n1 + n2)
      /\ \A i \in 1..n1 : w2[i] = w[i]
      /\ \A i \in 1..n2 : w2[n1 + i] = s[i]
  <2>1. w2 = w \o s
    BY <1>1 DEF Sends
  <2> HIDE DEF w, w2
  <2>2. w \in Seq(Lines)
    BY DEF w
  <2> QED BY <2>1, <2>2, ConcatIs
<1>3. /\ s # << >> => ses = "open"
      /\ \A k \in DOMAIN s : FromSide(r, n, s[k])
      /\ ses2 = "open" => ses = "open"
      /\ ses2 = "open" /\ ~Linked(M, p) =>
            ~Linked(N, p) /\ \A k \in DOMAIN s : s[k].kind # "join"
      /\ ses2 = "open" => \A call \in Calls, x \in Behind(r, n) :
            /\ Linked(N, p) /\ user_find(N, call, x) =>
                  user_find(M, call, x) \/ \E j \in DOMAIN s : Says(s[j], "leave", call, x)
            /\ \A k \in DOMAIN s : Says(s[k], "join", call, x) => user_find(M, call, x)
      /\ \A k \in DOMAIN s : s[k].kind = "unlink" =>
            /\ Linked(N, p)
            /\ \A j \in DOMAIN s : s[j].kind # "join"
            /\ \A call \in Calls : user_find(N, call, s[k].call) =>
                  \E j \in DOMAIN s : j < k /\ Says(s[j], "leave", call, s[k].call)
  BY <1>1 DEF Sends
<1>4. /\ \A k \in DOMAIN w : FromSide(r, n, w[k])
      /\ ses = "open" /\ ~Linked(N, p) =>
            Users(R, c) = {} /\ \A k \in DOMAIN w : w[k].kind # "join"
      /\ ses = "open" => \A call \in Calls, x \in Nodes :
            /\ Out(call, x) => user_find(N, call, x) \/ \E j \in DOMAIN w : Says(w[j], "leave", call, x)
            /\ \A k \in DOMAIN w : Says(w[k], "join", call, x) =>
                  user_find(N, call, x) \/ \E j \in DOMAIN w : j > k /\ Says(w[j], "leave", call, x)
      /\ \A k \in DOMAIN w : w[k].kind = "unlink" => \A call \in Calls :
            /\ Out(call, w[k].call) => \E j \in DOMAIN w : j < k /\ Says(w[j], "leave", call, w[k].call)
            /\ \A i \in DOMAIN w : i < k /\ Says(w[i], "join", call, w[k].call) =>
                  \E j \in DOMAIN w : i < j /\ j < k /\ Says(w[j], "leave", call, w[k].call)
  BY DEF Way, Linked
<1>5. \A call, x : Out(call, x) => x \in Behind(r, n) /\ Users(R, c) # {}
  OBVIOUS
<1> HIDE DEF w, w2, ses, ses2, Out, n1, n2
<1>6. \A k \in 1..n2 : n1 + k \in DOMAIN w2 /\ n1 + k \notin 1..n1
  BY <1>2
<1>7. \A k \in DOMAIN w2 : k \in 1..n1 \/ (k - n1 \in 1..n2 /\ w2[k] = s[k - n1])
  <2> SUFFICES ASSUME NEW k \in DOMAIN w2, k \notin 1..n1
               PROVE  k - n1 \in 1..n2 /\ w2[k] = s[k - n1]
    OBVIOUS
  <2>1. k - n1 \in 1..n2 /\ n1 + (k - n1) = k
    BY <1>2
  <2> QED BY <1>2, <2>1
<1>8. \A k \in 1..n1 : k \in DOMAIN w2
  BY <1>2
<1>9. ASSUME NEW k \in DOMAIN w2
      PROVE  FromSide(r, n, w2[k])
  BY <1>2, <1>3, <1>4, <1>7, <1>9
<1>10. ASSUME ses2 = "open", ~Linked(M, p)
       PROVE  Users(R, c) = {} /\ \A k \in DOMAIN w2 : w2[k].kind # "join"
  BY <1>2, <1>3, <1>4, <1>7, <1>10
<1>11. ASSUME ses2 = "open", NEW call \in Calls, NEW x \in Nodes
       PROVE  /\ Out(call, x) =>
                    user_find(M, call, x) \/ \E j \in DOMAIN w2 : Says(w2[j], "leave", call, x)
              /\ \A k \in DOMAIN w2 : Says(w2[k], "join", call, x) =>
                    user_find(M, call, x) \/ \E j \in DOMAIN w2 : j > k /\ Says(w2[j], "leave", call, x)
  <2>0. ses = "open"
    BY <1>3, <1>11
  <2>1. ASSUME x \in Behind(r, n), Linked(N, p), user_find(N, call, x), ~user_find(M, call, x)
        PROVE  \E j \in DOMAIN w2 : j \notin 1..n1 /\ Says(w2[j], "leave", call, x)
    <3>1. PICK j \in DOMAIN s : Says(s[j], "leave", call, x)
      BY <1>3, <1>11, <2>1
    <3>2. n1 + j \in DOMAIN w2 /\ n1 + j \notin 1..n1 /\ w2[n1 + j] = s[j]
      BY <1>2, <1>6
    <3> QED BY <3>1, <3>2
  <2>2. ASSUME Out(call, x), ~user_find(M, call, x)
        PROVE  \E j \in DOMAIN w2 : Says(w2[j], "leave", call, x)
    <3>1. x \in Behind(r, n) /\ Linked(N, p)
      BY <1>4, <1>5, <2>0, <2>2
    <3>2. CASE user_find(N, call, x)
      BY <2>1, <2>2, <3>1, <3>2
    <3>3. CASE \E j \in DOMAIN w : Says(w[j], "leave", call, x)
      BY <1>2, <1>8, <3>3
    <3> QED BY <1>4, <2>0, <2>2, <3>2, <3>3
  <2>3. ASSUME NEW k \in DOMAIN w2, Says(w2[k], "join", call, x), ~user_find(M, call, x)
        PROVE  \E j \in DOMAIN w2 : j > k /\ Says(w2[j], "leave", call, x)
    <3>1. x \in Behind(r, n)
      BY <1>9, <2>3 DEF Says, FromSide
    <3>2. CASE k \in 1..n1
      <4>1. Says(w[k], "join", call, x) /\ k \in DOMAIN w
        BY <1>2, <2>3, <3>2
      <4>2. Linked(N, p)
        BY <1>4, <2>0, <4>1 DEF Says
      <4>3. CASE user_find(N, call, x)
        <5>1. PICK j \in DOMAIN w2 : j \notin 1..n1 /\ Says(w2[j], "leave", call, x)
          BY <2>1, <2>3, <3>1, <4>2, <4>3
        <5>2. j > k
          BY <1>2, <3>2, <5>1
        <5> QED BY <5>1, <5>2
      <4>4. CASE \E j \in DOMAIN w : j > k /\ Says(w[j], "leave", call, x)
        BY <1>2, <1>8, <4>4
      <4> QED BY <1>4, <2>0, <4>1, <4>3, <4>4
    <3>3. CASE k \notin 1..n1
      <4>1. k - n1 \in DOMAIN s /\ Says(s[k - n1], "join", call, x)
        BY <1>2, <1>7, <2>3, <3>3
      <4> QED BY <1>3, <1>11, <2>3, <3>1, <4>1
    <3> QED BY <3>2, <3>3
  <2> QED BY <2>2, <2>3
<1>12. ASSUME NEW k \in DOMAIN w2, w2[k].kind = "unlink", NEW call \in Calls
       PROVE  /\ Out(call, w2[k].call) =>
                    \E j \in DOMAIN w2 : j < k /\ Says(w2[j], "leave", call, w2[k].call)
              /\ \A i \in DOMAIN w2 : i < k /\ Says(w2[i], "join", call, w2[k].call) =>
                    \E j \in DOMAIN w2 : i < j /\ j < k /\ Says(w2[j], "leave", call, w2[k].call)
  <2> DEFINE x == w2[k].call
  <2>1. CASE k \in 1..n1
    <3>1. w[k] = w2[k] /\ k \in DOMAIN w
      BY <1>2, <2>1
    <3>2. ASSUME Out(call, x)
          PROVE  \E j \in DOMAIN w2 : j < k /\ Says(w2[j], "leave", call, x)
      <4>1. PICK j \in DOMAIN w : j < k /\ Says(w[j], "leave", call, x)
        BY <1>4, <1>12, <3>1, <3>2
      <4> QED BY <1>2, <1>8, <4>1
    <3>3. ASSUME NEW i \in DOMAIN w2, i < k, Says(w2[i], "join", call, x)
          PROVE  \E j \in DOMAIN w2 : i < j /\ j < k /\ Says(w2[j], "leave", call, x)
      <4>1. i \in DOMAIN w /\ w2[i] = w[i]
        BY <1>2, <2>1, <3>3
      <4>2. PICK j \in DOMAIN w : i < j /\ j < k /\ Says(w[j], "leave", call, x)
        BY <1>4, <1>12, <3>1, <3>3, <4>1
      <4> QED BY <1>2, <1>8, <4>2
    <3> QED BY <3>2, <3>3
  <2>2. CASE k \notin 1..n1
    <3>1. k - n1 \in DOMAIN s /\ w2[k] = s[k - n1]
      BY <1>2, <1>7, <2>2
    <3>2. /\ Linked(N, p) /\ s # << >> /\ \A j \in DOMAIN s : s[j].kind # "join"
          /\ user_find(N, call, x) => \E j \in DOMAIN s : j < k - n1 /\ Says(s[j], "leave", call, x)
      <4>1. s[k - n1].kind = "unlink" /\ s[k - n1].call = x
        BY <1>12, <3>1
      <4> QED BY <1>2, <1>3, <3>1, <4>1
    <3>3. ses = "open" /\ x \in Nodes
      <4>1. s[k - n1] \in Lines /\ FromSide(r, n, s[k - n1])
        BY <1>3, <3>1
      <4> QED BY <1>3, <1>12, <3>1, <3>2, <4>1 DEF FromSide, Behind
    <3>4. ASSUME user_find(N, call, x)
          PROVE  \E j \in DOMAIN w2 : j \notin 1..n1 /\ j < k /\ Says(w2[j], "leave", call, x)
      <4>1. PICK j \in DOMAIN s : j < k - n1 /\ Says(s[j], "leave", call, x)
        BY <3>2, <3>4
      <4>2. n1 + j \in DOMAIN w2 /\ n1 + j \notin 1..n1 /\ w2[n1 + j] = s[j]
        BY <1>2, <1>6
      <4>3. j \in Nat /\ k \in Nat /\ n1 \in Nat
        BY <1>2, <2>2
      <4>4. n1 + j < k
        BY <4>1, <4>3
      <4> QED BY <4>1, <4>2, <4>4
    <3>5. \A j \in 1..n1 : j < k
      BY <1>2, <2>2
    <3>6. ASSUME Out(call, x)
          PROVE  \E j \in DOMAIN w2 : j < k /\ Says(w2[j], "leave", call, x)
      <4>1. CASE user_find(N, call, x)
        BY <3>4, <4>1
      <4>2. CASE \E j \in DOMAIN w : Says(w[j], "leave", call, x)
        BY <1>2, <1>8, <3>5, <4>2
      <4> QED BY <1>4, <3>3, <3>6, <4>1, <4>2
    <3>7. ASSUME NEW i \in DOMAIN w2, i < k, Says(w2[i], "join", call, x)
          PROVE  \E j \in DOMAIN w2 : i < j /\ j < k /\ Says(w2[j], "leave", call, x)
      <4>1. i \in 1..n1
        BY <1>2, <1>7, <3>2, <3>7 DEF Says
      <4>2. Says(w[i], "join", call, x) /\ i \in DOMAIN w
        BY <1>2, <3>7, <4>1
      <4>3. CASE user_find(N, call, x)
        <5>1. PICK j \in DOMAIN w2 : j \notin 1..n1 /\ j < k /\ Says(w2[j], "leave", call, x)
          BY <3>4, <4>3
        <5>2. i < j
          BY <1>2, <4>1, <5>1
        <5> QED BY <5>1, <5>2
      <4>4. CASE \E j \in DOMAIN w : j > i /\ Says(w[j], "leave", call, x)
        <5>1. PICK j \in DOMAIN w : j > i /\ Says(w[j], "leave", call, x)
          BY <4>4
        <5>2. j < k /\ j \in DOMAIN w2 /\ w2[j] = w[j] /\ i < j
          BY <1>2, <1>8, <3>5, <5>1
        <5> QED BY <5>1, <5>2
      <4> QED BY <1>4, <3>3, <4>2, <4>3, <4>4
    <3> QED BY <3>6, <3>7
  <2> QED BY <2>1, <2>2
<1> QED BY <1>9, <1>10, <1>11, <1>12 DEF Way, Linked, w2, ses2, Out

\* The users that R2 reaches by c are some of those that R reached by it.
Fewer(R, R2, c) == \A u \in Users(R2, c) : \E v \in Users(R, c) : v.call = u.call /\ v.at = u.at

\* Nobody is known by c but those who were.
LEMMA WayFewer ==
    ASSUME NEW r, NEW R, NEW R2, NEW c, NEW n, NEW N, NEW p, Way(r, R, c, n, N, p), Fewer(R, R2, c)
    PROVE  Way(r, R2, c, n, N, p)
<1> DEFINE w == N.circuit[p].tx
           Out(call, x) == \E u \in Users(R, c) : u.call = call /\ u.at = x
           Out2(call, x) == \E u \in Users(R2, c) : u.call = call /\ u.at = x
<1>1. /\ \A call, x : Out2(call, x) => Out(call, x)
      /\ Users(R, c) = {} => Users(R2, c) = {}
  BY DEF Fewer
<1>2. /\ \A k \in DOMAIN w : FromSide(r, n, w[k])
      /\ N.circuit[p].session = "open" /\ N.circuit[p].rtcflags # "linked" =>
            Users(R, c) = {} /\ \A k \in DOMAIN w : w[k].kind # "join"
      /\ N.circuit[p].session = "open" => \A call \in Calls, x \in Nodes :
            /\ Out(call, x) => user_find(N, call, x) \/ \E j \in DOMAIN w : Says(w[j], "leave", call, x)
            /\ \A k \in DOMAIN w : Says(w[k], "join", call, x) =>
                  user_find(N, call, x) \/ \E j \in DOMAIN w : j > k /\ Says(w[j], "leave", call, x)
      /\ \A k \in DOMAIN w : w[k].kind = "unlink" => \A call \in Calls :
            /\ Out(call, w[k].call) => \E j \in DOMAIN w : j < k /\ Says(w[j], "leave", call, w[k].call)
            /\ \A i \in DOMAIN w : i < k /\ Says(w[i], "join", call, w[k].call) =>
                  \E j \in DOMAIN w : i < j /\ j < k /\ Says(w[j], "leave", call, w[k].call)
  BY DEF Way
<1> HIDE DEF w, Out, Out2
<1>3. /\ N.circuit[p].session = "open" /\ N.circuit[p].rtcflags # "linked" =>
            Users(R2, c) = {} /\ \A k \in DOMAIN w : w[k].kind # "join"
      /\ N.circuit[p].session = "open" => \A call \in Calls, x \in Nodes :
            /\ Out2(call, x) => user_find(N, call, x) \/ \E j \in DOMAIN w : Says(w[j], "leave", call, x)
            /\ \A k \in DOMAIN w : Says(w[k], "join", call, x) =>
                  user_find(N, call, x) \/ \E j \in DOMAIN w : j > k /\ Says(w[j], "leave", call, x)
      /\ \A k \in DOMAIN w : w[k].kind = "unlink" => \A call \in Calls :
            /\ Out2(call, w[k].call) => \E j \in DOMAIN w : j < k /\ Says(w[j], "leave", call, w[k].call)
            /\ \A i \in DOMAIN w : i < k /\ Says(w[i], "join", call, w[k].call) =>
                  \E j \in DOMAIN w : i < j /\ j < k /\ Says(w[j], "leave", call, w[k].call)
  BY <1>1, <1>2
<1> QED BY <1>2, <1>3 DEF Way, w, Out2

\* R has made R2 of the line L that came by c.
Hears(R, R2, c, L) ==
    \A u \in Users(R2, c) :
       \/ Says(L, "join", u.call, u.at)
       \/ /\ \E v \in Users(R, c) : v.call = u.call /\ v.at = u.at
          /\ ~Says(L, "leave", u.call, u.at)

\* The first line on its way is heard.
LEMMA WayHears ==
    ASSUME NEW r, NEW R, NEW R2, NEW c, NEW n, NEW N, NEW M, NEW p,
           Way(r, R, c, n, N, p), N.circuit[p].tx \in Seq(Lines), N.circuit[p].tx # << >>,
           Hears(R, R2, c, Head(N.circuit[p].tx)),
           \A u \in Users(R2, c) : u.call \in Calls /\ u.at \in Nodes,
           M.user = N.user, M.circuit[p].session = N.circuit[p].session,
           M.circuit[p].rtcflags = N.circuit[p].rtcflags,
           M.circuit[p].tx = Tail(N.circuit[p].tx)
    PROVE  Way(r, R2, c, n, M, p)
<1> DEFINE w == N.circuit[p].tx
           w2 == M.circuit[p].tx
           ses == N.circuit[p].session
           flags == N.circuit[p].rtcflags
           Out(call, x) == \E u \in Users(R, c) : u.call = call /\ u.at = x
           Out2(call, x) == \E u \in Users(R2, c) : u.call = call /\ u.at = x
           l == Len(w)
<1>1. /\ l \in Nat /\ l >= 1 /\ DOMAIN w = 1..l /\ DOMAIN w2 = 1..(l - 1)
      /\ Head(w) = w[1] /\ \A i \in 1..(l - 1) : w2[i] = w[i + 1]
  <2>1. w \in Seq(Lines) /\ w # << >> /\ w2 = Tail(w)
    OBVIOUS
  <2> HIDE DEF w, w2
  <2> QED BY <2>1, TailIs
<1>2. /\ \A k \in DOMAIN w : FromSide(r, n, w[k])
      /\ ses = "open" /\ flags # "linked" =>
            Users(R, c) = {} /\ \A k \in DOMAIN w : w[k].kind # "join"
      /\ ses = "open" => \A call \in Calls, x \in Nodes :
            /\ Out(call, x) => user_find(N, call, x) \/ \E j \in DOMAIN w : Says(w[j], "leave", call, x)
            /\ \A k \in DOMAIN w : Says(w[k], "join", call, x) =>
                  user_find(N, call, x) \/ \E j \in DOMAIN w : j > k /\ Says(w[j], "leave", call, x)
      /\ \A k \in DOMAIN w : w[k].kind = "unlink" => \A call \in Calls :
            /\ Out(call, w[k].call) => \E j \in DOMAIN w : j < k /\ Says(w[j], "leave", call, w[k].call)
            /\ \A i \in DOMAIN w : i < k /\ Says(w[i], "join", call, w[k].call) =>
                  \E j \in DOMAIN w : i < j /\ j < k /\ Says(w[j], "leave", call, w[k].call)
  BY DEF Way
<1>3. \A call, x : Out2(call, x) =>
          Says(w[1], "join", call, x) \/ (Out(call, x) /\ ~Says(w[1], "leave", call, x))
  BY <1>1 DEF Hears
<1>4. \A call, x : user_find(M, call, x) = user_find(N, call, x)
  BY DEF user_find
<1>5. Users(R2, c) = {} \/ \E call, x : Out2(call, x)
  OBVIOUS
<1>6. Users(R, c) = {} => \A call, x : ~Out(call, x)
  OBVIOUS
<1>7. M.circuit[p].session = ses /\ M.circuit[p].rtcflags = flags
  OBVIOUS
<1> HIDE DEF w, w2, ses, flags, Out, Out2, l
<1>8. \A k \in DOMAIN w2 : k \in Int /\ k + 1 \in DOMAIN w /\ w2[k] = w[k + 1] /\ k + 1 > 1
  BY <1>1
<1>9. \A k \in DOMAIN w : k = 1 \/ (k - 1 \in DOMAIN w2 /\ w2[k - 1] = w[k] /\ k \in Int)
  <2> SUFFICES ASSUME NEW k \in DOMAIN w, k # 1
               PROVE  k - 1 \in DOMAIN w2 /\ w2[k - 1] = w[k] /\ k \in Int
    OBVIOUS
  <2>1. k - 1 \in 1..(l - 1) /\ (k - 1) + 1 = k /\ k \in Int
    BY <1>1
  <2> QED BY <1>1, <2>1
<1>10. 1 \in DOMAIN w
  BY <1>1
<1>11. ASSUME ses = "open", flags # "linked"
       PROVE  Users(R2, c) = {} /\ \A k \in DOMAIN w2 : w2[k].kind # "join"
  BY <1>2, <1>3, <1>5, <1>6, <1>8, <1>10, <1>11 DEF Says
<1>12. ASSUME ses = "open", NEW call \in Calls, NEW x \in Nodes
       PROVE  /\ Out2(call, x) =>
                    user_find(M, call, x) \/ \E j \in DOMAIN w2 : Says(w2[j], "leave", call, x)
              /\ \A k \in DOMAIN w2 : Says(w2[k], "join", call, x) =>
                    user_find(M, call, x) \/ \E j \in DOMAIN w2 : j > k /\ Says(w2[j], "leave", call, x)
  <2>1. ASSUME Out2(call, x), ~user_find(M, call, x)
        PROVE  \E j \in DOMAIN w2 : Says(w2[j], "leave", call, x)
    <3>1. \E j \in DOMAIN w : j # 1 /\ Says(w[j], "leave", call, x)
      <4>1. CASE Says(w[1], "join", call, x)
        <5>1. PICK j \in DOMAIN w : j > 1 /\ Says(w[j], "leave", call, x)
          BY <1>2, <1>4, <1>10, <1>12, <2>1, <4>1
        <5>2. j # 1
          BY <4>1, <5>1 DEF Says
        <5> QED BY <5>1, <5>2
      <4>2. CASE Out(call, x) /\ ~Says(w[1], "leave", call, x)
        BY <1>2, <1>4, <1>12, <2>1, <4>2
      <4> QED BY <1>3, <2>1, <4>1, <4>2
    <3> QED BY <1>9, <3>1
  <2>2. ASSUME NEW k \in DOMAIN w2, Says(w2[k], "join", call, x), ~user_find(M, call, x)
        PROVE  \E j \in DOMAIN w2 : j > k /\ Says(w2[j], "leave", call, x)
    <3>1. k \in Int /\ k + 1 \in DOMAIN w /\ Says(w[k + 1], "join", call, x) /\ k + 1 > 1
      BY <1>8, <2>2
    <3>2. PICK j \in DOMAIN w : j > k + 1 /\ Says(w[j], "leave", call, x)
      BY <1>2, <1>4, <1>12, <2>2, <3>1
    <3>3. j # 1 /\ j \in Int
      BY <1>1, <3>1, <3>2
    <3>4. j - 1 \in DOMAIN w2 /\ w2[j - 1] = w[j] /\ j - 1 > k
      <4>1. j - 1 > k
        BY <3>1, <3>2, <3>3
      <4> QED BY <1>9, <3>3, <4>1
    <3> QED BY <3>2, <3>4
  <2> QED BY <2>1, <2>2
<1>13. ASSUME NEW k \in DOMAIN w2, w2[k].kind = "unlink", NEW call \in Calls
       PROVE  /\ Out2(call, w2[k].call) =>
                    \E j \in DOMAIN w2 : j < k /\ Says(w2[j], "leave", call, w2[k].call)
              /\ \A i \in DOMAIN w2 : i < k /\ Says(w2[i], "join", call, w2[k].call) =>
                    \E j \in DOMAIN w2 : i < j /\ j < k /\ Says(w2[j], "leave", call, w2[k].call)
  <2> DEFINE x == w2[k].call
  <2>1. k \in Int /\ k + 1 \in DOMAIN w /\ w[k + 1] = w2[k] /\ k + 1 > 1
    BY <1>8
  <2>2. /\ Out(call, x) => \E j \in DOMAIN w : j < k + 1 /\ Says(w[j], "leave", call, x)
        /\ \A i \in DOMAIN w : i < k + 1 /\ Says(w[i], "join", call, x) =>
              \E j \in DOMAIN w : i < j /\ j < k + 1 /\ Says(w[j], "leave", call, x)
    BY <1>2, <1>13, <2>1
  <2> HIDE DEF x
  <2>3. ASSUME NEW j \in DOMAIN w, j < k + 1, j # 1
        PROVE  j \in Int /\ j - 1 \in DOMAIN w2 /\ w2[j - 1] = w[j] /\ j - 1 < k
    <3>1. j \in Int
      BY <1>1
    <3>2. j - 1 < k
      BY <2>1, <2>3, <3>1
    <3> QED BY <1>9, <2>3, <3>1, <3>2
  <2>4. ASSUME Out2(call, x)
        PROVE  \E j \in DOMAIN w2 : j < k /\ Says(w2[j], "leave", call, x)
    <3>1. \E j \in DOMAIN w : j < k + 1 /\ j # 1 /\ Says(w[j], "leave", call, x)
      <4>1. CASE Says(w[1], "join", call, x)
        <5>1. PICK j \in DOMAIN w : 1 < j /\ j < k + 1 /\ Says(w[j], "leave", call, x)
          BY <1>10, <2>1, <2>2, <4>1
        <5>2. j # 1
          BY <4>1, <5>1 DEF Says
        <5> QED BY <5>1, <5>2
      <4>2. CASE Out(call, x) /\ ~Says(w[1], "leave", call, x)
        BY <2>2, <4>2
      <4> QED BY <1>3, <2>4, <4>1, <4>2
    <3> QED BY <2>3, <3>1
  <2>5. ASSUME NEW i \in DOMAIN w2, i < k, Says(w2[i], "join", call, x)
        PROVE  \E j \in DOMAIN w2 : i < j /\ j < k /\ Says(w2[j], "leave", call, x)
    <3>1. i \in Int /\ i + 1 \in DOMAIN w /\ Says(w[i + 1], "join", call, x) /\ i + 1 > 1
      BY <1>8, <2>5
    <3>2. i + 1 < k + 1
      BY <2>1, <2>5, <3>1
    <3>3. PICK j \in DOMAIN w : i + 1 < j /\ j < k + 1 /\ Says(w[j], "leave", call, x)
      BY <2>2, <3>1, <3>2
    <3>4. j # 1 /\ j \in Int
      BY <1>1, <3>1, <3>3
    <3>5. i < j - 1
      BY <3>1, <3>3, <3>4
    <3> QED BY <2>3, <3>3, <3>4, <3>5
  <2> QED BY <2>4, <2>5 DEF x
<1>14. ASSUME NEW k \in DOMAIN w2
       PROVE  FromSide(r, n, w2[k])
  BY <1>2, <1>8
<1> QED BY <1>7, <1>11, <1>12, <1>13, <1>14 DEF Way, w2, Out2

(***************************************************************************)
(* What n makes of itself.                                                 *)
(***************************************************************************)
\* The fields of a circuit.
LEMMA CircuitIs ==
    ASSUME NEW N, NodeType(N), NEW c \in Circuits
    PROVE  /\ N.circuit[c] \in CircuitRecs
           /\ N.circuit[c].tx \in Seq(Lines) /\ N.circuit[c].refcnt \in Nat
           /\ N.circuit[c].hnode \in [Nodes -> Nat]
           /\ N.circuit[c].rtcflags \in {"nil", "linkwait", "linkini", "linked"}
           /\ N.circuit[c].session \in {"free", "calling", "open", "closing", "lost", "shut"}
           /\ c[2] \in Nodes /\ c[1] \in {"out", "in"} /\ c = << c[1], c[2] >>
           /\ N.circuit \in [Circuits -> CircuitRecs]
<1>1. N.circuit[c] \in CircuitRecs /\ N.circuit \in [Circuits -> CircuitRecs]
  BY DEF NodeType
<1>2. c[2] \in Nodes /\ c[1] \in {"out", "in"} /\ c = << c[1], c[2] >>
  BY DEF Circuits
<1>3. \A C \in CircuitRecs :
         /\ C.tx \in Seq(Lines) /\ C.refcnt \in Nat /\ C.hnode \in [Nodes -> Nat]
         /\ C.rtcflags \in {"nil", "linkwait", "linkini", "linked"}
         /\ C.session \in {"free", "calling", "open", "closing", "lost", "shut"}
  BY DEF CircuitRecs
<1> QED BY <1>1, <1>2, <1>3

\* The other end of a circuit.
LEMMA PeerIs ==
    ASSUME NEW n \in Nodes, NEW c \in Circuits
    PROVE  /\ PeerOf(n, c) \in Circuits /\ PeerOf(n, c)[2] = n
           /\ PeerOf(c[2], PeerOf(n, c)) = c /\ c[2] \in Nodes
<1>1. c[2] \in Nodes /\ c[1] \in {"out", "in"} /\ c = << c[1], c[2] >>
  BY DEF Circuits
<1>2. CASE c[1] = "out"
  BY <1>1, <1>2 DEF PeerOf, Circuits
<1>3. CASE c[1] = "in"
  BY <1>1, <1>3 DEF PeerOf, Circuits
<1> QED BY <1>1, <1>2, <1>3

\* A circuit that is linked with a node is adjacent to it, and what it reaches lies
\* behind that node.
LEMMA LinkedIs ==
    ASSUME NEW n, NEW N, NodeOK(n, N), NEW c \in Circuits
    PROVE  /\ Linked(N, c) => /\ Adjacent(n, c[2]) /\ N.circuit[c].hnode[c[2]] > 0
                              /\ N.circuit[c].session \notin {"free", "shut", "calling"}
           /\ \A x \in Nodes : N.circuit[c].hnode[x] > 0 =>
                 /\ Linked(N, c) /\ x \in Behind(n, c[2]) /\ N.node[x] = N.circuit[c].hnode[x]
<1>1. CircuitOK(n, N, c)
  BY DEF NodeOK
<1>2. ASSUME NEW x \in Nodes, N.circuit[c].hnode[x] > 0
      PROVE  Linked(N, c)
  <2>1. ~Linked(N, c) => N.circuit[c].hnode[x] = 0
    BY <1>1 DEF CircuitOK, NoCircuit
  <2> QED BY <1>2, <2>1
<1> QED BY <1>1, <1>2 DEF CircuitOK, SessionOK, Linked

\* A node is reached by one circuit.
LEMMA ReachedOnce ==
    ASSUME net \in Networks, net.tree, NEW n, NEW N, NodeOK(n, N), NEW c \in Circuits,
           Linked(N, c), NEW x \in Behind(n, c[2])
    PROVE  /\ x # n
           /\ \A d \in Circuits : N.circuit[d].hnode[x] > 0 => d = c
           /\ N.node[x] = N.circuit[c].hnode[x]
<1>1. Adjacent(n, c[2]) /\ x \in Nodes
  BY LinkedIs DEF Behind
<1>2. x # n
  BY <1>1, BehindIs
<1>3. ASSUME NEW d \in Circuits, N.circuit[d].hnode[x] > 0
      PROVE  d = c
  <2>1. Linked(N, d) /\ Adjacent(n, d[2]) /\ x \in Behind(n, d[2])
    BY <1>1, <1>3, LinkedIs
  <2>2. d[2] = c[2]
    BY <1>1, <2>1, BehindOne
  <2> QED BY <2>1, <2>2 DEF NodeOK
<1>4. N.node[x] \in Nat /\ N.circuit[c].hnode[x] \in Nat
  <2>1. N.node \in [Nodes -> Nat] /\ N.circuit[c].hnode \in [Nodes -> Nat]
    BY CircuitIs DEF NodeOK, NodeType
  <2> QED BY <1>1, <2>1
<1>5. CASE N.node[x] > 0
  <2>1. PICK d \in Circuits : N.circuit[d].hnode[x] > 0
    BY <1>1, <1>2, <1>5 DEF NodeOK
  <2> QED BY <1>1, <1>2, <1>3, <2>1, LinkedIs
<1>6. CASE N.node[x] = 0
  <2>1. N.circuit[c].hnode[x] > 0 => N.node[x] = N.circuit[c].hnode[x]
    BY <1>1, LinkedIs
  <2> QED BY <1>2, <1>3, <1>4, <1>6, <2>1
<1> QED BY <1>2, <1>3, <1>4, <1>5, <1>6

\* The users of a node behind a linked circuit are reached by that circuit.
LEMMA ReachedBy ==
    ASSUME net \in Networks, net.tree, NEW n, NEW N, NodeOK(n, N), NEW c \in Circuits,
           Linked(N, c), NEW u \in N.user, u.at \in Behind(n, c[2])
    PROVE  u.via = c /\ N.circuit[c].hnode[u.at] > 0
<1>1. u.at # n /\ \A d \in Circuits : N.circuit[d].hnode[u.at] > 0 => d = c
  BY ReachedOnce
<1> QED BY <1>1 DEF NodeOK

\* What is known of a user.
LEMMA UserIs ==
    ASSUME net \in Networks, net.tree, NEW n, NEW N, NodeOK(n, N), NEW u \in N.user
    PROVE  /\ u \in UserRecs /\ u.call \in Calls /\ u.at \in Nodes /\ u.topic \in Topics
           /\ u.via \in Circuits \cup {Local}
           /\ u.via = Local => u.at = n
           /\ u.at = n => u.via = Local
           /\ u.via # Local => u.via \in Circuits /\ N.circuit[u.via].hnode[u.at] > 0
                               /\ u.at \in Behind(n, u.via[2]) /\ Linked(N, u.via)
<1>1. u \in UserRecs
  BY DEF NodeOK, NodeType
<1>2. u.call \in Calls /\ u.at \in Nodes /\ u.topic \in Topics /\ u.via \in Circuits \cup {Local}
  BY <1>1 DEF UserRecs
<1>3. \/ u.via = Local /\ u.at = n
      \/ u.via \in Circuits /\ N.circuit[u.via].hnode[u.at] > 0
  BY DEF NodeOK
<1>4. ASSUME u.via # Local
      PROVE  /\ u.via \in Circuits /\ N.circuit[u.via].hnode[u.at] > 0
             /\ u.at \in Behind(n, u.via[2]) /\ Linked(N, u.via) /\ u.at # n
  <2>1. u.via \in Circuits /\ N.circuit[u.via].hnode[u.at] > 0
    BY <1>3, <1>4
  <2>2. u.at \in Behind(n, u.via[2]) /\ Linked(N, u.via)
    BY <1>2, <2>1, LinkedIs
  <2> QED BY <2>1, <2>2, ReachedOnce
<1>5. u.via = Local => u.at = n
  BY <1>3, LocalAssumption
<1> QED BY <1>1, <1>2, <1>4, <1>5

\* Nobody is known on a node that is not on the list.
LEMMA NobodyThere ==
    ASSUME net \in Networks, net.tree, NEW n, NEW N, NodeOK(n, N), NEW x \in Nodes, N.node[x] = 0
    PROVE  /\ \A u \in N.user : u.at # x
           /\ \A c \in Circuits : N.circuit[c].hnode[x] = 0
<1>1. \A c \in Circuits : N.circuit[c].hnode[x] = 0
  <2> SUFFICES ASSUME NEW c \in Circuits PROVE N.circuit[c].hnode[x] = 0
    OBVIOUS
  <2>1. N.circuit[c].hnode[x] \in Nat
    BY CircuitIs DEF NodeOK
  <2>2. N.circuit[c].hnode[x] > 0 => N.node[x] = N.circuit[c].hnode[x]
    BY LinkedIs
  <2> QED BY <2>1, <2>2
<1>2. ASSUME NEW u \in N.user, u.at = x
      PROVE  FALSE
  <2>1. u.via # Local => u.via \in Circuits /\ N.circuit[u.via].hnode[x] > 0
    BY <1>2, UserIs
  <2>2. u.via = Local
    BY <1>1, <2>1
  <2>3. u.at = n /\ N.node[n] = Cardinality(Users(N, Local))
    BY <2>2, UserIs DEF NodeOK
  <2>4. IsFiniteSet(Users(N, Local)) /\ u \in Users(N, Local)
    <3>1. IsFiniteSet(N.user) /\ Users(N, Local) \subseteq N.user
      BY DEF NodeOK, NodeType, Users
    <3> QED BY <2>2, <3>1, FS_Subset DEF Users
  <2>5. Cardinality(Users(N, Local)) # 0
    BY <2>4, FS_EmptySet
  <2> QED BY <1>2, <2>3, <2>5
<1> QED BY <1>1, <1>2

\* The nodes that n knows by another circuit, or has users on, are behind n for m.
LEMMA KnownBehind ==
    ASSUME net \in Networks, net.tree, NEW n, NEW N, NodeOK(n, N), NEW m, Adjacent(n, m),
           NEW c \in Circuits, Linked(N, c), c[2] # m
    PROVE  /\ \A x \in Behind(n, c[2]) : x \in Behind(m, n) /\ x # n
           /\ c[2] \in Behind(m, n)
<1>1. Adjacent(n, c[2])
  BY LinkedIs
<1>2. Behind(n, c[2]) \subseteq Behind(m, n) \ {n}
  BY <1>1, BehindThrough
<1>3. c[2] \in Behind(n, c[2])
  BY <1>1, BehindIs
<1> QED BY <1>2, <1>3

\* What is sent where a line is to be sent.
Maybe(b, line) == IF b THEN << line >> ELSE << >>

\* echo sends on circuit c.
EchoedTo(N, from, x, c) ==
    Linked(N, c) /\ c # from /\ ~cn_find(N.circuit[c], x) /\ N.circuit[c].session = "open"

\* C is D but for what has been sent.
SameButTx(C, D) ==
    /\ C.rtcflags = D.rtcflags /\ C.session = D.session
    /\ C.refcnt = D.refcnt /\ C.hnode = D.hnode

\* M is N but for its circuits.
SameButCircuits(N, M) ==
    /\ M.node = N.node /\ M.user = N.user /\ M.link = N.link
    /\ M.RunningConnectScript = N.RunningConnectScript
    /\ M.DupInfo = N.DupInfo /\ M.heard = N.heard

\* Lines sent on a circuit.
LEMMA SendIs ==
    ASSUME NEW C \in CircuitRecs, NEW s \in Seq(Lines)
    PROVE  /\ Send(C, s) \in CircuitRecs /\ SameButTx(Send(C, s), C)
           /\ Send(C, s).tx = IF C.session = "open" THEN C.tx \o s ELSE C.tx
<1>1. C.tx \in Seq(Lines) /\ C.tx \o s \in Seq(Lines)
  BY DEF CircuitRecs
<1> DEFINE w == C.tx \o s
<1> HIDE DEF w
<1>2. w \in Seq(Lines)
  BY <1>1 DEF w
<1>3. [C EXCEPT !.tx = w] \in CircuitRecs /\ [C EXCEPT !.tx = w].tx = w
      /\ SameButTx([C EXCEPT !.tx = w], C)
  BY <1>2 DEF CircuitRecs, SameButTx
<1>4. Send(C, s) = IF C.session = "open" THEN [C EXCEPT !.tx = w] ELSE C
  BY DEF Send, w
<1> HIDE DEF SameButTx
<1>5. SameButTx(C, C)
  BY DEF SameButTx
<1>6. CASE C.session = "open"
  BY <1>3, <1>4, <1>6 DEF w
<1>7. CASE C.session # "open"
  BY <1>4, <1>5, <1>7
<1> QED BY <1>6, <1>7

\* What becomes of a node when its circuits become f.
LEMMA CircuitsBecome ==
    ASSUME NEW N, NodeType(N), NEW f \in [Circuits -> CircuitRecs]
    PROVE  /\ NodeType([N EXCEPT !.circuit = f]) /\ [N EXCEPT !.circuit = f].circuit = f
           /\ SameButCircuits(N, [N EXCEPT !.circuit = f])
<1>1. N = [node |-> N.node, user |-> N.user, link |-> N.link,
            RunningConnectScript |-> N.RunningConnectScript, circuit |-> N.circuit,
            DupInfo |-> N.DupInfo, heard |-> N.heard]
  BY DEF NodeType
<1>2. [N EXCEPT !.circuit = f] = [node |-> N.node, user |-> N.user, link |-> N.link,
            RunningConnectScript |-> N.RunningConnectScript, circuit |-> f,
            DupInfo |-> N.DupInfo, heard |-> N.heard]
  BY <1>1
<1> QED BY <1>2 DEF NodeType, SameButCircuits

\* M is N with the line echoed.
Echoes(N, from, x, line, M) ==
    /\ NodeType(M) /\ SameButCircuits(N, M)
    /\ \A c \in Circuits :
          /\ SameButTx(M.circuit[c], N.circuit[c])
          /\ M.circuit[c].tx = N.circuit[c].tx \o Maybe(EchoedTo(N, from, x, c), line)

\* echo.
LEMMA EchoIs ==
    ASSUME NEW N, NodeType(N), NEW from, NEW x \in Nodes, NEW line \in Lines,
           NEW M, M = echo(N, from, x, line)
    PROVE  Echoes(N, from, x, line, M)
<1> DEFINE f == [c \in Circuits |->
        IF N.circuit[c].rtcflags = "linked" /\ c # from /\ ~cn_find(N.circuit[c], x)
        THEN Send(N.circuit[c], << line >>) ELSE N.circuit[c]]
<1>1. << line >> \in Seq(Lines)
  BY OneIs
<1>2. ASSUME NEW c \in Circuits
      PROVE  /\ f[c] \in CircuitRecs /\ SameButTx(f[c], N.circuit[c])
             /\ f[c].tx = N.circuit[c].tx \o Maybe(EchoedTo(N, from, x, c), line)
  <2>1. N.circuit[c] \in CircuitRecs /\ N.circuit[c].tx \in Seq(Lines)
    BY CircuitIs
  <2>2. N.circuit[c].tx \o << >> = N.circuit[c].tx
    BY <2>1, ConcatNone
  <2>3. SameButTx(N.circuit[c], N.circuit[c])
    BY DEF SameButTx
  <2>4. /\ Send(N.circuit[c], << line >>) \in CircuitRecs
        /\ SameButTx(Send(N.circuit[c], << line >>), N.circuit[c])
        /\ Send(N.circuit[c], << line >>).tx =
              IF N.circuit[c].session = "open" THEN N.circuit[c].tx \o << line >> ELSE N.circuit[c].tx
    BY <1>1, <2>1, SendIs
  <2> QED BY <2>1, <2>2, <2>3, <2>4 DEF EchoedTo, Maybe, Linked
<1>3. f \in [Circuits -> CircuitRecs]
  <2>1. f = [c \in Circuits |-> f[c]]
    OBVIOUS
  <2> HIDE DEF f
  <2> QED BY <1>2, <2>1
<1>4. M = [N EXCEPT !.circuit = f]
  BY DEF echo
<1> HIDE DEF f
<1>5. NodeType(M) /\ M.circuit = f /\ SameButCircuits(N, M)
  BY <1>3, <1>4, CircuitsBecome
<1> QED BY <1>2, <1>5 DEF Echoes

\* Nothing is sent.
LEMMA TellsNone ==
    ASSUME NEW n, NEW N, NEW M, NEW p \in Circuits, NodeType(N),
           M.circuit[p].tx = N.circuit[p].tx,
           M.circuit[p].session = "open" => N.circuit[p].session = "open",
           M.circuit[p].session = "open" => Linked(M, p) = Linked(N, p),
           M.circuit[p].session = "open" /\ Linked(N, p) =>
               \A call \in Calls, x \in Behind(p[2], n) :
                   user_find(N, call, x) => user_find(M, call, x)
    PROVE  Tells(n, N, M, p)
<1>1. N.circuit[p].tx \in Seq(Lines)
  BY CircuitIs
<1>2. /\ N.circuit[p].tx \o << >> = N.circuit[p].tx
      /\ << >> \in Seq(Lines) /\ DOMAIN << >> = {}
  BY <1>1, ConcatNone
<1> DEFINE s == << >>
<1>3. s = << >> /\ s \in Seq(Lines) /\ DOMAIN s = {} /\ M.circuit[p].tx = N.circuit[p].tx \o s
  BY <1>2
<1> HIDE DEF s
<1>4. Sends(n, N, M, p, s)
  BY <1>3 DEF Sends
<1> QED BY <1>3, <1>4 DEF Tells

\* One line is sent, or none.
LEMMA TellsLine ==
    ASSUME NEW n, NEW N, NEW M, NEW p \in Circuits, NodeType(N), NEW line \in Lines,
           NEW b \in BOOLEAN,
           M.circuit[p].tx = N.circuit[p].tx \o Maybe(b, line),
           SameButTx(M.circuit[p], N.circuit[p]),
           b => /\ N.circuit[p].session = "open" /\ Linked(N, p) /\ FromSide(p[2], n, line)
                /\ line.kind = "join" => user_find(M, line.call, line.node)
                /\ line.kind = "unlink" => \A call \in Calls : ~user_find(N, call, line.call),
           Linked(N, p) => \A call \in Calls, x \in Behind(p[2], n) :
               user_find(N, call, x) => \/ user_find(M, call, x)
                                        \/ b /\ Says(line, "leave", call, x)
    PROVE  Tells(n, N, M, p)
<1>1. /\ M.circuit[p].session = N.circuit[p].session /\ Linked(M, p) = Linked(N, p)
  BY DEF SameButTx, Linked
<1>2. CASE ~b
  <2>1. N.circuit[p].tx \in Seq(Lines)
    BY CircuitIs
  <2>2. N.circuit[p].tx \o << >> = N.circuit[p].tx
    BY <2>1, ConcatNone
  <2>3. M.circuit[p].tx = N.circuit[p].tx
    BY <1>2, <2>2 DEF Maybe
  <2> QED BY <1>1, <1>2, <2>3, TellsNone
<1>3. CASE b
  <2> DEFINE s == << line >>
  <2>1. s \in Seq(Lines) /\ DOMAIN s = {1} /\ s[1] = line
    BY OneIs
  <2>2. M.circuit[p].tx = N.circuit[p].tx \o s
    BY <1>3 DEF Maybe
  <2> HIDE DEF s
  <2>3. \A call \in Calls, x \in Behind(p[2], n) :
          /\ Linked(N, p) /\ user_find(N, call, x) =>
                user_find(M, call, x) \/ \E j \in DOMAIN s : Says(s[j], "leave", call, x)
          /\ \A k \in DOMAIN s : Says(s[k], "join", call, x) => user_find(M, call, x)
    BY <1>3, <2>1 DEF Says
  <2>4. \A k \in DOMAIN s : s[k].kind = "unlink" =>
          /\ Linked(N, p)
          /\ \A j \in DOMAIN s : s[j].kind # "join"
          /\ \A call \in Calls : user_find(N, call, s[k].call) =>
                \E j \in DOMAIN s : j < k /\ Says(s[j], "leave", call, s[k].call)
    BY <1>3, <2>1
  <2>5. Sends(n, N, M, p, s)
    BY <1>1, <1>3, <2>1, <2>2, <2>3, <2>4 DEF Sends
  <2> QED BY <2>1, <2>5 DEF Tells
<1> QED BY <1>2, <1>3

\* What is sent does not change what the session allows.
LEMMA SessionSame ==
    ASSUME NEW n, NEW C, NEW D, NEW c, SessionOK(n, C, c), SameButTx(D, C),
           D.tx = C.tx \/ C.session = "open"
    PROVE  SessionOK(n, D, c)
  BY DEF SessionOK, SameButTx

\* The circuits of a node have had lines sent, and nothing else has changed that
\* counts.
LEMMA OnlySent ==
    ASSUME NEW n, NEW N, NEW M, NodeOK(n, N), NodeType(M),
           M.node = N.node, M.user = N.user,
           \A c \in Circuits : /\ SameButTx(M.circuit[c], N.circuit[c])
                               /\ M.circuit[c].tx = N.circuit[c].tx \/ N.circuit[c].session = "open"
    PROVE  NodeOK(n, M)
<1>1. \A c \in Circuits : /\ M.circuit[c].hnode = N.circuit[c].hnode
                          /\ M.circuit[c].refcnt = N.circuit[c].refcnt
                          /\ Linked(M, c) = Linked(N, c)
                          /\ Users(M, c) = Users(N, c)
                          /\ \A x : Guests(M, c, x) = Guests(N, c, x)
  BY DEF SameButTx, Linked, Users, Guests
<1>2. Users(M, Local) = Users(N, Local)
  BY DEF Users
<1>3. ASSUME NEW c \in Circuits
      PROVE  CircuitOK(n, M, c)
  <2>1. CircuitOK(n, N, c)
    BY DEF NodeOK
  <2>2. SessionOK(n, M.circuit[c], c)
    BY <2>1, SessionSame DEF CircuitOK
  <2> QED BY <1>1, <2>1, <2>2 DEF CircuitOK
<1> QED BY <1>1, <1>2, <1>3 DEF NodeOK

(***************************************************************************)
(* Sessions and flags.                                                     *)
(***************************************************************************)
\* No session starts: none is called for, and none is taken up.
Calm(N, M) == \A c \in Circuits :
    /\ M.circuit[c].session = "calling" => N.circuit[c].session = "calling"
    /\ N.circuit[c].session = "free" => M.circuit[c].session = "free"

\* n, which was N, is M, and has told the others what they must know of it.
Step(n, N, M) == NodeOK(n, M) /\ Calm(N, M) /\ \A p \in Circuits : Tells(n, N, M, p)

\* One circuit becomes D.
LEMMA CircuitBecomes ==
    ASSUME NEW N, NodeType(N), NEW c \in Circuits, NEW D \in CircuitRecs
    PROVE  /\ NodeType([N EXCEPT !.circuit[c] = D])
           /\ SameButCircuits(N, [N EXCEPT !.circuit[c] = D])
           /\ [N EXCEPT !.circuit[c] = D].circuit[c] = D
           /\ \A d \in Circuits : d # c => [N EXCEPT !.circuit[c] = D].circuit[d] = N.circuit[d]
<1> DEFINE f == [N.circuit EXCEPT ![c] = D]
<1>1. /\ N.circuit \in [Circuits -> CircuitRecs]
      /\ N = [node |-> N.node, user |-> N.user, link |-> N.link,
              RunningConnectScript |-> N.RunningConnectScript, circuit |-> N.circuit,
              DupInfo |-> N.DupInfo, heard |-> N.heard]
  BY DEF NodeType
<1>2. f \in [Circuits -> CircuitRecs] /\ f[c] = D /\ \A d \in Circuits : d # c => f[d] = N.circuit[d]
  BY <1>1
<1>3. [N EXCEPT !.circuit[c] = D] = [N EXCEPT !.circuit = f]
  BY <1>1
<1> HIDE DEF f
<1> DEFINE M == [N EXCEPT !.circuit[c] = D]
           K == [N EXCEPT !.circuit = f]
<1>4. NodeType(K) /\ K.circuit = f /\ SameButCircuits(N, K)
  BY <1>2, CircuitsBecome
<1>5. M = K
  BY <1>3
<1> HIDE DEF M, K
<1>6. NodeType(M) /\ M.circuit = f /\ SameButCircuits(N, M)
  BY <1>4, <1>5
<1> QED BY <1>2, <1>6 DEF M

\* M has the fields of N that count.
SameFields(N, M) == M.node = N.node /\ M.user = N.user /\ M.circuit = N.circuit

\* The other fields of a node.
LEMMA FieldsBecome ==
    ASSUME NEW N, NodeType(N),
           NEW lk \in [Nodes -> {"none", "linkini", "linked", "failed"}], NEW b, NEW h
    PROVE  /\ NodeType([N EXCEPT !.link = lk]) /\ NodeType([N EXCEPT !.RunningConnectScript = b])
           /\ NodeType([N EXCEPT !.DupInfo = h]) /\ NodeType([N EXCEPT !.heard = h])
           /\ [N EXCEPT !.link = lk].link = lk
           /\ [N EXCEPT !.RunningConnectScript = b].link = N.link
           /\ SameFields(N, [N EXCEPT !.link = lk])
           /\ SameFields(N, [N EXCEPT !.RunningConnectScript = b])
           /\ SameFields(N, [N EXCEPT !.DupInfo = h]) /\ SameFields(N, [N EXCEPT !.heard = h])
<1>1. N = [node |-> N.node, user |-> N.user, link |-> N.link,
            RunningConnectScript |-> N.RunningConnectScript, circuit |-> N.circuit,
            DupInfo |-> N.DupInfo, heard |-> N.heard]
  BY DEF NodeType
<1>2. [N EXCEPT !.link = lk] = [node |-> N.node, user |-> N.user, link |-> lk,
            RunningConnectScript |-> N.RunningConnectScript, circuit |-> N.circuit,
            DupInfo |-> N.DupInfo, heard |-> N.heard]
  BY <1>1
<1>3. [N EXCEPT !.RunningConnectScript = b] = [node |-> N.node, user |-> N.user, link |-> N.link,
            RunningConnectScript |-> b, circuit |-> N.circuit,
            DupInfo |-> N.DupInfo, heard |-> N.heard]
  BY <1>1
<1>4. [N EXCEPT !.DupInfo = h] = [node |-> N.node, user |-> N.user, link |-> N.link,
            RunningConnectScript |-> N.RunningConnectScript, circuit |-> N.circuit,
            DupInfo |-> h, heard |-> N.heard]
  BY <1>1
<1>5. [N EXCEPT !.heard = h] = [node |-> N.node, user |-> N.user, link |-> N.link,
            RunningConnectScript |-> N.RunningConnectScript, circuit |-> N.circuit,
            DupInfo |-> N.DupInfo, heard |-> h]
  BY <1>1
<1>6. NodeType([N EXCEPT !.link = lk]) /\ [N EXCEPT !.link = lk].link = lk
  BY <1>2 DEF NodeType
<1>7. NodeType([N EXCEPT !.RunningConnectScript = b])
      /\ [N EXCEPT !.RunningConnectScript = b].link = N.link
  BY <1>3 DEF NodeType
<1>8. NodeType([N EXCEPT !.DupInfo = h])
  BY <1>4 DEF NodeType
<1>9. NodeType([N EXCEPT !.heard = h])
  BY <1>5 DEF NodeType
<1>10. /\ SameFields(N, [N EXCEPT !.link = lk])
       /\ SameFields(N, [N EXCEPT !.RunningConnectScript = b])
       /\ SameFields(N, [N EXCEPT !.DupInfo = h]) /\ SameFields(N, [N EXCEPT !.heard = h])
  BY <1>2, <1>3, <1>4, <1>5 DEF SameFields
<1> QED BY <1>6, <1>7, <1>8, <1>9, <1>10

\* Sessions and flags have changed, but not what is linked.
LEMMA OnlyFlags ==
    ASSUME NEW n, NEW N, NEW M, NodeOK(n, N), NodeType(M),
           M.node = N.node, M.user = N.user,
           \A c \in Circuits : /\ M.circuit[c].hnode = N.circuit[c].hnode
                               /\ M.circuit[c].refcnt = N.circuit[c].refcnt
                               /\ Linked(M, c) = Linked(N, c)
                               /\ SessionOK(n, M.circuit[c], c)
    PROVE  NodeOK(n, M)
<1>1. \A c \in Circuits : Users(M, c) = Users(N, c) /\ \A x : Guests(M, c, x) = Guests(N, c, x)
  BY DEF Users, Guests
<1>2. Users(M, Local) = Users(N, Local)
  BY DEF Users
<1>3. ASSUME NEW c \in Circuits
      PROVE  CircuitOK(n, M, c)
  <2>1. CircuitOK(n, N, c)
    BY DEF NodeOK
  <2> QED BY <1>1, <2>1 DEF CircuitOK
<1> QED BY <1>1, <1>2, <1>3 DEF NodeOK

\* The same, with nothing sent and no session taken up.
LEMMA QuietStep ==
    ASSUME NEW n, NEW N, NEW M, NodeOK(n, N), NodeType(M),
           M.node = N.node, M.user = N.user,
           \A c \in Circuits : /\ M.circuit[c].hnode = N.circuit[c].hnode
                               /\ M.circuit[c].refcnt = N.circuit[c].refcnt
                               /\ M.circuit[c].tx = N.circuit[c].tx
                               /\ Linked(M, c) = Linked(N, c)
                               /\ SessionOK(n, M.circuit[c], c)
                               /\ M.circuit[c].session \in {N.circuit[c].session, "closing"}
                               /\ N.circuit[c].session = "free" => M.circuit[c].session = "free"
    PROVE  Step(n, N, M) /\ \A c : Fewer(N, M, c)
<1>1. NodeOK(n, M)
  BY OnlyFlags
<1>2. Calm(N, M)
  BY DEF Calm
<1>3. ASSUME NEW p \in Circuits
      PROVE  Tells(n, N, M, p)
  <2>1. \A call, x : user_find(N, call, x) => user_find(M, call, x)
    BY DEF user_find
  <2>2. NodeType(N)
    BY DEF NodeOK
  <2>3. M.circuit[p].session = "open" => N.circuit[p].session = "open"
    OBVIOUS
  <2> QED BY <2>1, <2>2, <2>3, TellsNone
<1>4. ASSUME NEW c
      PROVE  Fewer(N, M, c)
  BY DEF Fewer, Users
<1> QED BY <1>1, <1>2, <1>3, <1>4 DEF Step

\* Disconnect.
LEMMA DisconnectIs ==
    ASSUME NEW N, NodeType(N), NEW S, NEW M, M = Disconnect(N, S)
    PROVE  /\ NodeType(M) /\ SameButCircuits(N, M)
           /\ \A c \in Circuits :
                 /\ M.circuit[c].hnode = N.circuit[c].hnode
                 /\ M.circuit[c].refcnt = N.circuit[c].refcnt
                 /\ M.circuit[c].tx = N.circuit[c].tx
                 /\ M.circuit[c].rtcflags = N.circuit[c].rtcflags
                 /\ M.circuit[c].session = IF c \in S /\ N.circuit[c].session # "lost"
                                           THEN "closing" ELSE N.circuit[c].session
<1> DEFINE f == [c \in Circuits |-> IF c \in S /\ N.circuit[c].session # "lost"
                    THEN [N.circuit[c] EXCEPT !.session = "closing"] ELSE N.circuit[c]]
<1>1. ASSUME NEW c \in Circuits
      PROVE  /\ f[c] \in CircuitRecs
             /\ f[c].hnode = N.circuit[c].hnode /\ f[c].refcnt = N.circuit[c].refcnt
             /\ f[c].tx = N.circuit[c].tx /\ f[c].rtcflags = N.circuit[c].rtcflags
             /\ f[c].session = IF c \in S /\ N.circuit[c].session # "lost"
                               THEN "closing" ELSE N.circuit[c].session
  <2>1. N.circuit[c] \in CircuitRecs
    BY CircuitIs
  <2>2. \A C \in CircuitRecs :
           LET D == [C EXCEPT !.session = "closing"] IN
           /\ D \in CircuitRecs /\ D.hnode = C.hnode /\ D.refcnt = C.refcnt /\ D.tx = C.tx
           /\ D.rtcflags = C.rtcflags /\ D.session = "closing"
    BY DEF CircuitRecs
  <2> QED BY <2>1, <2>2
<1>2. f \in [Circuits -> CircuitRecs]
  <2>1. f = [c \in Circuits |-> f[c]]
    OBVIOUS
  <2> HIDE DEF f
  <2> QED BY <1>1, <2>1
<1>3. M = [N EXCEPT !.circuit = f]
  BY DEF Disconnect
<1> HIDE DEF f
<1>4. NodeType(M) /\ M.circuit = f /\ SameButCircuits(N, M)
  BY <1>2, <1>3, CircuitsBecome
<1> QED BY <1>1, <1>4

\* A session that is up is disconnected.
LEMMA DisconnectStep ==
    ASSUME NEW n, NEW N, NodeOK(n, N), NEW S,
           \A c \in S \cap Circuits : N.circuit[c].session \notin {"free", "shut"}
    PROVE  Step(n, N, Disconnect(N, S)) /\ \A c : Fewer(N, Disconnect(N, S), c)
<1> DEFINE M == Disconnect(N, S)
<1>1. NodeType(N) /\ M = Disconnect(N, S)
  BY DEF NodeOK
<1> HIDE DEF M
<1>2. /\ NodeType(M) /\ M.node = N.node /\ M.user = N.user
      /\ \A c \in Circuits :
                 /\ M.circuit[c].hnode = N.circuit[c].hnode
                 /\ M.circuit[c].refcnt = N.circuit[c].refcnt
                 /\ M.circuit[c].tx = N.circuit[c].tx
                 /\ M.circuit[c].rtcflags = N.circuit[c].rtcflags
                 /\ M.circuit[c].session = IF c \in S /\ N.circuit[c].session # "lost"
                                           THEN "closing" ELSE N.circuit[c].session
  BY <1>1, DisconnectIs DEF SameButCircuits
<1>3. ASSUME NEW c \in Circuits
      PROVE  /\ M.circuit[c].hnode = N.circuit[c].hnode
             /\ M.circuit[c].refcnt = N.circuit[c].refcnt
             /\ M.circuit[c].tx = N.circuit[c].tx
             /\ Linked(M, c) = Linked(N, c)
             /\ SessionOK(n, M.circuit[c], c)
             /\ M.circuit[c].session \in {N.circuit[c].session, "closing"}
             /\ N.circuit[c].session = "free" => M.circuit[c].session = "free"
  <2>1. SessionOK(n, N.circuit[c], c)
    BY DEF NodeOK, CircuitOK
  <2>2. SessionOK(n, M.circuit[c], c)
    BY <1>2, <2>1 DEF SessionOK
  <2> QED BY <1>2, <2>2 DEF Linked
<1>4. Step(n, N, M) /\ \A c : Fewer(N, M, c)
  BY <1>2, <1>3, QuietStep
<1> QED BY <1>1, <1>4

\* The script is not running.
LEMMA ScriptEnds ==
    ASSUME NEW n, NEW N, NodeOK(n, N), NEW b
    PROVE  NodeOK(n, [N EXCEPT !.RunningConnectScript = b])
<1> DEFINE M == [N EXCEPT !.RunningConnectScript = b]
<1>1. NodeType(N) /\ NodeType(M) /\ M.node = N.node /\ M.user = N.user /\ M.circuit = N.circuit
  <2>1. N.link \in [Nodes -> {"none", "linkini", "linked", "failed"}] /\ NodeType(N)
    BY DEF NodeOK, NodeType
  <2> DEFINE lk == N.link
  <2> HIDE DEF lk
  <2>2. lk \in [Nodes -> {"none", "linkini", "linked", "failed"}]
    BY <2>1 DEF lk
  <2>3. NodeType([N EXCEPT !.RunningConnectScript = b])
        /\ SameFields(N, [N EXCEPT !.RunningConnectScript = b])
    BY <2>1, <2>2, FieldsBecome
  <2> QED BY <2>1, <2>3 DEF SameFields
<1> HIDE DEF M
<1>2. \A c \in Circuits : SessionOK(n, N.circuit[c], c)
  BY DEF NodeOK, CircuitOK
<1>3. NodeOK(n, M)
  BY <1>1, <1>2, OnlyFlags DEF Linked
<1> QED BY <1>3 DEF M

\* Nothing has changed that the others can see, but that sessions may have ended.
Unseen(N, M) == /\ M.user = N.user /\ M.node = N.node /\ Calm(N, M)
               /\ \A p \in Circuits :
                     /\ M.circuit[p].tx = N.circuit[p].tx /\ Linked(M, p) = Linked(N, p)
                     /\ M.circuit[p].session = "open" => N.circuit[p].session = "open"

\* Two steps of which the first changes nothing that the others can see.
LEMMA QuietFirst ==
    ASSUME NEW n, NEW N, NEW M, NEW K, Unseen(N, M), Step(n, M, K)
    PROVE  Step(n, N, K)
<1>1. ASSUME NEW p \in Circuits
      PROVE  Tells(n, N, K, p)
  <2>1. PICK s \in Seq(Lines) : Sends(n, M, K, p, s)
    BY DEF Step, Tells
  <2>2. /\ Linked(M, p) = Linked(N, p) /\ \A call, x : user_find(M, call, x) = user_find(N, call, x)
        /\ M.circuit[p].tx = N.circuit[p].tx
        /\ M.circuit[p].session = "open" => N.circuit[p].session = "open"
    BY DEF Unseen, user_find
  <2>3. Sends(n, N, K, p, s)
    BY <2>1, <2>2 DEF Sends
  <2> QED BY <2>3 DEF Tells
<1>2. Calm(N, K)
  BY DEF Calm, Step, Unseen
<1> QED BY <1>1, <1>2 DEF Step

\* Unlink.
LEMMA UnlinkIs ==
    ASSUME NEW N, NodeType(N), NEW c \in Circuits, NEW U, U = Unlink(N, c)
    PROVE  /\ NodeType(U) /\ U.node = N.node /\ U.user = N.user
           /\ \A d \in Circuits : d # c => U.circuit[d] = N.circuit[d]
           /\ U.circuit[c] \in CircuitRecs /\ U.circuit[c].rtcflags = "nil"
           /\ U.circuit[c].session = N.circuit[c].session
           /\ U.circuit[c].hnode = N.circuit[c].hnode
           /\ U.circuit[c].refcnt = N.circuit[c].refcnt
           /\ U.circuit[c].tx = N.circuit[c].tx
<1> DEFINE lk == [N.link EXCEPT ![c[2]] = IF N.circuit[c].rtcflags = "linkini"
                                          THEN "failed" ELSE "none"]
           D == [N.circuit[c] EXCEPT !.rtcflags = "nil"]
           V == [N EXCEPT !.link = lk]
           f == [N.circuit EXCEPT ![c] = D]
<1>1. N.circuit[c] \in CircuitRecs /\ N.circuit \in [Circuits -> CircuitRecs] /\ c[2] \in Nodes
  BY CircuitIs
<1>2. \A C \in CircuitRecs :
           LET E == [C EXCEPT !.rtcflags = "nil"] IN
           /\ E \in CircuitRecs /\ E.hnode = C.hnode /\ E.refcnt = C.refcnt /\ E.tx = C.tx
           /\ E.rtcflags = "nil" /\ E.session = C.session
  BY DEF CircuitRecs
<1>3. /\ D \in CircuitRecs /\ D.hnode = N.circuit[c].hnode /\ D.refcnt = N.circuit[c].refcnt
      /\ D.tx = N.circuit[c].tx /\ D.rtcflags = "nil" /\ D.session = N.circuit[c].session
  BY <1>1, <1>2
<1>4. lk \in [Nodes -> {"none", "linkini", "linked", "failed"}]
  BY <1>1 DEF NodeType
<1>5. N = [node |-> N.node, user |-> N.user, link |-> N.link,
            RunningConnectScript |-> N.RunningConnectScript, circuit |-> N.circuit,
            DupInfo |-> N.DupInfo, heard |-> N.heard]
  BY DEF NodeType
<1>6. U = [V EXCEPT !.circuit = f]
  BY <1>1, <1>5 DEF Unlink
<1>7. f \in [Circuits -> CircuitRecs] /\ f[c] = D /\ \A d \in Circuits : d # c => f[d] = N.circuit[d]
  BY <1>1, <1>3
<1> HIDE DEF D, f, lk
<1>8. NodeType(V) /\ SameFields(N, V)
  BY <1>4, FieldsBecome
<1> HIDE DEF V
<1>9. NodeType(U) /\ U.circuit = f /\ SameButCircuits(V, U)
  BY <1>6, <1>7, <1>8, CircuitsBecome
<1> QED BY <1>3, <1>7, <1>8, <1>9 DEF SameFields, SameButCircuits

(***************************************************************************)
(* link_drop.                                                              *)
(***************************************************************************)
\* The nodes that circuit c reaches.
Reached(N, c) == {x \in Nodes : cn_find(N.circuit[c], x)}

\* What the circuit D is told when circuit c is dropped.
Leaves(N, n, c, D) == {Line("leave", u.at, u.call, deftopic) :
                          u \in {w \in Users(N, c) : ~cn_find(D, w.at)}}
Unlinks(N, n, c, D) == {Line("unlink", n, x, deftopic) :
                          x \in {y \in Reached(N, c) : ~cn_find(D, y)}}
News(N, n, c, D) == SetToSeq(Leaves(N, n, c, D)) \o SetToSeq(Unlinks(N, n, c, D))

\* N when it has been told to all.
Dropping(N, n, c) ==
    [Unlink(N, c) EXCEPT
        !.user = @ \ Users(N, c),
        !.circuit = [d \in Circuits |->
            IF @[d].rtcflags = "linked" THEN Send(@[d], News(N, n, c, @[d])) ELSE @[d]]]

\* The references to x that go.
Lost(N, c, x) == Cardinality({u \in Users(N, c) : u.at = x})
                 + Cardinality({x} \cap Reached(N, c))

\* The reference counts that are left when c is dropped.
DroppedNode(N, n, c) ==
    [x \in Nodes |->
        IF Lost(N, c, x) = 0 \/ Dropping(N, n, c).node[x] > Lost(N, c, x)
        THEN Dropping(N, n, c).node[x] - Lost(N, c, x) ELSE Pointing(Dropping(N, n, c), x)]

\* circuit_free, but for CleanUp.
Freed(N, c) == [N EXCEPT !.circuit[c].hnode = NoCircuit.hnode,
                         !.circuit[c].refcnt = 0, !.circuit[c].rtcflags = "nil"]

\* What link_drop makes of a node, in steps.
LEMMA DropIs ==
    ASSUME NEW N, NEW n, NEW c
    PROVE  link_drop(N, n, c) =
             CleanUp(Freed([Dropping(N, n, c) EXCEPT !.node = DroppedNode(N, n, c)], c))
  BY DEF link_drop, circuit_free, Freed, Dropping, DroppedNode, Lost, News, Leaves, Unlinks, Reached

\* The lines of SetToSeq.
LEMMA LinesIs ==
    ASSUME NEW S \in SUBSET Lines, IsFiniteSet(S)
    PROVE  /\ SetToSeq(S) \in Seq(Lines)
           /\ \A i \in DOMAIN SetToSeq(S) : SetToSeq(S)[i] \in S
           /\ \A x \in S : \E i \in DOMAIN SetToSeq(S) : SetToSeq(S)[i] = x
<1> DEFINE s == SetToSeq(S)
<1>1. s \in Seq(S) /\ \A x \in S : \E i \in DOMAIN s : s[i] = x
  BY SetToSeqIs
<1> HIDE DEF s
<1>2. \A i \in DOMAIN s : s[i] \in S
  BY <1>1, SeqIs
<1>3. \A i \in DOMAIN s : s[i] \in Lines
  BY <1>2
<1>4. s \in Seq(Lines)
  <2>1. Len(s) \in Nat /\ DOMAIN s = 1..Len(s) /\ s = [i \in 1..Len(s) |-> s[i]]
    BY <1>1
  <2>2. s \in [1..Len(s) -> Lines]
    BY <1>3, <2>1
  <2> QED BY <2>1, <2>2, MapIsSeq
<1> QED BY <1>1, <1>2, <1>4 DEF s

\* A line.
LEMMA LineIs ==
    ASSUME NEW kind \in {"RTL", "OK", "link", "unlink", "join", "leave", "topic", "data"},
           NEW node \in Nodes, NEW call \in Calls \cup Nodes, NEW arg \in Topics \cup Texts,
           kind \in {"join", "leave"} => call \in Calls, kind = "topic" => arg \in Topics
    PROVE  /\ Line(kind, node, call, arg) \in Lines
           /\ Line(kind, node, call, arg).kind = kind /\ Line(kind, node, call, arg).node = node
           /\ Line(kind, node, call, arg).call = call
  BY DEF Line, Lines

\* What there is to tell.
LEMMA NewsIs ==
    ASSUME NEW n \in Nodes, NEW N, NodeType(N), NEW c, NEW D
    PROVE  /\ News(N, n, c, D) \in Seq(Lines)
           /\ \A k \in DOMAIN News(N, n, c, D) :
                LET L == News(N, n, c, D)[k] IN
                \/ L.kind = "leave" /\ \E u \in Users(N, c) : L.node = u.at /\ L.call = u.call
                \/ /\ L.kind = "unlink" /\ L.call \in Reached(N, c)
                   /\ \A u \in Users(N, c) : ~cn_find(D, u.at) =>
                         \E j \in DOMAIN News(N, n, c, D) :
                             j < k /\ Says(News(N, n, c, D)[j], "leave", u.call, u.at)
           /\ \A u \in Users(N, c) : ~cn_find(D, u.at) =>
                 \E j \in DOMAIN News(N, n, c, D) : Says(News(N, n, c, D)[j], "leave", u.call, u.at)
<1> DEFINE A == Leaves(N, n, c, D)
           B == Unlinks(N, n, c, D)
           us == {w \in Users(N, c) : ~cn_find(D, w.at)}
           xs == {y \in Reached(N, c) : ~cn_find(D, y)}
           g == [u \in us |-> Line("leave", u.at, u.call, deftopic)]
           h == [x \in xs |-> Line("unlink", n, x, deftopic)]
           s == SetToSeq(A)
           t == SetToSeq(B)
           w == News(N, n, c, D)
<1>1. us \subseteq N.user /\ xs \subseteq Nodes /\ IsFiniteSet(us) /\ IsFiniteSet(xs)
  <2>1. us \subseteq N.user /\ xs \subseteq Nodes
    BY DEF Users, Reached
  <2>2. IsFiniteSet(N.user) /\ IsFiniteSet(Nodes)
    BY TopicAssumption DEF NodeType
  <2> HIDE DEF us, xs
  <2> QED BY <2>1, <2>2, FS_Subset
<1>2. /\ A \subseteq Lines /\ IsFiniteSet(A)
      /\ \A L \in A : L.kind = "leave" /\ \E u \in us : L.node = u.at /\ L.call = u.call
      /\ \A u \in us : \E L \in A : Says(L, "leave", u.call, u.at)
  <2>1. ASSUME NEW u \in us
        PROVE  g[u] \in Lines /\ g[u].kind = "leave" /\ g[u].node = u.at /\ g[u].call = u.call
    <3>1. u \in UserRecs
      BY <1>1 DEF NodeType
    <3>2. u.at \in Nodes /\ u.call \in Calls
      BY <3>1 DEF UserRecs
    <3> QED BY <3>2, LineIs, TopicAssumption
  <2>2. A = {g[u] : u \in us} /\ DOMAIN g = us
    BY DEF Leaves
  <2> HIDE DEF g, A, us
  <2>3. IsFiniteSet(A)
    BY <1>1, <2>2, ImageIsFinite
  <2> QED BY <2>1, <2>2, <2>3 DEF Says
<1>3. /\ B \subseteq Lines /\ IsFiniteSet(B)
      /\ \A L \in B : L.kind = "unlink" /\ L.call \in Reached(N, c)
  <2>1. ASSUME NEW x \in xs
        PROVE  h[x] \in Lines /\ h[x].kind = "unlink" /\ h[x].call = x /\ x \in Reached(N, c)
    BY <1>1, LineIs, TopicAssumption
  <2>2. B = {h[x] : x \in xs} /\ DOMAIN h = xs
    BY DEF Unlinks
  <2> HIDE DEF h, B, xs
  <2>3. IsFiniteSet(B)
    BY <1>1, <2>2, ImageIsFinite
  <2> QED BY <2>1, <2>2, <2>3
<1>4. \A u : u \in us <=> u \in Users(N, c) /\ ~cn_find(D, u.at)
  OBVIOUS
<1>5. w = s \o t
  BY DEF News
<1> HIDE DEF A, B, us, xs, g, h
<1>6. s \in Seq(Lines) /\ (\A i \in DOMAIN s : s[i] \in A) /\ \A x \in A : \E i \in DOMAIN s : s[i] = x
  BY <1>2, LinesIs
<1>7. t \in Seq(Lines) /\ \A i \in DOMAIN t : t[i] \in B
  BY <1>3, LinesIs
<1> DEFINE p == Len(s)
           q == Len(t)
<1> HIDE DEF s, t, w
<1>8. /\ w \in Seq(Lines) /\ p \in Nat /\ q \in Nat /\ DOMAIN s = 1..p /\ DOMAIN t = 1..q
      /\ DOMAIN w = 1..(p + q)
      /\ \A i \in 1..p : w[i] = s[i]
      /\ \A i \in 1..q : w[p + i] = t[i]
  BY <1>5, <1>6, <1>7, ConcatIs
<1> HIDE DEF p, q
<1>9. ASSUME NEW u \in us
      PROVE  \E j \in DOMAIN w : j \in 1..p /\ Says(w[j], "leave", u.call, u.at)
  <2>1. PICK L \in A : Says(L, "leave", u.call, u.at)
    BY <1>2
  <2>2. PICK j \in 1..p : s[j] = L
    BY <1>6, <1>8
  <2>3. j \in DOMAIN w /\ w[j] = L
    BY <1>8, <2>2
  <2> QED BY <2>1, <2>3
<1>10. ASSUME NEW k \in DOMAIN w
       PROVE  \/ w[k].kind = "leave" /\ \E u \in Users(N, c) : w[k].node = u.at /\ w[k].call = u.call
              \/ /\ w[k].kind = "unlink" /\ w[k].call \in Reached(N, c)
                 /\ \A u \in us : \E j \in DOMAIN w : j < k /\ Says(w[j], "leave", u.call, u.at)
  <2>1. CASE k \in 1..p
    <3>1. w[k] \in A
      BY <1>6, <1>8, <2>1
    <3> QED BY <1>2, <1>4, <3>1
  <2>2. CASE k \notin 1..p
    <3>1. k - p \in 1..q /\ k = p + (k - p) /\ \A j \in 1..p : j < k
      BY <1>8, <2>2
    <3>2. w[k] \in B
      BY <1>7, <1>8, <3>1
    <3> QED BY <1>3, <1>9, <3>1, <3>2
  <2> QED BY <2>1, <2>2
<1> QED BY <1>4, <1>8, <1>9, <1>10 DEF w

\* The list of nodes of a node becomes another.
LEMMA NodesBecome ==
    ASSUME NEW N, NodeType(N), NEW g \in [Nodes -> Nat]
    PROVE  /\ NodeType([N EXCEPT !.node = g]) /\ [N EXCEPT !.node = g].node = g
           /\ [N EXCEPT !.node = g].user = N.user /\ [N EXCEPT !.node = g].circuit = N.circuit
<1>1. N = [node |-> N.node, user |-> N.user, link |-> N.link,
            RunningConnectScript |-> N.RunningConnectScript, circuit |-> N.circuit,
            DupInfo |-> N.DupInfo, heard |-> N.heard]
  BY DEF NodeType
<1>2. [N EXCEPT !.node = g] = [node |-> g, user |-> N.user, link |-> N.link,
            RunningConnectScript |-> N.RunningConnectScript, circuit |-> N.circuit,
            DupInfo |-> N.DupInfo, heard |-> N.heard]
  BY <1>1
<1>3. NodeType([N EXCEPT !.node = g])
  BY <1>2 DEF NodeType
<1> QED BY <1>2, <1>3

\* The list of users of a node becomes another.
LEMMA UsersBecome ==
    ASSUME NEW N, NodeType(N), NEW us \in SUBSET UserRecs, IsFiniteSet(us)
    PROVE  /\ NodeType([N EXCEPT !.user = us]) /\ [N EXCEPT !.user = us].user = us
           /\ [N EXCEPT !.user = us].node = N.node /\ [N EXCEPT !.user = us].circuit = N.circuit
<1>1. N = [node |-> N.node, user |-> N.user, link |-> N.link,
            RunningConnectScript |-> N.RunningConnectScript, circuit |-> N.circuit,
            DupInfo |-> N.DupInfo, heard |-> N.heard]
  BY DEF NodeType
<1>2. [N EXCEPT !.user = us] = [node |-> N.node, user |-> us, link |-> N.link,
            RunningConnectScript |-> N.RunningConnectScript, circuit |-> N.circuit,
            DupInfo |-> N.DupInfo, heard |-> N.heard]
  BY <1>1
<1>3. NodeType([N EXCEPT !.user = us])
  BY <1>2 DEF NodeType
<1> QED BY <1>2, <1>3

\* Dropping.
LEMMA DroppingIs ==
    ASSUME NEW n \in Nodes, NEW N, NodeType(N), NEW c \in Circuits, NEW S, S = Dropping(N, n, c)
    PROVE  /\ NodeType(S) /\ S.user = N.user \ Users(N, c) /\ S.node = N.node
           /\ \A d \in Circuits \ {c} :
                 /\ SameButTx(S.circuit[d], N.circuit[d])
                 /\ S.circuit[d].tx =
                       IF Linked(N, d) /\ N.circuit[d].session = "open"
                       THEN N.circuit[d].tx \o News(N, n, c, N.circuit[d]) ELSE N.circuit[d].tx
           /\ S.circuit[c] \in CircuitRecs /\ ~Linked(S, c)
           /\ S.circuit[c].session = N.circuit[c].session
           /\ S.circuit[c].tx = N.circuit[c].tx
<1> DEFINE U == Unlink(N, c)
           us == N.user \ Users(N, c)
           V == [U EXCEPT !.user = us]
           f == [d \in Circuits |-> IF U.circuit[d].rtcflags = "linked"
                    THEN Send(U.circuit[d], News(N, n, c, U.circuit[d])) ELSE U.circuit[d]]
<1>1. U = Unlink(N, c)
  OBVIOUS
<1> HIDE DEF U
<1>2. /\ NodeType(U) /\ U.node = N.node /\ U.user = N.user
      /\ \A d \in Circuits : d # c => U.circuit[d] = N.circuit[d]
      /\ U.circuit[c] \in CircuitRecs /\ U.circuit[c].rtcflags = "nil"
      /\ U.circuit[c].session = N.circuit[c].session
      /\ U.circuit[c].tx = N.circuit[c].tx
  BY <1>1, UnlinkIs
<1>3. U = [node |-> U.node, user |-> U.user, link |-> U.link,
            RunningConnectScript |-> U.RunningConnectScript, circuit |-> U.circuit,
            DupInfo |-> U.DupInfo, heard |-> U.heard]
  BY <1>2 DEF NodeType
<1>4. S = [V EXCEPT !.circuit = f]
  BY <1>1, <1>2, <1>3 DEF Dropping
<1>5. ASSUME NEW d \in Circuits, d # c
      PROVE  /\ f[d] \in CircuitRecs /\ SameButTx(f[d], N.circuit[d])
             /\ f[d].tx = IF Linked(N, d) /\ N.circuit[d].session = "open"
                          THEN N.circuit[d].tx \o News(N, n, c, N.circuit[d]) ELSE N.circuit[d].tx
  <2>1. N.circuit[d] \in CircuitRecs /\ U.circuit[d] = N.circuit[d]
    BY <1>2, <1>5, CircuitIs
  <2> DEFINE s == News(N, n, c, N.circuit[d])
             C == N.circuit[d]
  <2>2. s \in Seq(Lines)
    BY NewsIs
  <2>3. f[d] = IF Linked(N, d) THEN Send(C, s) ELSE C
    BY <2>1 DEF Linked
  <2>4. C \in CircuitRecs /\ SameButTx(C, C)
    BY <2>1 DEF SameButTx
  <2> HIDE DEF s, C, f
  <2>5. Send(C, s) \in CircuitRecs /\ SameButTx(Send(C, s), C)
        /\ Send(C, s).tx = IF C.session = "open" THEN C.tx \o s ELSE C.tx
    BY <2>2, <2>4, SendIs
  <2> QED BY <2>3, <2>4, <2>5 DEF s, C
<1>6. f[c] = U.circuit[c]
  BY <1>2
<1>7. f \in [Circuits -> CircuitRecs]
  <2>1. f = [d \in Circuits |-> f[d]]
    OBVIOUS
  <2> HIDE DEF f
  <2> QED BY <1>2, <1>5, <1>6, <2>1
<1>8. us \in SUBSET UserRecs /\ IsFiniteSet(us)
  <2>1. us \subseteq N.user /\ N.user \in SUBSET UserRecs /\ IsFiniteSet(N.user)
    BY DEF NodeType
  <2> HIDE DEF us
  <2> QED BY <2>1, FS_Subset
<1> HIDE DEF us, f
<1>9. NodeType(V) /\ V.user = us /\ V.node = U.node /\ V.circuit = U.circuit
  BY <1>2, <1>8, UsersBecome
<1> HIDE DEF V
<1>10. NodeType(S) /\ S.circuit = f /\ SameButCircuits(V, S)
  BY <1>4, <1>7, <1>9, CircuitsBecome
<1>11. S.user = us /\ S.node = N.node
  BY <1>2, <1>9, <1>10 DEF SameButCircuits
<1> QED BY <1>2, <1>5, <1>6, <1>10, <1>11 DEF us, Linked

\* The end of circuit_free.
LEMMA FreedIs ==
    ASSUME NEW N, NodeType(N), NEW c \in Circuits, NEW K, K = Freed(N, c)
    PROVE  /\ NodeType(K) /\ SameButCircuits(N, K)
           /\ \A d \in Circuits \ {c} : K.circuit[d] = N.circuit[d]
           /\ K.circuit[c].hnode = NoCircuit.hnode /\ K.circuit[c].refcnt = 0
           /\ K.circuit[c].rtcflags = "nil" /\ K.circuit[c].session = N.circuit[c].session
           /\ K.circuit[c].tx = N.circuit[c].tx
<1> DEFINE D == [N.circuit[c] EXCEPT !.hnode = NoCircuit.hnode, !.refcnt = 0, !.rtcflags = "nil"]
           f == [N.circuit EXCEPT ![c] = D]
<1>1. N.circuit[c] \in CircuitRecs /\ N.circuit \in [Circuits -> CircuitRecs]
  BY CircuitIs
<1>2. NoCircuit.hnode \in [Nodes -> Nat]
  BY DEF NoCircuit
<1>3. /\ D \in CircuitRecs /\ D.hnode = NoCircuit.hnode /\ D.refcnt = 0 /\ D.rtcflags = "nil"
      /\ D.session = N.circuit[c].session /\ D.tx = N.circuit[c].tx
  BY <1>1, <1>2 DEF CircuitRecs
<1>4. N = [node |-> N.node, user |-> N.user, link |-> N.link,
            RunningConnectScript |-> N.RunningConnectScript, circuit |-> N.circuit,
            DupInfo |-> N.DupInfo, heard |-> N.heard]
  BY DEF NodeType
<1>5. K = [N EXCEPT !.circuit = f]
  BY <1>1, <1>4 DEF Freed
<1>6. f \in [Circuits -> CircuitRecs] /\ f[c] = D /\ \A d \in Circuits : d # c => f[d] = N.circuit[d]
  BY <1>1, <1>3
<1> HIDE DEF D, f
<1>8. NodeType(K) /\ K.circuit = f /\ SameButCircuits(N, K)
  BY <1>5, <1>6, CircuitsBecome
<1> QED BY <1>3, <1>6, <1>8

\* A node with users here, or a circuit that is linked, keeps its list; and on the
\* others there is nobody on it.
LEMMA CleanUpIs ==
    ASSUME NEW n \in Nodes, NEW N, NodeOK(n, N)
    PROVE  CleanUp(N) = N
<1> SUFFICES ASSUME circuit_hd(N) = {}, Users(N, Local) = {}
             PROVE  [N EXCEPT !.node = NewNode.node] = N
  BY DEF CleanUp
<1>1. N.node[n] = 0
  BY FS_EmptySet DEF NodeOK
<1>2. ASSUME NEW x \in Nodes
      PROVE  N.node[x] = 0
  <2>1. N.node[x] \in Nat
    BY DEF NodeOK, NodeType
  <2>2. ASSUME x # n, N.node[x] > 0
        PROVE  FALSE
    <3>1. PICK c \in Circuits : N.circuit[c].hnode[x] > 0
      BY <2>2 DEF NodeOK
    <3>2. Linked(N, c)
      BY <3>1, LinkedIs
    <3> QED BY <3>2 DEF circuit_hd, Linked
  <2> QED BY <1>1, <2>1, <2>2
<1>3. N.node = [x \in Nodes |-> 0]
  BY <1>2 DEF NodeOK, NodeType
<1>4. N.node = NewNode.node
  BY <1>3 DEF NewNode
<1>5. N = [node |-> N.node, user |-> N.user, link |-> N.link,
            RunningConnectScript |-> N.RunningConnectScript, circuit |-> N.circuit,
            DupInfo |-> N.DupInfo, heard |-> N.heard]
  BY DEF NodeOK, NodeType
<1> QED BY <1>4, <1>5

\* The users that a circuit reaches are on nodes behind it.
LEMMA UsersBehind ==
    ASSUME net \in Networks, net.tree, NEW n, NEW N, NodeOK(n, N), NEW c \in Circuits,
           NEW u \in Users(N, c)
    PROVE  /\ u \in N.user /\ u.via = c /\ u.call \in Calls /\ u.at \in Nodes
           /\ Linked(N, c) /\ N.circuit[c].hnode[u.at] > 0 /\ u.at \in Behind(n, c[2])
<1>1. u \in N.user /\ u.via = c
  BY DEF Users
<1>2. c # Local
  BY LocalAssumption
<1> QED BY <1>1, <1>2, UserIs

\* The references that go when c is dropped are all that there are to what it reaches.
LEMMA LostIs ==
    ASSUME net \in Networks, net.tree, NEW n, NEW N, NodeOK(n, N), NEW c \in Circuits,
           NEW x \in Nodes
    PROVE  Lost(N, c, x) = N.circuit[c].hnode[x]
<1> DEFINE h == N.circuit[c].hnode[x]
           G == Guests(N, c, x)
<1>1. h \in Nat /\ (G = {} => h \in {0, 1}) /\ (G # {} => h = Cardinality(G) + 1)
  <2>1. h \in Nat
    BY CircuitIs DEF NodeOK
  <2> QED BY <2>1 DEF NodeOK, CircuitOK
<1>2. {u \in Users(N, c) : u.at = x} = G
  BY DEF Users, Guests
<1>3. IsFiniteSet(G)
  <2>1. IsFiniteSet(N.user) /\ G \subseteq N.user
    BY DEF NodeOK, NodeType, Guests
  <2> QED BY <2>1, FS_Subset
<1>4. Cardinality(G) \in Nat /\ (G = {} => Cardinality(G) = 0)
  BY <1>3, FS_CardinalityType, FS_EmptySet
<1>5. G # {} => h > 0
  <2>1. \A u \in G : u \in Users(N, c) /\ u.at = x
    BY DEF Users, Guests
  <2> QED BY <2>1, UsersBehind
<1>6. cn_find(N.circuit[c], x) = (h > 0)
  BY DEF cn_find
<1>7. Lost(N, c, x) = Cardinality(G) + Cardinality({x} \cap Reached(N, c))
  BY <1>2 DEF Lost
<1>8. h > 0 => {x} \cap Reached(N, c) = {x}
  BY <1>6 DEF Reached
<1>9. ~(h > 0) => {x} \cap Reached(N, c) = {}
  BY <1>6 DEF Reached
<1>10. Cardinality({x}) = 1 /\ Cardinality({}) = 0
  BY FS_Singleton, FS_EmptySet
<1> HIDE DEF h, G
<1>11. CASE h > 0
  <2>1. Lost(N, c, x) = Cardinality(G) + 1
    BY <1>7, <1>8, <1>10, <1>11
  <2>2. h = Cardinality(G) + 1
    BY <1>1, <1>4, <1>11
  <2> QED BY <2>1, <2>2 DEF h
<1>12. CASE ~(h > 0)
  <2>1. h = 0 /\ G = {}
    BY <1>1, <1>5, <1>12
  <2>2. Lost(N, c, x) = 0
    BY <1>4, <1>7, <1>9, <1>10, <1>12, <2>1
  <2> QED BY <2>1, <2>2 DEF h
<1> QED BY <1>11, <1>12

\* What is left of the list.
LEMMA DroppedNodeIs ==
    ASSUME net \in Networks, net.tree, NEW n \in Nodes, NEW N, NodeOK(n, N), NEW c \in Circuits
    PROVE  /\ DroppedNode(N, n, c) \in [Nodes -> Nat]
           /\ \A x \in Nodes : DroppedNode(N, n, c)[x] =
                                   IF N.circuit[c].hnode[x] > 0 THEN 0 ELSE N.node[x]
<1> DEFINE S == Dropping(N, n, c)
<1>0. NodeType(N) /\ S = Dropping(N, n, c)
  BY DEF NodeOK
<1>1. /\ S.user = N.user \ Users(N, c) /\ S.node = N.node /\ ~Linked(S, c)
      /\ \A d \in Circuits \ {c} : S.circuit[d].hnode = N.circuit[d].hnode
  <2> HIDE DEF S
  <2> QED BY <1>0, DroppingIs DEF SameButTx
<1>2. N.node \in [Nodes -> Nat] /\ \A x \in Nodes : N.circuit[c].hnode[x] \in Nat
  BY <1>0, CircuitIs DEF NodeType
<1>3. ASSUME NEW x \in Nodes, N.circuit[c].hnode[x] > 0
      PROVE  Pointing(S, x) = 0
  <2>1. Linked(N, c) /\ x \in Behind(n, c[2])
    BY <1>3, LinkedIs
  <2>2. \A d \in Circuits : N.circuit[d].hnode[x] > 0 => d = c
    BY <2>1, ReachedOnce
  <2>3. {u \in S.user : u.at = x} = {}
    <3>1. ASSUME NEW u \in N.user, u.at = x
          PROVE  u \in Users(N, c)
      BY <2>1, <3>1, ReachedBy DEF Users
    <3> QED BY <1>1, <3>1
  <2>4. {d \in Circuits : S.circuit[d].rtcflags = "linked" /\ cn_find(S.circuit[d], x)} = {}
    BY <1>1, <2>2 DEF Linked, cn_find
  <2>5. Cardinality({}) = 0
    BY FS_EmptySet
  <2> DEFINE A == {u \in S.user : u.at = x}
             B == {d \in Circuits : S.circuit[d].rtcflags = "linked" /\ cn_find(S.circuit[d], x)}
  <2>6. Pointing(S, x) = Cardinality(A) + Cardinality(B)
    BY DEF Pointing
  <2>7. A = {} /\ B = {}
    BY <2>3, <2>4
  <2> HIDE DEF A, B
  <2> QED BY <2>5, <2>6, <2>7
<1>4. ASSUME NEW x \in Nodes
      PROVE  DroppedNode(N, n, c)[x] = IF N.circuit[c].hnode[x] > 0 THEN 0 ELSE N.node[x]
  <2>1. Lost(N, c, x) = N.circuit[c].hnode[x]
    BY LostIs
  <2>2. DroppedNode(N, n, c)[x] =
           IF Lost(N, c, x) = 0 \/ S.node[x] > Lost(N, c, x)
           THEN S.node[x] - Lost(N, c, x) ELSE Pointing(S, x)
    BY DEF DroppedNode
  <2>3. N.circuit[c].hnode[x] > 0 => N.node[x] = N.circuit[c].hnode[x]
    BY LinkedIs
  <2> HIDE DEF S
  <2>4. CASE N.circuit[c].hnode[x] > 0
    BY <1>1, <1>2, <1>3, <2>1, <2>2, <2>3, <2>4
  <2>5. CASE ~(N.circuit[c].hnode[x] > 0)
    BY <1>1, <1>2, <2>1, <2>2, <2>5
  <2> QED BY <2>4, <2>5
<1>5. DroppedNode(N, n, c) = [x \in Nodes |-> DroppedNode(N, n, c)[x]]
  BY DEF DroppedNode
<1>6. DroppedNode(N, n, c) \in [Nodes -> Nat]
  BY <1>2, <1>4, <1>5
<1> QED BY <1>4, <1>6

\* What dropping circuit c makes of n.
Drops(N, n, c, K) ==
    /\ NodeType(K) /\ K.user = N.user \ Users(N, c)
    /\ \A x \in Nodes : K.node[x] = IF N.circuit[c].hnode[x] > 0 THEN 0 ELSE N.node[x]
    /\ \A d \in Circuits \ {c} :
          /\ SameButTx(K.circuit[d], N.circuit[d])
          /\ K.circuit[d].tx = IF Linked(N, d) /\ N.circuit[d].session = "open"
                               THEN N.circuit[d].tx \o News(N, n, c, N.circuit[d])
                               ELSE N.circuit[d].tx
    /\ K.circuit[c].hnode = NoCircuit.hnode /\ K.circuit[c].refcnt = 0
    /\ K.circuit[c].rtcflags = "nil" /\ K.circuit[c].session = N.circuit[c].session
    /\ K.circuit[c].tx = N.circuit[c].tx

\* link_drop, but for CleanUp.
LEMMA DropMakes ==
    ASSUME net \in Networks, net.tree, NEW n \in Nodes, NEW N, NodeOK(n, N), NEW c \in Circuits
    PROVE  \E K : link_drop(N, n, c) = CleanUp(K) /\ Drops(N, n, c, K)
<1> DEFINE S == Dropping(N, n, c)
           g == DroppedNode(N, n, c)
           V == [S EXCEPT !.node = g]
           K == Freed(V, c)
<1>1. NodeType(N) /\ S = Dropping(N, n, c) /\ K = Freed(V, c) /\ V = [S EXCEPT !.node = g]
  BY DEF NodeOK
<1>2. link_drop(N, n, c) = CleanUp(K)
  BY DropIs
<1>3. g \in [Nodes -> Nat]
      /\ \A x \in Nodes : g[x] = IF N.circuit[c].hnode[x] > 0 THEN 0 ELSE N.node[x]
  BY DroppedNodeIs
<1> HIDE DEF S, g, V, K
<1>4. /\ NodeType(S) /\ S.user = N.user \ Users(N, c)
      /\ \A d \in Circuits \ {c} :
                 /\ SameButTx(S.circuit[d], N.circuit[d])
                 /\ S.circuit[d].tx =
                       IF Linked(N, d) /\ N.circuit[d].session = "open"
                       THEN N.circuit[d].tx \o News(N, n, c, N.circuit[d]) ELSE N.circuit[d].tx
      /\ S.circuit[c].session = N.circuit[c].session
      /\ S.circuit[c].tx = N.circuit[c].tx
  BY <1>1, DroppingIs
<1>5. NodeType(V) /\ V.node = g /\ V.user = S.user /\ V.circuit = S.circuit
  <2>1. V = [S EXCEPT !.node = g] /\ NodeType(S) /\ g \in [Nodes -> Nat]
    BY <1>1, <1>3, <1>4
  <2> QED BY <2>1, NodesBecome
<1>6. /\ NodeType(K) /\ SameButCircuits(V, K)
      /\ \A d \in Circuits \ {c} : K.circuit[d] = V.circuit[d]
      /\ K.circuit[c].hnode = NoCircuit.hnode /\ K.circuit[c].refcnt = 0
      /\ K.circuit[c].rtcflags = "nil" /\ K.circuit[c].session = V.circuit[c].session
      /\ K.circuit[c].tx = V.circuit[c].tx
  <2>1. K = Freed(V, c) /\ NodeType(V)
    BY <1>1, <1>5
  <2> QED BY <2>1, FreedIs
<1>7. K.user = N.user \ Users(N, c) /\ K.node = g
  BY <1>4, <1>5, <1>6 DEF SameButCircuits
<1>8. Drops(N, n, c, K)
  BY <1>3, <1>4, <1>5, <1>6, <1>7 DEF Drops
<1> QED BY <1>2, <1>8

\* It leaves a node as it should be.
LEMMA DropsOK ==
    ASSUME net \in Networks, net.tree, NEW n \in Nodes, NEW N, NodeOK(n, N), NEW c \in Circuits,
           NEW K, Drops(N, n, c, K)
    PROVE  NodeOK(n, K)
<1>1. /\ NodeType(K) /\ K.user = N.user \ Users(N, c) /\ ~Linked(K, c)
      /\ \A d \in Circuits \ {c} : /\ SameButTx(K.circuit[d], N.circuit[d])
                                   /\ Linked(K, d) = Linked(N, d)
                                   /\ K.circuit[d].hnode = N.circuit[d].hnode
      /\ \A x \in Nodes : K.node[x] = IF N.circuit[c].hnode[x] > 0 THEN 0 ELSE N.node[x]
      /\ \A x \in Nodes : K.circuit[c].hnode[x] = 0
      /\ K.circuit[c].hnode = NoCircuit.hnode /\ K.circuit[c].refcnt = 0
      /\ K.circuit[c].rtcflags = "nil" /\ K.circuit[c].session = N.circuit[c].session
      /\ K.circuit[c].tx = N.circuit[c].tx
      /\ NodeType(N)
  BY DEF Drops, SameButTx, Linked, NoCircuit, NodeOK
<1>2. ASSUME NEW x \in Nodes, N.circuit[c].hnode[x] > 0
      PROVE  x # n /\ \A d \in Circuits : N.circuit[d].hnode[x] > 0 => d = c
  <2>1. Linked(N, c) /\ x \in Behind(n, c[2])
    BY <1>2, LinkedIs
  <2> QED BY <2>1, ReachedOnce
<1>3. /\ \A d \in Circuits : d # c => Users(K, d) = Users(N, d)
                                      /\ \A x : Guests(K, d, x) = Guests(N, d, x)
      /\ Users(K, Local) = Users(N, Local)
      /\ Users(K, c) = {} /\ \A x : Guests(K, c, x) = {}
  BY <1>1, LocalAssumption DEF Users, Guests
<1>4. ASSUME NEW u \in K.user
      PROVE  \/ u.via = Local /\ u.at = n
             \/ u.via \in Circuits /\ K.circuit[u.via].hnode[u.at] > 0
  <2>1. u \in N.user /\ u.via # c
    BY <1>1 DEF Users
  <2> QED BY <1>1, <2>1 DEF NodeOK
<1>5. \A d, e \in Circuits : Linked(K, d) /\ Linked(K, e) /\ d[2] = e[2] => d = e
  BY <1>1 DEF NodeOK
<1>6. ASSUME NEW d \in Circuits, d # c
      PROVE  CircuitOK(n, K, d)
  <2>1. CircuitOK(n, N, d)
    BY DEF NodeOK
  <2>2. SessionOK(n, K.circuit[d], d)
    <3>1. K.circuit[d].tx = N.circuit[d].tx \/ N.circuit[d].session = "open"
      BY <1>6 DEF Drops
    <3> QED BY <1>1, <1>6, <2>1, <3>1, SessionSame DEF CircuitOK
  <2>3. K.circuit[d].refcnt = Cardinality(Users(K, d))
    BY <1>1, <1>3, <1>6, <2>1 DEF CircuitOK, SameButTx
  <2>4. ASSUME NEW x \in Nodes
        PROVE  /\ K.circuit[d].hnode[x] > 0 => x \in Behind(n, d[2]) /\ K.node[x] = K.circuit[d].hnode[x]
               /\ K.circuit[d].hnode[x] \in IF Guests(K, d, x) = {} THEN {0, 1}
                                            ELSE {Cardinality(Guests(K, d, x)) + 1}
    <3>1. K.circuit[d].hnode[x] = N.circuit[d].hnode[x] /\ Guests(K, d, x) = Guests(N, d, x)
      BY <1>1, <1>3, <1>6
    <3>2. N.circuit[d].hnode[x] > 0 => ~(N.circuit[c].hnode[x] > 0)
      BY <1>2, <1>6
    <3>3. N.circuit[d].hnode[x] > 0 => x \in Behind(n, d[2]) /\ N.node[x] = N.circuit[d].hnode[x]
      BY <2>1 DEF CircuitOK
    <3>4. N.circuit[d].hnode[x] \in IF Guests(N, d, x) = {} THEN {0, 1}
                                    ELSE {Cardinality(Guests(N, d, x)) + 1}
      BY <2>1 DEF CircuitOK
    <3> QED BY <1>1, <3>1, <3>2, <3>3, <3>4
  <2>5. /\ Linked(K, d) => K.circuit[d].hnode[d[2]] > 0
        /\ ~Linked(K, d) => K.circuit[d].hnode = NoCircuit.hnode
    BY <1>1, <1>6, <2>1 DEF CircuitOK
  <2> QED BY <2>2, <2>3, <2>4, <2>5 DEF CircuitOK
<1>7. CircuitOK(n, K, c)
  <2>1. SessionOK(n, N.circuit[c], c)
    BY DEF NodeOK, CircuitOK
  <2>2. SessionOK(n, K.circuit[c], c)
    BY <1>1, <2>1 DEF SessionOK
  <2>3. Cardinality({}) = 0
    BY FS_EmptySet
  <2> QED BY <1>1, <1>3, <2>2, <2>3 DEF CircuitOK
<1>8. K.node[n] = Cardinality(Users(K, Local))
  <2>1. ~(N.circuit[c].hnode[n] > 0)
    BY <1>2
  <2> QED BY <1>1, <1>3, <2>1 DEF NodeOK
<1>9. ASSUME NEW x \in Nodes \ {n}, K.node[x] > 0
      PROVE  \E d \in Circuits : K.circuit[d].hnode[x] > 0
  <2>1. ~(N.circuit[c].hnode[x] > 0) /\ N.node[x] > 0
    BY <1>1, <1>9
  <2>2. PICK d \in Circuits : N.circuit[d].hnode[x] > 0
    BY <2>1 DEF NodeOK
  <2> QED BY <1>1, <2>1, <2>2
<1>10. \A u, v \in K.user : u.call = v.call /\ u.at = v.at => u = v
  BY <1>1 DEF NodeOK
<1>11. \A d \in Circuits : CircuitOK(n, K, d)
  BY <1>6, <1>7
<1> QED BY <1>1, <1>4, <1>5, <1>8, <1>9, <1>10, <1>11 DEF NodeOK

\* There is nothing to drop where nothing is linked.
LEMMA DropsNothing ==
    ASSUME net \in Networks, net.tree, NEW n \in Nodes, NEW N, NodeOK(n, N), NEW c \in Circuits,
           ~Linked(N, c), NEW K, Drops(N, n, c, K)
    PROVE  /\ K.user = N.user /\ K.node = N.node
           /\ \A p \in Circuits : /\ K.circuit[p].hnode = N.circuit[p].hnode
                                  /\ K.circuit[p].refcnt = N.circuit[p].refcnt
                                  /\ K.circuit[p].tx = N.circuit[p].tx
                                  /\ K.circuit[p].session = N.circuit[p].session
                                  /\ Linked(K, p) = Linked(N, p)
                                  /\ p # c => K.circuit[p].rtcflags = N.circuit[p].rtcflags
<1>1. Users(N, c) = {}
  BY UsersBehind
<1>2. Reached(N, c) = {}
  BY LinkedIs DEF Reached, cn_find
<1>3. K.user = N.user
  BY <1>1 DEF Drops
<1>4. NodeType(N) /\ NodeType(K)
  BY DEF NodeOK, Drops
<1>5. K.node = N.node
  <2>1. \A x \in Nodes : ~(N.circuit[c].hnode[x] > 0)
    BY LinkedIs
  <2>2. \A x \in Nodes : K.node[x] = N.node[x]
    BY <2>1 DEF Drops
  <2>3. K.node \in [Nodes -> Nat] /\ N.node \in [Nodes -> Nat]
    BY <1>4 DEF NodeType
  <2> QED BY <2>2, <2>3
<1>6. ASSUME NEW D
      PROVE  News(N, n, c, D) = << >>
  <2> DEFINE s == News(N, n, c, D)
  <2>1. /\ s \in Seq(Lines)
        /\ \A k \in DOMAIN s : (\E u : u \in Users(N, c)) \/ s[k].call \in Reached(N, c)
    BY <1>4, NewsIs
  <2> HIDE DEF s
  <2>2. DOMAIN s = {}
    BY <1>1, <1>2, <2>1
  <2>3. Len(s) \in Nat /\ DOMAIN s = 1..Len(s)
    BY <2>1
  <2>4. Len(s) = 0
    BY <2>2, <2>3
  <2>5. s = << >>
    BY <2>1, <2>4
  <2> QED BY <2>5 DEF s
<1>7. ASSUME NEW p \in Circuits, p # c
      PROVE  /\ K.circuit[p].tx = N.circuit[p].tx /\ SameButTx(K.circuit[p], N.circuit[p])
  <2>1. N.circuit[p].tx \in Seq(Lines)
    BY <1>4, CircuitIs
  <2>2. N.circuit[p].tx \o << >> = N.circuit[p].tx
    BY <2>1, ConcatNone
  <2>3. News(N, n, c, N.circuit[p]) = << >>
    BY <1>6
  <2> QED BY <1>7, <2>2, <2>3 DEF Drops
<1>8. /\ K.circuit[c].hnode = N.circuit[c].hnode /\ K.circuit[c].refcnt = N.circuit[c].refcnt
      /\ K.circuit[c].tx = N.circuit[c].tx /\ K.circuit[c].session = N.circuit[c].session
      /\ ~Linked(K, c)
  <2>1. CircuitOK(n, N, c)
    BY DEF NodeOK
  <2>2. N.circuit[c].hnode = NoCircuit.hnode /\ N.circuit[c].refcnt = Cardinality({})
    BY <1>1, <2>1 DEF CircuitOK
  <2>3. Cardinality({}) = 0
    BY FS_EmptySet
  <2> QED BY <2>2, <2>3 DEF Drops, Linked
<1> QED BY <1>3, <1>5, <1>7, <1>8 DEF SameButTx, Linked

\* The others are told of it.
LEMMA DropsTold ==
    ASSUME net \in Networks, net.tree, NEW n \in Nodes, NEW N, NodeOK(n, N), NEW c \in Circuits,
           NEW K, Drops(N, n, c, K), NEW p \in Circuits \ {c}
    PROVE  Tells(n, N, K, p)
<1>1. /\ NodeType(N) /\ SameButTx(K.circuit[p], N.circuit[p])
      /\ Linked(K, p) = Linked(N, p) /\ K.circuit[p].session = N.circuit[p].session
  BY DEF Drops, NodeOK, SameButTx, Linked
<1>2. CASE ~(Linked(N, p) /\ N.circuit[p].session = "open")
  <2>1. K.circuit[p].tx = N.circuit[p].tx
    BY <1>2 DEF Drops
  <2> QED BY <1>1, <1>2, <2>1, TellsNone
<1>3. CASE ~Linked(N, c)
  <2>1. K.user = N.user /\ K.circuit[p].tx = N.circuit[p].tx
    BY <1>3, DropsNothing
  <2>2. \A call, x : user_find(N, call, x) => user_find(K, call, x)
    BY <2>1 DEF user_find
  <2> QED BY <1>1, <2>1, <2>2, TellsNone
<1>4. CASE Linked(N, p) /\ N.circuit[p].session = "open" /\ Linked(N, c)
  <2> DEFINE s == News(N, n, c, N.circuit[p])
  <2>1. K.circuit[p].tx = N.circuit[p].tx \o s
    BY <1>4 DEF Drops
  <2>2. /\ Adjacent(n, p[2]) /\ Adjacent(n, c[2]) /\ c[2] # p[2]
    BY <1>4, LinkedIs DEF NodeOK
  <2>3. \A x \in Behind(n, c[2]) : x \in Behind(p[2], n) /\ x # n
    BY <1>4, <2>2, KnownBehind
  <2>4. \A u \in Users(N, c) : u.at \in Behind(n, c[2]) /\ ~cn_find(N.circuit[p], u.at)
    <3>1. \A u \in Users(N, c) : u.at \in Behind(n, c[2])
      BY UsersBehind
    <3> QED BY <1>4, <3>1, ReachedOnce DEF cn_find
  <2>5. \A x \in Reached(N, c) : x \in Behind(n, c[2])
    BY LinkedIs DEF Reached, cn_find
  <2>6. /\ s \in Seq(Lines)
        /\ \A k \in DOMAIN s :
             \/ s[k].kind = "leave" /\ \E u \in Users(N, c) : s[k].node = u.at
             \/ /\ s[k].kind = "unlink" /\ s[k].call \in Reached(N, c)
                /\ \A u \in Users(N, c) : \E j \in DOMAIN s : j < k /\ Says(s[j], "leave", u.call, u.at)
        /\ \A u \in Users(N, c) : \E j \in DOMAIN s : Says(s[j], "leave", u.call, u.at)
    <3> DEFINE D == N.circuit[p]
    <3>1. \A u \in Users(N, c) : ~cn_find(D, u.at)
      BY <2>4
    <3> HIDE DEF D
    <3>2. /\ News(N, n, c, D) \in Seq(Lines)
          /\ \A k \in DOMAIN News(N, n, c, D) :
                LET L == News(N, n, c, D)[k] IN
                \/ L.kind = "leave" /\ \E u \in Users(N, c) : L.node = u.at /\ L.call = u.call
                \/ /\ L.kind = "unlink" /\ L.call \in Reached(N, c)
                   /\ \A u \in Users(N, c) : ~cn_find(D, u.at) =>
                         \E j \in DOMAIN News(N, n, c, D) :
                             j < k /\ Says(News(N, n, c, D)[j], "leave", u.call, u.at)
          /\ \A u \in Users(N, c) : ~cn_find(D, u.at) =>
                \E j \in DOMAIN News(N, n, c, D) : Says(News(N, n, c, D)[j], "leave", u.call, u.at)
      BY <1>1, NewsIs
    <3>3. s = News(N, n, c, D)
      BY DEF D
    <3> HIDE DEF s
    <3> QED BY <3>1, <3>2, <3>3
  <2> HIDE DEF s
  <2>7. \A k \in DOMAIN s : FromSide(p[2], n, s[k]) /\ s[k].kind # "join"
    BY <2>3, <2>4, <2>5, <2>6 DEF FromSide
  <2>8. ASSUME NEW call \in Calls, NEW x \in Behind(p[2], n), user_find(N, call, x), ~user_find(K, call, x)
        PROVE  \E j \in DOMAIN s : Says(s[j], "leave", call, x)
    <3>1. PICK u \in N.user : u.call = call /\ u.at = x
      BY <2>8 DEF user_find
    <3>2. u \in Users(N, c)
      BY <2>8, <3>1 DEF Drops, user_find
    <3> QED BY <2>6, <3>1, <3>2
  <2>9. ASSUME NEW k \in DOMAIN s, s[k].kind = "unlink", NEW call \in Calls, user_find(N, call, s[k].call)
        PROVE  \E j \in DOMAIN s : j < k /\ Says(s[j], "leave", call, s[k].call)
    <3>1. PICK u \in N.user : u.call = call /\ u.at = s[k].call
      BY <2>9 DEF user_find
    <3>2. s[k].call \in Behind(n, c[2])
      BY <2>5, <2>6, <2>9
    <3>3. u \in Users(N, c)
      BY <1>4, <3>1, <3>2, ReachedBy DEF Users
    <3> QED BY <2>6, <2>9, <3>1, <3>3
  <2>10. Sends(n, N, K, p, s)
    BY <1>1, <1>4, <2>1, <2>7, <2>8, <2>9 DEF Sends, Says
  <2> QED BY <2>6, <2>10 DEF Tells
<1> QED BY <1>2, <1>3, <1>4

\* link_drop.
LEMMA LinkDropIs ==
    ASSUME net \in Networks, net.tree, NEW n \in Nodes, NEW N, NodeOK(n, N), NEW c \in Circuits
    PROVE  /\ Drops(N, n, c, link_drop(N, n, c)) /\ NodeOK(n, link_drop(N, n, c))
           /\ \A p \in Circuits \ {c} : Tells(n, N, link_drop(N, n, c), p)
<1>1. PICK K : link_drop(N, n, c) = CleanUp(K) /\ Drops(N, n, c, K)
  BY DropMakes
<1>2. NodeOK(n, K)
  BY <1>1, DropsOK
<1>3. link_drop(N, n, c) = K
  BY <1>1, <1>2, CleanUpIs
<1>4. \A p \in Circuits \ {c} : Tells(n, N, K, p)
  BY <1>1, DropsTold
<1> QED BY <1>1, <1>2, <1>3, <1>4

\* circuit_free, on a circuit that is not linked.
LEMMA FreeIs ==
    ASSUME NEW n \in Nodes, NEW N, NodeOK(n, N), NEW c \in Circuits, ~Linked(N, c),
           Users(N, c) = {}, NEW K, K = circuit_free(N, c)
    PROVE  /\ NodeOK(n, K) /\ K.user = N.user /\ K.node = N.node
           /\ K.circuit[c].rtcflags = "nil"
           /\ \A p \in Circuits : /\ K.circuit[p].tx = N.circuit[p].tx
                                  /\ K.circuit[p].session = N.circuit[p].session
                                  /\ Linked(K, p) = Linked(N, p)
<1> DEFINE F == Freed(N, c)
<1>1. NodeType(N) /\ F = Freed(N, c) /\ circuit_free(N, c) = CleanUp(F)
  BY DEF NodeOK, circuit_free, Freed
<1> HIDE DEF F
<1>2. /\ NodeType(F) /\ SameButCircuits(N, F)
      /\ \A d \in Circuits \ {c} : F.circuit[d] = N.circuit[d]
      /\ F.circuit[c].hnode = NoCircuit.hnode /\ F.circuit[c].refcnt = 0
      /\ F.circuit[c].rtcflags = "nil" /\ F.circuit[c].session = N.circuit[c].session
      /\ F.circuit[c].tx = N.circuit[c].tx
  BY <1>1, FreedIs
<1>3. \A d \in Circuits : CircuitOK(n, N, d)
  BY DEF NodeOK
<1>4. F.circuit[c].hnode = N.circuit[c].hnode /\ F.circuit[c].refcnt = N.circuit[c].refcnt
  <2>1. N.circuit[c].hnode = NoCircuit.hnode /\ N.circuit[c].refcnt = Cardinality({})
    BY <1>3 DEF CircuitOK
  <2>2. Cardinality({}) = 0
    BY FS_EmptySet
  <2> QED BY <1>2, <2>1, <2>2
<1>5. F.node = N.node /\ F.user = N.user
  BY <1>2 DEF SameButCircuits
<1>6. ASSUME NEW d \in Circuits
      PROVE  /\ F.circuit[d].hnode = N.circuit[d].hnode
             /\ F.circuit[d].refcnt = N.circuit[d].refcnt
             /\ Linked(F, d) = Linked(N, d)
             /\ SessionOK(n, F.circuit[d], d)
  <2>1. SessionOK(n, N.circuit[d], d)
    BY <1>3 DEF CircuitOK
  <2>2. SessionOK(n, F.circuit[d], d)
    BY <1>2, <2>1 DEF SessionOK
  <2>3. Linked(F, d) = Linked(N, d)
    BY <1>2 DEF Linked
  <2> QED BY <1>2, <1>4, <2>2, <2>3
<1>7. NodeOK(n, F)
  BY <1>2, <1>5, <1>6, OnlyFlags
<1>8. K = F
  BY <1>1, <1>7, CleanUpIs
<1> QED BY <1>2, <1>5, <1>6, <1>7, <1>8

\* What OldClosed leaves is what it found, but for the old circuit, which was being
\* called for.
LEMMA OldClosedIs ==
    ASSUME net \in Networks, net.tree, NEW n \in Nodes, NEW N, NodeOK(n, N), NEW c \in Circuits,
           ~node_find(N, c[2]), N.circuit[c].rtcflags = "linkwait", NEW S, S = OldClosed(N, n, c)
    PROVE  /\ NodeOK(n, S) /\ Unseen(N, S)
           /\ S.circuit[c].rtcflags = "linkwait" /\ S.circuit[c].session = N.circuit[c].session
           /\ S.circuit[c].tx = N.circuit[c].tx
<1> DEFINE old == {d \in circuit_hd(N) : d[2] = c[2]}
<1>0. \A d \in Circuits : SessionOK(n, N.circuit[d], d)
  BY DEF NodeOK, CircuitOK
<1>1. CASE N.link[c[2]] \notin {"linked", "linkini"} \/ old = {}
  <2>1. S = N
    BY <1>1 DEF OldClosed
  <2>2. Unseen(N, N)
    BY DEF Unseen, Calm
  <2> QED BY <2>1, <2>2
<1>2. CASE ~(N.link[c[2]] \notin {"linked", "linkini"} \/ old = {})
  <2> DEFINE d == CHOOSE d \in old : TRUE
             D == Disconnect(N, {d})
  <2>1. d \in old /\ S = link_drop(D, n, d) /\ D = Disconnect(N, {d})
    BY <1>2 DEF OldClosed
  <2> HIDE DEF d, D
  <2>2. d \in Circuits /\ N.circuit[d].rtcflags \in {"linked", "linkini"} /\ d[2] = c[2] /\ d # c
    BY <2>1 DEF circuit_hd
  <2>3. ~Linked(N, d)
    <3>1. N.circuit[d].hnode[c[2]] > 0 => N.node[c[2]] > 0
      <4>1. c[2] \in Nodes
        BY PeerIs
      <4>2. \A x \in Nodes : N.circuit[d].hnode[x] > 0 => N.node[x] = N.circuit[d].hnode[x]
        BY <2>2, LinkedIs
      <4> QED BY <4>1, <4>2
    <3> QED BY <2>2, <3>1, LinkedIs DEF node_find
  <2>4. N.circuit[d].session \notin {"free", "shut"}
    BY <1>0, <2>2 DEF SessionOK
  <2>5. NodeOK(n, D)
    BY <2>1, <2>4, DisconnectStep DEF Step
  <2>6. /\ D.user = N.user /\ D.node = N.node
        /\ \A e \in Circuits :
              /\ D.circuit[e].hnode = N.circuit[e].hnode
              /\ D.circuit[e].refcnt = N.circuit[e].refcnt
              /\ D.circuit[e].tx = N.circuit[e].tx
              /\ D.circuit[e].rtcflags = N.circuit[e].rtcflags
              /\ D.circuit[e].session = IF e \in {d} /\ N.circuit[e].session # "lost"
                                        THEN "closing" ELSE N.circuit[e].session
    BY <2>1, DisconnectIs DEF NodeOK, SameButCircuits
  <2>7. ~Linked(D, d)
    BY <2>2, <2>3, <2>6 DEF Linked
  <2>8. NodeOK(n, S) /\ Drops(D, n, d, S)
    BY <2>1, <2>2, <2>5, LinkDropIs
  <2>9. /\ S.user = D.user /\ S.node = D.node
        /\ \A p \in Circuits : /\ S.circuit[p].hnode = D.circuit[p].hnode
                               /\ S.circuit[p].refcnt = D.circuit[p].refcnt
                               /\ S.circuit[p].tx = D.circuit[p].tx
                               /\ S.circuit[p].session = D.circuit[p].session
                               /\ Linked(S, p) = Linked(D, p)
                               /\ p # d => S.circuit[p].rtcflags = D.circuit[p].rtcflags
    BY <2>2, <2>5, <2>7, <2>8, DropsNothing
  <2>10. ASSUME NEW p \in Circuits
         PROVE  /\ S.circuit[p].hnode = N.circuit[p].hnode
                /\ S.circuit[p].refcnt = N.circuit[p].refcnt
                /\ S.circuit[p].tx = N.circuit[p].tx
                /\ Linked(S, p) = Linked(N, p)
                /\ S.circuit[p].session \in {N.circuit[p].session, "closing"}
                /\ N.circuit[p].session = "free" => S.circuit[p].session = "free"
    BY <2>4, <2>6, <2>9 DEF Linked
  <2>11. NodeType(S) /\ S.user = N.user /\ S.node = N.node
    BY <2>6, <2>8, <2>9 DEF NodeOK
  <2>12. Unseen(N, S)
    BY <2>10, <2>11 DEF Unseen, Calm
  <2> QED BY <2>2, <2>6, <2>8, <2>9, <2>12
<1> QED BY <1>1, <1>2

(***************************************************************************)
(* state_tell.                                                             *)
(***************************************************************************)
\* The lines about users that a new link may be told of them.
UsersTold(N) == {L \in Lines : /\ L.kind \in {"join", "topic"}
                               /\ L.kind = "join" => user_find(N, L.call, L.node)}

\* What is said of the users of s.
Told(n, m, s) == FoldLeft(LAMBDA lines, u : lines \o UserLines(n, m, u), << >>, s)

\* What is said of a user.
LEMMA UserLinesIs ==
    ASSUME NEW n \in Nodes, NEW m, NEW N, NodeType(N), NEW u \in N.user
    PROVE  UserLines(n, m, u) \in Seq(UsersTold(N))
<1> DEFINE T == UsersTold(N)
           J == Line("join", u.at, u.call, deftopic)
           C == Line("topic", n, u.call, u.topic)
<1>1. u.at \in Nodes /\ u.call \in Calls /\ u.topic \in Topics
  <2>1. u \in UserRecs
    BY DEF NodeType
  <2> QED BY <2>1 DEF UserRecs
<1>2. J \in Lines /\ J.kind = "join" /\ J.node = u.at /\ J.call = u.call
  BY <1>1, LineIs, TopicAssumption
<1>3. C \in Lines /\ C.kind = "topic"
  BY <1>1, LineIs
<1>4. UserLines(n, m, u) = (IF u.at = m THEN << >> ELSE << J >>) \o << C >>
  BY DEF UserLines
<1> HIDE DEF J, C
<1>5. J \in T /\ C \in T
  <2>1. user_find(N, u.call, u.at)
    BY DEF user_find
  <2> QED BY <1>2, <1>3, <2>1 DEF UsersTold
<1> HIDE DEF T
<1>6. << J >> \in Seq(T) /\ << C >> \in Seq(T) /\ << >> \in Seq(T)
  BY <1>5, OneIs
<1>7. << >> \o << C >> \in Seq(T) /\ << J >> \o << C >> \in Seq(T)
  BY <1>6, ConcatIs
<1> QED BY <1>4, <1>7 DEF T

\* What is said of users.
LEMMA ToldIs ==
    ASSUME NEW n \in Nodes, NEW m, NEW N, NodeType(N), NEW s \in Seq(N.user)
    PROVE  Told(n, m, s) \in Seq(UsersTold(N))
<1> DEFINE l == Len(s)
           T == UsersTold(N)
           St == Seq(T)
           none == << >>
           op(q, u) == q \o UserLines(n, m, u)
           Rec(g) == [x \in SUBSET (1..l) |->
                        IF x = {} THEN none ELSE op(g[x \ {Max(x)}], s[Max(x)])]
           iter == CHOOSE g : g = Rec(g)
           Good == [k \in 0..l |-> St]
<1>1. l \in Nat /\ DOMAIN s = 1..l /\ \A i \in 1..l : s[i] \in N.user
  OBVIOUS
<1>2. Told(n, m, s) = iter[1..l]
  <2> DEFINE D == DOMAIN s
             RecD(g) == [x \in SUBSET D |-> IF x = {} THEN none ELSE op(g[x \ {Max(x)}], s[Max(x)])]
             iterD == CHOOSE g : g = RecD(g)
  <2>1. D = 1..l
    BY <1>1
  <2>2. Told(n, m, s) = iterD[D]
    BY DEF Told, FoldLeft, MapThenFoldSet
  <2> HIDE DEF D, op, none
  <2>3. \A g : RecD(g) = Rec(g)
    BY <2>1
  <2>4. iterD = iter
    <3> HIDE DEF Rec, RecD
    <3> QED BY <2>3
  <2> HIDE DEF iter, iterD
  <2> QED BY <2>1, <2>2, <2>4
<1>3. ASSUME NEW q \in St, NEW i \in 1..l PROVE op(q, s[i]) \in St
  <2>1. UserLines(n, m, s[i]) \in Seq(T)
    BY <1>1, UserLinesIs
  <2> DEFINE v == UserLines(n, m, s[i])
  <2> HIDE DEF T, v
  <2>2. v \in Seq(T) /\ q \in Seq(T)
    BY <2>1 DEF v
  <2>3. q \o v \in Seq(T)
    BY <2>2, ConcatIs
  <2> QED BY <2>3 DEF v
<1>4. none \in St
  <2> HIDE DEF T
  <2> QED OBVIOUS
<1> HIDE DEF op, none, St
<1>5. \A x \in SUBSET (1..l) : iter[x] = IF x = {} THEN none ELSE op(iter[x \ {Max(x)}], s[Max(x)])
  <2>0. PICK step \in [1..l -> [St -> St]] :
             step = [i \in 1..l |-> [q \in St |-> op(q, s[i])]]
    BY <1>3
  <2>1. PICK f \in [SUBSET (1..l) -> St] : IsFold(f, none, step, l)
    <3> HIDE DEF iter, Rec, l
    <3> QED BY <1>1, <1>4, FoldExists
  <2>2. \A x \in SUBSET (1..l) : x # {} => Max(x) \in 1..l
    BY <1>1, MaxIsGreatest
  <2>3. \A x \in SUBSET (1..l) : f[x] = IF x = {} THEN none ELSE op(f[x \ {Max(x)}], s[Max(x)])
    BY <1>1, <2>0, <2>1, <2>2 DEF IsFold
  <2>4. f = Rec(f)
    BY <2>3
  <2>5. iter = Rec(iter)
    BY <2>4
  <2> HIDE DEF iter
  <2> QED BY <2>5
<1>6. iter[{}] \in Good[0]
  <2>1. iter[{}] = none
    <3> HIDE DEF iter
    <3> QED BY <1>5
  <2>2. 0 \in 0..l
    BY <1>1
  <2> QED BY <1>4, <2>1, <2>2
<1>7. ASSUME NEW k \in 0..(l - 1), iter[1..k] \in Good[k]
      PROVE  iter[1..(k + 1)] \in Good[k + 1]
  <2> HIDE DEF iter
  <2>1. /\ k \in Nat /\ k + 1 \in 0..l /\ k \in 0..l /\ k + 1 \in 1..l
        /\ 1..(k + 1) \in SUBSET (1..l)
    BY <1>1
  <2>2. iter[1..(k + 1)] = op(iter[1..k], s[k + 1])
    <3>1. /\ 1..(k + 1) # {} /\ Max(1..(k + 1)) = k + 1
          /\ (1..(k + 1)) \ {k + 1} = 1..k
      BY <2>1, FirstButLast
    <3> DEFINE X == 1..(k + 1)
    <3>2. X \in SUBSET (1..l) /\ X # {} /\ Max(X) = k + 1 /\ X \ {k + 1} = 1..k
      BY <2>1, <3>1
    <3> HIDE DEF X
    <3>3. iter[X] = op(iter[X \ {Max(X)}], s[Max(X)])
      BY <1>5, <3>2
    <3> QED BY <3>2, <3>3 DEF X
  <2>3. iter[1..k] \in St
    BY <1>7, <2>1
  <2>4. op(iter[1..k], s[k + 1]) \in St
    BY <1>3, <2>1, <2>3
  <2> QED BY <2>1, <2>2, <2>4
<1>8. iter[1..l] \in Good[l]
  <2> HIDE DEF iter, Good, l
  <2> QED BY <1>1, <1>6, <1>7, FoldKeeps
<1>9. iter[1..l] \in St
  <2>1. l \in 0..l
    BY <1>1
  <2> HIDE DEF iter
  <2> QED BY <1>8, <2>1
<1> QED BY <1>2, <1>9 DEF St

\* What a new link is told.
Dump(N, n, m) ==
    SetToSeq({Line("link", n, x, deftopic) : x \in {x \in Nodes \ {n, m} : node_find(N, x)}})
    \o Told(n, m, SetToSeq(N.user))

\* What a new neighbour is told: nodes that are on the list, and users that are.
LEMMA DumpIs ==
    ASSUME NEW n \in Nodes, NEW m, NEW N, NodeType(N)
    PROVE  /\ Dump(N, n, m) \in Seq(Lines)
           /\ \A k \in DOMAIN Dump(N, n, m) :
                LET L == Dump(N, n, m)[k] IN
                \/ L.kind = "link" /\ L.call \in Nodes \ {n, m} /\ node_find(N, L.call)
                \/ L \in UsersTold(N)
<1> DEFINE xs == {x \in Nodes \ {n, m} : node_find(N, x)}
           h == [x \in xs |-> Line("link", n, x, deftopic)]
           B == {Line("link", n, x, deftopic) : x \in xs}
           s == SetToSeq(B)
           v == SetToSeq(N.user)
           t == Told(n, m, v)
           w == Dump(N, n, m)
<1>1. xs \subseteq Nodes /\ IsFiniteSet(xs) /\ \A x \in xs : x \in Nodes \ {n, m} /\ node_find(N, x)
  <2>1. xs \subseteq Nodes /\ IsFiniteSet(Nodes) /\ \A x \in xs : x \in Nodes \ {n, m} /\ node_find(N, x)
    BY TopicAssumption
  <2> HIDE DEF xs
  <2> QED BY <2>1, FS_Subset
<1>2. B \subseteq Lines /\ IsFiniteSet(B) /\ \A L \in B : L.kind = "link" /\ L.call \in xs
  <2>1. ASSUME NEW x \in xs
        PROVE  h[x] \in Lines /\ h[x].kind = "link" /\ h[x].call = x
    BY <1>1, LineIs, TopicAssumption
  <2>2. B = {h[x] : x \in xs} /\ DOMAIN h = xs
    OBVIOUS
  <2> HIDE DEF h, B, xs
  <2>3. IsFiniteSet(B)
    BY <1>1, <2>2, ImageIsFinite
  <2> QED BY <2>1, <2>2, <2>3
<1>3. w = s \o t
  BY DEF Dump
<1>4. t \in Seq(UsersTold(N))
  <2>1. IsFiniteSet(N.user)
    BY DEF NodeType
  <2>2. v \in Seq(N.user)
    BY <2>1, SetToSeqIs
  <2> HIDE DEF v
  <2> QED BY <2>2, ToldIs
<1> HIDE DEF B, xs, t
<1>5. s \in Seq(Lines) /\ \A i \in DOMAIN s : s[i] \in B
  BY <1>2, LinesIs
<1> HIDE DEF s, w
<1> DEFINE p == Len(s)
           q == Len(t)
<1>6. t \in Seq(Lines) /\ \A i \in DOMAIN t : t[i] \in UsersTold(N)
  <2> DEFINE T == UsersTold(N)
  <2>1. T \subseteq Lines /\ t \in Seq(T)
    BY <1>4 DEF UsersTold
  <2> HIDE DEF T
  <2>2. \A i \in DOMAIN t : t[i] \in T
    BY <2>1
  <2>3. Len(t) \in Nat /\ DOMAIN t = 1..Len(t) /\ t = [i \in 1..Len(t) |-> t[i]]
    BY <2>1
  <2>4. t \in [1..Len(t) -> Lines]
    BY <2>1, <2>2, <2>3
  <2>5. t \in Seq(Lines)
    BY <2>3, <2>4, MapIsSeq
  <2> QED BY <2>2, <2>5 DEF T
<1>7. /\ w \in Seq(Lines) /\ p \in Nat /\ q \in Nat /\ DOMAIN s = 1..p /\ DOMAIN t = 1..q
      /\ DOMAIN w = 1..(p + q)
      /\ \A i \in 1..p : w[i] = s[i]
      /\ \A i \in 1..q : w[p + i] = t[i]
  BY <1>3, <1>5, <1>6, ConcatIs
<1> HIDE DEF p, q
<1>8. ASSUME NEW k \in DOMAIN w
      PROVE  \/ w[k].kind = "link" /\ w[k].call \in xs
             \/ w[k] \in UsersTold(N)
  <2>1. CASE k \in 1..p
    BY <1>2, <1>5, <1>7, <2>1
  <2>2. CASE k \notin 1..p
    <3>1. k - p \in 1..q /\ k = p + (k - p)
      BY <1>7, <2>2
    <3> QED BY <1>6, <1>7, <3>1
  <2> QED BY <2>1, <2>2
<1> QED BY <1>1, <1>7, <1>8 DEF w

\* M is N with a reference of c to x more.
Counts(N, c, x, M) ==
    /\ NodeType(M) /\ M.user = N.user
    /\ \A y \in Nodes : M.node[y] = IF y = x THEN N.node[y] + 1 ELSE N.node[y]
    /\ \A d \in Circuits \ {c} : M.circuit[d] = N.circuit[d]
    /\ M.circuit[c].rtcflags = N.circuit[c].rtcflags
    /\ M.circuit[c].session = N.circuit[c].session
    /\ M.circuit[c].refcnt = N.circuit[c].refcnt
    /\ M.circuit[c].tx = N.circuit[c].tx
    /\ M.circuit[c] \in CircuitRecs
    /\ \A y \in Nodes : M.circuit[c].hnode[y] =
          IF y = x THEN N.circuit[c].hnode[y] + 1 ELSE N.circuit[c].hnode[y]

\* cn_inc.
LEMMA CnIncIs ==
    ASSUME NEW N, NodeType(N), NEW c \in Circuits, NEW x \in Nodes, NEW M, M = cn_inc(N, c, x)
    PROVE  Counts(N, c, x, M)
<1> DEFINE C == N.circuit[c]
           h == [C.hnode EXCEPT ![x] = @ + 1]
           D == [C EXCEPT !.hnode = h]
           g == [N.node EXCEPT ![x] = @ + 1]
           V == [N EXCEPT !.node = g]
           f == [N.circuit EXCEPT ![c] = D]
<1>1. N.circuit \in [Circuits -> CircuitRecs] /\ C \in CircuitRecs /\ C.hnode \in [Nodes -> Nat]
      /\ N.node \in [Nodes -> Nat]
  BY CircuitIs DEF NodeType
<1>2. h \in [Nodes -> Nat] /\ g \in [Nodes -> Nat]
      /\ \A y \in Nodes : /\ h[y] = IF y = x THEN C.hnode[y] + 1 ELSE C.hnode[y]
                          /\ g[y] = IF y = x THEN N.node[y] + 1 ELSE N.node[y]
  BY <1>1
<1>3. N = [node |-> N.node, user |-> N.user, link |-> N.link,
            RunningConnectScript |-> N.RunningConnectScript, circuit |-> N.circuit,
            DupInfo |-> N.DupInfo, heard |-> N.heard]
  BY DEF NodeType
<1>4. [C EXCEPT !.hnode[x] = @ + 1] = D
  BY <1>1 DEF CircuitRecs
<1>5. M = [V EXCEPT !.circuit = f]
  BY <1>1, <1>3, <1>4 DEF cn_inc
<1> HIDE DEF h
<1>6. /\ D \in CircuitRecs /\ D.rtcflags = C.rtcflags /\ D.session = C.session
      /\ D.refcnt = C.refcnt /\ D.tx = C.tx /\ D.hnode = h
  BY <1>1, <1>2 DEF CircuitRecs
<1> HIDE DEF D
<1>7. f \in [Circuits -> CircuitRecs] /\ f[c] = D /\ \A d \in Circuits : d # c => f[d] = N.circuit[d]
  BY <1>1, <1>6
<1> HIDE DEF f, g
<1>8. NodeType(V) /\ V.node = g /\ V.user = N.user /\ V.circuit = N.circuit
  BY <1>2, NodesBecome
<1> HIDE DEF V
<1>9. NodeType(M) /\ M.circuit = f /\ SameButCircuits(V, M)
  BY <1>5, <1>7, <1>8, CircuitsBecome
<1>10. M.user = N.user /\ M.node = g
  BY <1>8, <1>9 DEF SameButCircuits
<1> QED BY <1>2, <1>6, <1>7, <1>9, <1>10 DEF Counts

\* Circuit c has come up, and what is to be said first is said.
Greets(N, L, c, greet) ==
    /\ NodeType(L) /\ L.node = N.node /\ L.user = N.user
    /\ \A d \in Circuits \ {c} : L.circuit[d] = N.circuit[d]
    /\ L.circuit[c].rtcflags = "linked" /\ L.circuit[c].session = N.circuit[c].session
    /\ L.circuit[c].hnode = N.circuit[c].hnode /\ L.circuit[c].refcnt = N.circuit[c].refcnt
    /\ L.circuit[c].tx = N.circuit[c].tx \o greet

\* K is L with the other end of c told of all, and all told of it.
Introduces(L, n, c, K) ==
    /\ NodeType(K) /\ K.user = L.user
    /\ \A y \in Nodes : K.node[y] = IF y = c[2] THEN L.node[y] + 1 ELSE L.node[y]
    /\ \A d \in Circuits \ {c} :
          /\ SameButTx(K.circuit[d], L.circuit[d])
          /\ K.circuit[d].tx = L.circuit[d].tx \o
                Maybe(EchoedTo(L, Local, c[2], d), Line("link", n, c[2], deftopic))
    /\ K.circuit[c].rtcflags = L.circuit[c].rtcflags
    /\ K.circuit[c].session = L.circuit[c].session
    /\ K.circuit[c].refcnt = L.circuit[c].refcnt
    /\ K.circuit[c].tx = L.circuit[c].tx \o Dump(L, n, c[2])
    /\ \A y \in Nodes : K.circuit[c].hnode[y] =
          IF y = c[2] THEN L.circuit[c].hnode[y] + 1 ELSE L.circuit[c].hnode[y]

\* state_tell.
LEMMA StateTellIs ==
    ASSUME NEW n \in Nodes, NEW L, NodeType(L), NEW c \in Circuits,
           L.circuit[c].session = "open", NEW K, K = state_tell(L, n, c, c[2])
    PROVE  Introduces(L, n, c, K)
<1> DEFINE m == c[2]
           C1 == cn_inc(L, c, m)
           line == Line("link", n, m, deftopic)
           T == echo(C1, Local, m, line)
           dump == Dump(L, n, m)
           D == Send(T.circuit[c], dump)
<1>1. m \in Nodes /\ C1 = cn_inc(L, c, m) /\ T = echo(C1, Local, m, line)
  BY PeerIs
<1>2. K = [T EXCEPT !.circuit[c] = D]
  BY DEF state_tell, Tell, Dump, Told
<1>3. line \in Lines
  BY <1>1, LineIs, TopicAssumption
<1>4. dump \in Seq(Lines)
  BY DumpIs
<1> HIDE DEF C1, T, m, line, dump
<1>5. /\ NodeType(C1) /\ C1.user = L.user
      /\ \A y \in Nodes : C1.node[y] = IF y = m THEN L.node[y] + 1 ELSE L.node[y]
      /\ \A d \in Circuits \ {c} : C1.circuit[d] = L.circuit[d]
      /\ C1.circuit[c].rtcflags = L.circuit[c].rtcflags
      /\ C1.circuit[c].session = L.circuit[c].session
      /\ C1.circuit[c].refcnt = L.circuit[c].refcnt
      /\ C1.circuit[c].tx = L.circuit[c].tx
      /\ C1.circuit[c] \in CircuitRecs
      /\ \A y \in Nodes : C1.circuit[c].hnode[y] =
            IF y = m THEN L.circuit[c].hnode[y] + 1 ELSE L.circuit[c].hnode[y]
  <2>1. Counts(L, c, m, C1)
    BY <1>1, CnIncIs
  <2> QED BY <2>1 DEF Counts
<1>6. /\ NodeType(T) /\ SameButCircuits(C1, T)
      /\ \A d \in Circuits :
            /\ SameButTx(T.circuit[d], C1.circuit[d])
            /\ T.circuit[d].tx = C1.circuit[d].tx \o Maybe(EchoedTo(C1, Local, m, d), line)
  <2>1. Echoes(C1, Local, m, line, T)
    BY <1>1, <1>3, <1>5, EchoIs
  <2> QED BY <2>1 DEF Echoes
<1>7. T.circuit[c] \in CircuitRecs /\ C1.circuit[c].tx \in Seq(Lines)
  BY <1>5, <1>6, CircuitIs
<1>8. T.circuit[c].tx = L.circuit[c].tx
  <2>1. L.circuit[c].hnode \in [Nodes -> Nat]
    BY CircuitIs
  <2>2. ~EchoedTo(C1, Local, m, c)
    BY <1>1, <1>5, <2>1 DEF EchoedTo, cn_find
  <2>3. C1.circuit[c].tx \o << >> = C1.circuit[c].tx
    BY <1>7, ConcatNone
  <2> QED BY <1>5, <1>6, <2>2, <2>3 DEF Maybe
<1>9. /\ D \in CircuitRecs /\ SameButTx(D, T.circuit[c])
      /\ D.tx = IF T.circuit[c].session = "open" THEN T.circuit[c].tx \o dump ELSE T.circuit[c].tx
  BY <1>4, <1>7, SendIs
<1>10. T.circuit[c].session = "open"
  BY <1>5, <1>6 DEF SameButTx
<1> HIDE DEF D
<1>11. /\ NodeType(K) /\ SameButCircuits(T, K) /\ K.circuit[c] = D
       /\ \A d \in Circuits : d # c => K.circuit[d] = T.circuit[d]
  BY <1>2, <1>6, <1>9, CircuitBecomes
<1>12. K.user = L.user /\ K.node = C1.node
  BY <1>5, <1>6, <1>11 DEF SameButCircuits
<1>13. ASSUME NEW d \in Circuits \ {c}
       PROVE  /\ SameButTx(K.circuit[d], L.circuit[d])
              /\ K.circuit[d].tx = L.circuit[d].tx \o Maybe(EchoedTo(L, Local, m, d), line)
  <2>1. EchoedTo(C1, Local, m, d) = EchoedTo(L, Local, m, d)
    BY <1>5 DEF EchoedTo, Linked
  <2>2. C1.circuit[d] = L.circuit[d] /\ K.circuit[d] = T.circuit[d]
    BY <1>5, <1>11
  <2> QED BY <1>6, <2>1, <2>2
<1>14. /\ K.circuit[c].rtcflags = L.circuit[c].rtcflags
       /\ K.circuit[c].session = L.circuit[c].session
       /\ K.circuit[c].refcnt = L.circuit[c].refcnt
       /\ K.circuit[c].tx = L.circuit[c].tx \o dump
       /\ K.circuit[c].hnode = C1.circuit[c].hnode
  BY <1>5, <1>6, <1>8, <1>9, <1>10, <1>11 DEF SameButTx
<1>15. /\ NodeType(K) /\ K.user = L.user
       /\ \A y \in Nodes : K.node[y] = IF y = m THEN L.node[y] + 1 ELSE L.node[y]
       /\ \A y \in Nodes : K.circuit[c].hnode[y] =
                 IF y = m THEN L.circuit[c].hnode[y] + 1 ELSE L.circuit[c].hnode[y]
  BY <1>5, <1>11, <1>12, <1>14
<1> HIDE DEF EchoedTo, Maybe
<1> QED BY <1>13, <1>14, <1>15 DEF m, dump, line, Introduces

\* The link to c[2] is up.
LEMMA LinkUpOK ==
    ASSUME net \in Networks, net.tree, NEW n \in Nodes, NEW N, NodeOK(n, N), NEW c \in Circuits,
           N.circuit[c].session = "open", ~Linked(N, c), ~node_find(N, c[2]),
           NEW greet \in Seq(Lines), NEW L, Greets(N, L, c, greet),
           NEW K, Introduces(L, n, c, K)
    PROVE  NodeOK(n, K)
<1> DEFINE m == c[2]
<1>1. m \in Nodes /\ Adjacent(n, m) /\ m # n /\ m \in Behind(n, m)
  <2>1. Adjacent(n, m)
    BY DEF NodeOK, CircuitOK, SessionOK
  <2> QED BY <2>1, CutIs, BehindIs
<1>2. N.node[m] = 0
  <2>1. N.node[m] \in Nat
    BY <1>1 DEF NodeOK, NodeType
  <2> QED BY <2>1 DEF node_find
<1>3. /\ \A u \in N.user : u.at # m
      /\ \A d \in Circuits : N.circuit[d].hnode[m] = 0
  BY <1>1, <1>2, NobodyThere
<1>4. \A d \in Circuits : CircuitOK(n, N, d)
  BY DEF NodeOK
<1>5. /\ N.circuit[c].hnode = NoCircuit.hnode /\ N.circuit[c].refcnt = Cardinality(Users(N, c))
      /\ \A x \in Nodes : N.circuit[c].hnode[x] = 0
  BY <1>4 DEF CircuitOK, NoCircuit
<1>6. /\ NodeType(K) /\ K.user = N.user
      /\ \A y \in Nodes : K.node[y] = IF y = m THEN N.node[y] + 1 ELSE N.node[y]
      /\ \A d \in Circuits \ {c} : SameButTx(K.circuit[d], N.circuit[d])
      /\ Linked(K, c) /\ K.circuit[c].session = "open"
      /\ K.circuit[c].refcnt = N.circuit[c].refcnt
      /\ \A y \in Nodes : K.circuit[c].hnode[y] = IF y = m THEN 1 ELSE 0
  <2>1. /\ L.user = N.user /\ L.node = N.node
        /\ \A d \in Circuits \ {c} : L.circuit[d] = N.circuit[d]
        /\ L.circuit[c].rtcflags = "linked" /\ L.circuit[c].session = "open"
        /\ L.circuit[c].refcnt = N.circuit[c].refcnt
        /\ \A x \in Nodes : L.circuit[c].hnode[x] = 0
    BY <1>5 DEF Greets
  <2>2. /\ NodeType(K) /\ K.user = L.user
        /\ \A d \in Circuits \ {c} : SameButTx(K.circuit[d], L.circuit[d])
        /\ K.circuit[c].rtcflags = L.circuit[c].rtcflags
        /\ K.circuit[c].session = L.circuit[c].session
        /\ K.circuit[c].refcnt = L.circuit[c].refcnt
    BY DEF Introduces
  <2>3. \A y \in Nodes : K.node[y] = IF y = m THEN L.node[y] + 1 ELSE L.node[y]
    BY DEF Introduces
  <2>4. \A y \in Nodes : K.circuit[c].hnode[y] =
                            IF y = m THEN L.circuit[c].hnode[y] + 1 ELSE L.circuit[c].hnode[y]
    BY DEF Introduces
  <2> HIDE DEF m
  <2>5. \A y \in Nodes : K.circuit[c].hnode[y] = IF y = m THEN 1 ELSE 0
    BY <2>1, <2>4
  <2>6. \A d \in Circuits \ {c} : SameButTx(K.circuit[d], N.circuit[d])
    BY <2>1, <2>2
  <2> QED BY <2>1, <2>2, <2>3, <2>5, <2>6 DEF Linked
<1>7. \A d \in Circuits \ {c} : /\ K.circuit[d].hnode = N.circuit[d].hnode
                                /\ K.circuit[d].refcnt = N.circuit[d].refcnt
                                /\ Linked(K, d) = Linked(N, d)
  BY <1>6 DEF SameButTx, Linked
<1>8. /\ Users(K, Local) = Users(N, Local)
      /\ \A d : Users(K, d) = Users(N, d) /\ \A x : Guests(K, d, x) = Guests(N, d, x)
  BY <1>6 DEF Users, Guests
<1>9. Users(N, c) = {}
  BY UsersBehind
<1>10. ASSUME NEW d \in Circuits, d # c, Linked(N, d)
       PROVE  d[2] # m
  BY <1>3, <1>10, LinkedIs
<1>11. \A d, e \in Circuits : Linked(K, d) /\ Linked(K, e) /\ d[2] = e[2] => d = e
  BY <1>7, <1>10 DEF NodeOK
<1>12. ASSUME NEW d \in Circuits, d # c
       PROVE  CircuitOK(n, K, d)
  <2>1. K.circuit[d].tx = N.circuit[d].tx \/ N.circuit[d].session = "open"
    <3>1. N.circuit[d].tx \in Seq(Lines)
      BY CircuitIs DEF NodeOK
    <3>2. N.circuit[d].tx \o << >> = N.circuit[d].tx
      BY <3>1, ConcatNone
    <3>3. L.circuit[d] = N.circuit[d]
      BY <1>12 DEF Greets
    <3> DEFINE line == Line("link", n, c[2], deftopic)
    <3>4. K.circuit[d].tx = N.circuit[d].tx \o Maybe(EchoedTo(L, Local, c[2], d), line)
      BY <1>12, <3>3 DEF Introduces
    <3>5. EchoedTo(L, Local, c[2], d) => N.circuit[d].session = "open"
      BY <3>3 DEF EchoedTo
    <3> HIDE DEF line
    <3> QED BY <3>2, <3>4, <3>5 DEF Maybe
  <2>2. SessionOK(n, K.circuit[d], d)
    BY <1>4, <1>6, <1>12, <2>1, SessionSame DEF CircuitOK
  <2>3. ASSUME NEW x \in Nodes
        PROVE  /\ K.circuit[d].hnode[x] > 0 => x \in Behind(n, d[2]) /\ K.node[x] = K.circuit[d].hnode[x]
               /\ K.circuit[d].hnode[x] \in IF Guests(K, d, x) = {} THEN {0, 1}
                                            ELSE {Cardinality(Guests(K, d, x)) + 1}
    <3>1. x # m \/ ~(N.circuit[d].hnode[x] > 0)
      BY <1>3
    <3>2. K.circuit[d].hnode[x] = N.circuit[d].hnode[x] /\ Guests(K, d, x) = Guests(N, d, x)
      BY <1>7, <1>8, <1>12
    <3>3. N.circuit[d].hnode[x] > 0 => x \in Behind(n, d[2]) /\ N.node[x] = N.circuit[d].hnode[x]
      BY <1>4 DEF CircuitOK
    <3>4. N.circuit[d].hnode[x] \in IF Guests(N, d, x) = {} THEN {0, 1}
                                    ELSE {Cardinality(Guests(N, d, x)) + 1}
      BY <1>4 DEF CircuitOK
    <3> QED BY <1>6, <3>1, <3>2, <3>3, <3>4
  <2>4. /\ Linked(K, d) => K.circuit[d].hnode[d[2]] > 0
        /\ ~Linked(K, d) => K.circuit[d].hnode = NoCircuit.hnode
        /\ K.circuit[d].refcnt = Cardinality(Users(K, d))
    BY <1>4, <1>7, <1>8, <1>12 DEF CircuitOK
  <2> QED BY <2>2, <2>3, <2>4 DEF CircuitOK
<1>13. CircuitOK(n, K, c)
  <2>1. SessionOK(n, K.circuit[c], c)
    BY <1>1, <1>6 DEF SessionOK
  <2>2. K.circuit[c].hnode[c[2]] > 0
    BY <1>1, <1>6
  <2>3. K.circuit[c].refcnt = Cardinality(Users(K, c))
    BY <1>5, <1>6, <1>8
  <2>4. ASSUME NEW x \in Nodes
        PROVE  /\ K.circuit[c].hnode[x] > 0 => x \in Behind(n, c[2]) /\ K.node[x] = K.circuit[c].hnode[x]
               /\ K.circuit[c].hnode[x] \in IF Guests(K, c, x) = {} THEN {0, 1}
                                            ELSE {Cardinality(Guests(K, c, x)) + 1}
    <3>1. Guests(K, c, x) = {}
      BY <1>8, <1>9 DEF Guests, Users
    <3> QED BY <1>1, <1>2, <1>6, <3>1
  <2> QED BY <1>6, <2>1, <2>2, <2>3, <2>4 DEF CircuitOK
<1>14. K.node[n] = Cardinality(Users(K, Local))
  BY <1>1, <1>6, <1>8 DEF NodeOK
<1>15. ASSUME NEW x \in Nodes \ {n}, K.node[x] > 0
       PROVE  \E d \in Circuits : K.circuit[d].hnode[x] > 0
  <2>1. CASE x = m
    BY <1>6, <2>1
  <2>2. CASE x # m
    <3>1. PICK d \in Circuits : N.circuit[d].hnode[x] > 0
      BY <1>6, <1>15, <2>2 DEF NodeOK
    <3>2. d # c
      BY <1>5, <3>1
    <3> QED BY <1>7, <3>1, <3>2
  <2> QED BY <2>1, <2>2
<1>16. ASSUME NEW u \in K.user
       PROVE  \/ u.via = Local /\ u.at = n
              \/ u.via \in Circuits /\ K.circuit[u.via].hnode[u.at] > 0
  <2>1. u \in N.user
    BY <1>6
  <2>2. u.via # c
    BY <1>9, <2>1 DEF Users
  <2> QED BY <1>7, <2>1, <2>2 DEF NodeOK
<1>17. \A d \in Circuits : CircuitOK(n, K, d)
  BY <1>12, <1>13
<1>18. \A u, v \in K.user : u.call = v.call /\ u.at = v.at => u = v
  BY <1>6 DEF NodeOK
<1> QED BY <1>6, <1>11, <1>14, <1>15, <1>16, <1>17, <1>18 DEF NodeOK

\* All are told what they must know when it is.
LEMMA LinkUpTold ==
    ASSUME net \in Networks, net.tree, NEW n \in Nodes, NEW N, NodeOK(n, N), NEW c \in Circuits,
           N.circuit[c].session = "open", ~Linked(N, c), ~node_find(N, c[2]),
           NEW greet \in Seq(Lines), \A k \in DOMAIN greet : greet[k].kind = "OK",
           NEW L, Greets(N, L, c, greet), NEW K, Introduces(L, n, c, K), NEW p \in Circuits
    PROVE  Tells(n, N, K, p)
<1> DEFINE m == c[2]
<1>1. m \in Nodes /\ Adjacent(n, m) /\ m # n /\ m \in Behind(n, m) /\ n \in Behind(m, n)
  <2>1. Adjacent(n, m)
    BY DEF NodeOK, CircuitOK, SessionOK
  <2> QED BY <2>1, CutIs, BehindIs, AdjacentBack
<1>2. N.node[m] = 0 /\ NodeType(N)
  <2>1. N.node[m] \in Nat
    BY <1>1 DEF NodeOK, NodeType
  <2> QED BY <2>1 DEF node_find, NodeOK
<1>3. \A d \in Circuits : N.circuit[d].hnode[m] = 0
  BY <1>1, <1>2, NobodyThere
<1>4. K.user = N.user /\ \A call, x : user_find(K, call, x) = user_find(N, call, x)
  <2>1. K.user = L.user
    BY DEF Introduces
  <2>2. L.user = N.user
    BY DEF Greets
  <2> QED BY <2>1, <2>2 DEF user_find
<1>5. ASSUME NEW d \in Circuits, d # c, Linked(N, d)
      PROVE  d[2] # m /\ Adjacent(n, d[2])
  BY <1>3, <1>5, LinkedIs
<1>6. CASE p # c
  <2> DEFINE line == Line("link", n, m, deftopic)
             b == EchoedTo(N, Local, m, p)
  <2>1. line \in Lines /\ line.kind = "link" /\ line.call = m
    BY <1>1, LineIs, TopicAssumption
  <2>2. /\ K.circuit[p].tx = N.circuit[p].tx \o Maybe(b, line)
        /\ SameButTx(K.circuit[p], N.circuit[p])
    <3>1. L.circuit[p] = N.circuit[p]
      BY <1>6 DEF Greets
    <3>2. EchoedTo(L, Local, m, p) = b
      BY <3>1 DEF EchoedTo, Linked
    <3> QED BY <1>6, <3>1, <3>2 DEF Introduces
  <2>3. b => /\ N.circuit[p].session = "open" /\ Linked(N, p) /\ FromSide(p[2], n, line)
    <3> SUFFICES ASSUME b
                 PROVE  /\ N.circuit[p].session = "open" /\ Linked(N, p)
                        /\ FromSide(p[2], n, line)
      OBVIOUS
    <3>1. N.circuit[p].session = "open" /\ Linked(N, p)
      BY DEF EchoedTo
    <3>2. Adjacent(n, p[2]) /\ p[2] # m
      BY <1>5, <1>6, <3>1
    <3>3. m \in Behind(p[2], n) \ {n}
      BY <1>1, <3>2, BehindThrough
    <3> QED BY <2>1, <3>1, <3>3 DEF FromSide
  <2>4. b \in BOOLEAN
    BY DEF EchoedTo, Linked
  <2> HIDE DEF b, line
  <2> QED BY <1>2, <1>4, <2>1, <2>2, <2>3, <2>4, TellsLine
<1>7. CASE p = c
  <2> DEFINE w == N.circuit[c].tx
             dump == Dump(L, n, m)
             s == greet \o dump
  <2>1. /\ dump \in Seq(Lines)
        /\ \A k \in DOMAIN dump :
             \/ dump[k].kind = "link" /\ dump[k].call \in Nodes \ {n, m} /\ node_find(N, dump[k].call)
             \/ dump[k].kind = "topic"
             \/ dump[k].kind = "join" /\ user_find(N, dump[k].call, dump[k].node)
    <3>1. /\ dump \in Seq(Lines)
          /\ \A k \in DOMAIN dump :
               \/ dump[k].kind = "link" /\ dump[k].call \in Nodes \ {n, m} /\ node_find(L, dump[k].call)
               \/ dump[k] \in UsersTold(L)
      BY DumpIs DEF Greets
    <3> HIDE DEF dump
    <3> QED BY <3>1 DEF UsersTold, Greets, user_find, node_find
  <2>2. w \in Seq(Lines)
    BY <1>2, CircuitIs
  <2>3. K.circuit[c].tx = (w \o greet) \o dump
    BY DEF Introduces, Greets
  <2> HIDE DEF w, dump
  <2>4. K.circuit[c].tx = w \o s
    BY <2>1, <2>2, <2>3, ConcatAssociative
  <2>5. s \in Seq(Lines) /\ \A k \in DOMAIN s :
             \/ s[k].kind \in {"OK", "topic"}
             \/ s[k].kind = "link" /\ s[k].call \in Nodes \ {n, m} /\ node_find(N, s[k].call)
             \/ s[k].kind = "join" /\ user_find(N, s[k].call, s[k].node)
    <3> DEFINE p1 == Len(greet)
               p2 == Len(dump)
    <3> HIDE DEF s
    <3>1. /\ s \in Seq(Lines) /\ p1 \in Nat /\ p2 \in Nat /\ DOMAIN greet = 1..p1 /\ DOMAIN dump = 1..p2
          /\ DOMAIN s = 1..(p1 + p2)
          /\ \A i \in 1..p1 : s[i] = greet[i]
          /\ \A i \in 1..p2 : s[p1 + i] = dump[i]
      BY <2>1, ConcatIs DEF s
    <3> HIDE DEF p1, p2
    <3>2. ASSUME NEW k \in DOMAIN s
          PROVE  s[k].kind = "OK" \/ \E i \in DOMAIN dump : s[k] = dump[i]
      <4>1. CASE k \in 1..p1
        BY <3>1, <4>1
      <4>2. CASE k \notin 1..p1
        <5>1. k - p1 \in 1..p2 /\ k = p1 + (k - p1)
          BY <3>1, <4>2
        <5> QED BY <3>1, <5>1
      <4> QED BY <4>1, <4>2
    <3> QED BY <2>1, <3>1, <3>2
  <2> HIDE DEF s
  <2>6. ASSUME NEW x \in Nodes \ {n}, x # m, node_find(N, x)
        PROVE  x \in Behind(m, n)
    <3>1. PICK d \in Circuits : N.circuit[d].hnode[x] > 0
      BY <2>6 DEF NodeOK, node_find
    <3>2. Linked(N, d) /\ x \in Behind(n, d[2])
      BY <3>1, LinkedIs
    <3>3. d[2] # m
      BY <1>5, <3>2
    <3> QED BY <1>1, <3>2, <3>3, KnownBehind
  <2>7. ASSUME NEW call, NEW x, user_find(N, call, x)
        PROVE  x \in Behind(m, n)
    <3>1. PICK u \in N.user : u.call = call /\ u.at = x
      BY <2>7 DEF user_find
    <3>2. CASE u.via = Local
      BY <1>1, <3>1, <3>2, UserIs
    <3>3. CASE u.via # Local
      <4>1. u.via \in Circuits /\ x \in Behind(n, u.via[2]) /\ Linked(N, u.via)
        BY <3>1, <3>3, UserIs
      <4>2. u.via[2] # m
        BY <1>5, <4>1
      <4> QED BY <1>1, <4>1, <4>2, KnownBehind
    <3> QED BY <3>2, <3>3
  <2>8. \A k \in DOMAIN s : FromSide(m, n, s[k]) /\ s[k].kind # "unlink"
    BY <2>5, <2>6, <2>7 DEF FromSide
  <2>9. \A call, x : \A k \in DOMAIN s : Says(s[k], "join", call, x) => user_find(K, call, x)
    BY <1>4, <2>5 DEF Says
  <2>10. Linked(K, c) /\ K.circuit[c].session = N.circuit[c].session
    BY DEF Introduces, Greets, Linked
  <2>11. Sends(n, N, K, c, s)
    BY <2>4, <2>8, <2>9, <2>10 DEF Sends, w
  <2> QED BY <1>7, <2>5, <2>11 DEF Tells
<1> QED BY <1>6, <1>7

\* K is N with circuit c become D.
Turns(N, c, D, K) ==
    /\ NodeType(K) /\ SameButCircuits(N, K) /\ K.circuit[c] = D
    /\ \A d \in Circuits : d # c => K.circuit[d] = N.circuit[d]

\* A node with one circuit changed.
LEMMA TurnsIs ==
    ASSUME NEW N, NodeType(N), NEW c \in Circuits, NEW D \in CircuitRecs,
           NEW K, K = [N EXCEPT !.circuit[c] = D]
    PROVE  Turns(N, c, D, K)
BY CircuitBecomes DEF Turns

\* N with circuit c disconnected, and no longer what it was.
Rejected(N, c) == [Disconnect(N, {c}) EXCEPT !.circuit[c].rtcflags = "nil"]

\* Answered and rtloginl, when the node is known already.
LEMMA Rejects ==
    ASSUME NEW n, NEW N, NodeOK(n, N), NEW c \in Circuits, N.circuit[c].session = "open",
           ~Linked(N, c), NEW K, K = Rejected(N, c)
    PROVE  Step(n, N, K) /\ K.user = N.user
<1> DEFINE M == Disconnect(N, {c})
           D == [M.circuit[c] EXCEPT !.rtcflags = "nil"]
<1>1. NodeType(N) /\ M = Disconnect(N, {c})
  BY DEF NodeOK
<1>2. Step(n, N, M)
  <2>1. \A d \in {c} \cap Circuits : N.circuit[d].session \notin {"free", "shut"}
    OBVIOUS
  <2> QED BY <2>1, DisconnectStep
<1> HIDE DEF M
<1>3. /\ NodeType(M) /\ M.node = N.node /\ M.user = N.user
      /\ \A d \in Circuits :
            /\ M.circuit[d].hnode = N.circuit[d].hnode
            /\ M.circuit[d].refcnt = N.circuit[d].refcnt
            /\ M.circuit[d].tx = N.circuit[d].tx
            /\ M.circuit[d].rtcflags = N.circuit[d].rtcflags
            /\ M.circuit[d].session = IF d \in {c} /\ N.circuit[d].session # "lost"
                                      THEN "closing" ELSE N.circuit[d].session
  BY <1>1, DisconnectIs DEF SameButCircuits
<1>4. M.circuit[c] \in CircuitRecs
  BY <1>3, CircuitIs
<1>5. /\ D \in CircuitRecs /\ D.hnode = M.circuit[c].hnode /\ D.refcnt = M.circuit[c].refcnt
      /\ D.tx = M.circuit[c].tx /\ D.rtcflags = "nil" /\ D.session = M.circuit[c].session
  BY <1>4 DEF CircuitRecs
<1>6. K = [M EXCEPT !.circuit[c] = D]
  <2>1. M = [node |-> M.node, user |-> M.user, link |-> M.link,
             RunningConnectScript |-> M.RunningConnectScript, circuit |-> M.circuit,
             DupInfo |-> M.DupInfo, heard |-> M.heard]
    BY <1>3 DEF NodeType
  <2>2. M.circuit \in [Circuits -> CircuitRecs]
    BY <1>3 DEF NodeType
  <2> QED BY <1>1, <2>1, <2>2 DEF Rejected
<1> HIDE DEF D
<1>7. /\ NodeType(K) /\ SameButCircuits(M, K) /\ K.circuit[c] = D
      /\ \A d \in Circuits : d # c => K.circuit[d] = M.circuit[d]
  <2>1. NodeType(M) /\ D \in CircuitRecs
    BY <1>3, <1>5
  <2>2. Turns(M, c, D, K)
    BY <1>6, <2>1, TurnsIs
  <2> QED BY <2>2 DEF Turns
<1>8. K.node = N.node /\ K.user = N.user
  BY <1>3, <1>7 DEF SameButCircuits
<1>9. ASSUME NEW d \in Circuits
      PROVE  /\ K.circuit[d].hnode = N.circuit[d].hnode
             /\ K.circuit[d].refcnt = N.circuit[d].refcnt
             /\ K.circuit[d].tx = N.circuit[d].tx
             /\ Linked(K, d) = Linked(N, d)
             /\ SessionOK(n, K.circuit[d], d)
             /\ K.circuit[d].session \in {N.circuit[d].session, "closing"}
             /\ N.circuit[d].session = "free" => K.circuit[d].session = "free"
  <2>1. SessionOK(n, M.circuit[d], d)
    BY <1>2 DEF Step, NodeOK, CircuitOK
  <2>2. CASE d = c
    <3>1. SessionOK(n, K.circuit[d], d)
      BY <1>5, <1>7, <2>1, <2>2 DEF SessionOK
    <3> QED BY <1>3, <1>5, <1>7, <2>2, <3>1 DEF Linked
  <2>3. CASE d # c
    <3>1. K.circuit[d] = M.circuit[d]
      BY <1>7, <2>3
    <3>2. SessionOK(n, K.circuit[d], d)
      BY <2>1, <3>1
    <3>3. K.circuit[d].session = N.circuit[d].session
      BY <1>3, <2>3, <3>1
    <3> QED BY <1>3, <3>1, <3>2, <3>3 DEF Linked
  <2> QED BY <2>2, <2>3
<1>10. Step(n, N, K)
  BY <1>7, <1>8, <1>9, QuietStep
<1> QED BY <1>8, <1>10

\* The link comes up.
LEMMA LinkUpStep ==
    ASSUME net \in Networks, net.tree, NEW n \in Nodes, NEW N, NodeOK(n, N), NEW c \in Circuits,
           N.circuit[c].session = "open", ~Linked(N, c), ~node_find(N, c[2]),
           NEW greet \in Seq(Lines), \A k \in DOMAIN greet : greet[k].kind = "OK",
           NEW L, Greets(N, L, c, greet), NEW K, K = state_tell(L, n, c, c[2])
    PROVE  Step(n, N, K) /\ K.user = N.user
<1>1. Introduces(L, n, c, K)
  BY StateTellIs DEF Greets
<1>2. NodeOK(n, K) /\ \A p \in Circuits : Tells(n, N, K, p)
  BY <1>1, LinkUpOK, LinkUpTold
<1>3. Calm(N, K)
  <2>1. K.circuit[c].session = N.circuit[c].session
    BY <1>1 DEF Introduces, Greets
  <2>2. ASSUME NEW d \in Circuits, d # c
        PROVE  K.circuit[d].session = N.circuit[d].session
    <3>1. SameButTx(K.circuit[d], L.circuit[d])
      BY <1>1, <2>2 DEF Introduces
    <3>2. L.circuit[d] = N.circuit[d]
      BY <2>2 DEF Greets
    <3> QED BY <3>1, <3>2 DEF SameButTx
  <2> QED BY <2>1, <2>2 DEF Calm
<1>4. K.user = N.user
  BY <1>1 DEF Introduces, Greets
<1> QED BY <1>2, <1>3, <1>4 DEF Step

\* *RTL is taken for the log in of the node at the other end.
LEMMA rtloginlStep ==
    ASSUME net \in Networks, net.tree, NEW n \in Nodes, NEW N, NodeOK(n, N), NEW c \in Circuits,
           N.circuit[c].session = "open", N.circuit[c].rtcflags = "linkwait"
    PROVE  Step(n, N, rtloginl(N, n, c)) /\ rtloginl(N, n, c).user = N.user
<1> DEFINE K == rtloginl(N, n, c)
<1>0. ~Linked(N, c)
  BY DEF Linked
<1>1. CASE node_find(N, c[2])
  <2>1. K = Rejected(N, c)
    BY <1>1 DEF rtloginl, Rejected
  <2> HIDE DEF K
  <2>2. Step(n, N, K) /\ K.user = N.user
    BY <1>0, <2>1, Rejects
  <2> QED BY <2>2 DEF K
<1>2. CASE ~node_find(N, c[2])
  <2> DEFINE S == OldClosed(N, n, c)
             OK == Line("OK", n, n, deftopic)
             lk == [S.link EXCEPT ![c[2]] = "linked"]
             D == [S.circuit[c] EXCEPT !.rtcflags = "linked", !.tx = Append(@, OK)]
             V == [S EXCEPT !.link = lk]
             L == [S EXCEPT !.circuit[c].rtcflags = "linked", !.link[c[2]] = "linked",
                            !.circuit[c].tx = Append(@, OK)]
  <2>1. K = state_tell(L, n, c, c[2])
    BY <1>2 DEF rtloginl
  <2>2. S = OldClosed(N, n, c)
    OBVIOUS
  <2> HIDE DEF S, K
  <2>3. /\ NodeOK(n, S) /\ Unseen(N, S)
        /\ S.circuit[c].rtcflags = "linkwait" /\ S.circuit[c].session = N.circuit[c].session
    BY <1>2, <2>2, OldClosedIs
  <2>4. NodeType(S) /\ S.circuit[c] \in CircuitRecs /\ S.circuit \in [Circuits -> CircuitRecs]
        /\ S.circuit[c].tx \in Seq(Lines)
    BY <2>3, CircuitIs DEF NodeOK
  <2>5. OK \in Lines /\ OK.kind = "OK"
    BY LineIs, TopicAssumption
  <2> HIDE DEF OK
  <2>6. /\ D \in CircuitRecs /\ D.rtcflags = "linked" /\ D.session = S.circuit[c].session
        /\ D.hnode = S.circuit[c].hnode /\ D.refcnt = S.circuit[c].refcnt
        /\ D.tx = S.circuit[c].tx \o << OK >>
    <3>1. Append(S.circuit[c].tx, OK) \in Seq(Lines)
          /\ Append(S.circuit[c].tx, OK) = S.circuit[c].tx \o << OK >>
      BY <2>4, <2>5
    <3> QED BY <2>4, <3>1 DEF CircuitRecs
  <2>7. lk \in [Nodes -> {"none", "linkini", "linked", "failed"}]
    <3>1. c[2] \in Nodes
      BY PeerIs
    <3> QED BY <2>4, <3>1 DEF NodeType
  <2>8. L = [V EXCEPT !.circuit[c] = D]
    <3>1. S = [node |-> S.node, user |-> S.user, link |-> S.link,
               RunningConnectScript |-> S.RunningConnectScript, circuit |-> S.circuit,
               DupInfo |-> S.DupInfo, heard |-> S.heard]
      BY <2>4 DEF NodeType
    <3> QED BY <2>4, <3>1 DEF CircuitRecs
  <2> HIDE DEF lk, D
  <2>9. NodeType(V) /\ SameFields(S, V)
    BY <2>4, <2>7, FieldsBecome
  <2> HIDE DEF V, L
  <2>10. /\ NodeType(L) /\ SameButCircuits(V, L) /\ L.circuit[c] = D
         /\ \A d \in Circuits : d # c => L.circuit[d] = V.circuit[d]
    BY <2>6, <2>8, <2>9, CircuitBecomes
  <2>11. Greets(S, L, c, << OK >>)
    BY <2>6, <2>9, <2>10 DEF Greets, SameButCircuits, SameFields
  <2> DEFINE greet == << OK >>
  <2>12. greet \in Seq(Lines) /\ \A k \in DOMAIN greet : greet[k].kind = "OK"
    BY <2>5, OneIs
  <2>13. ~node_find(S, c[2]) /\ ~Linked(S, c) /\ S.circuit[c].session = "open" /\ S.user = N.user
    BY <1>2, <2>3 DEF Unseen, node_find, Linked
  <2> HIDE DEF greet
  <2>14. Step(n, S, K) /\ K.user = S.user
    <3>1. Greets(S, L, c, greet)
      BY <2>11 DEF greet
    <3> QED BY <2>1, <2>3, <2>12, <2>13, <3>1, LinkUpStep
  <2>15. Step(n, N, K)
    BY <2>3, <2>14, QuietFirst
  <2> QED BY <2>13, <2>14, <2>15 DEF K
<1> QED BY <1>1, <1>2

\* A circuit is linked, and what is to be said first is said.
LEMMA GreetsIs ==
    ASSUME NEW S, NodeType(S), NEW c \in Circuits, NEW greet \in Seq(Lines),
           NEW D, D = [S.circuit[c] EXCEPT !.rtcflags = "linked", !.tx = @ \o greet],
           NEW V, V = [S EXCEPT !.link[c[2]] = "linked"],
           NEW L, L = [V EXCEPT !.circuit[c] = D]
    PROVE  Greets(S, L, c, greet)
<1> DEFINE lk == [S.link EXCEPT ![c[2]] = "linked"]
<1>1. S.circuit[c] \in CircuitRecs /\ S.circuit[c].tx \in Seq(Lines) /\ c[2] \in Nodes
  BY CircuitIs
<1>2. S.circuit[c].tx \o greet \in Seq(Lines)
  BY <1>1, ConcatIs
<1>3. /\ D \in CircuitRecs /\ D.rtcflags = "linked" /\ D.session = S.circuit[c].session
      /\ D.hnode = S.circuit[c].hnode /\ D.refcnt = S.circuit[c].refcnt
      /\ D.tx = S.circuit[c].tx \o greet
  BY <1>1, <1>2 DEF CircuitRecs
<1>4. lk \in [Nodes -> {"none", "linkini", "linked", "failed"}]
  BY <1>1 DEF NodeType
<1>5. V = [S EXCEPT !.link = lk]
  <2>1. S = [node |-> S.node, user |-> S.user, link |-> S.link,
             RunningConnectScript |-> S.RunningConnectScript, circuit |-> S.circuit,
             DupInfo |-> S.DupInfo, heard |-> S.heard]
    BY DEF NodeType
  <2> QED BY <2>1
<1> HIDE DEF lk
<1>6. NodeType(V) /\ SameFields(S, V)
  <2>1. NodeType([S EXCEPT !.link = lk]) /\ SameFields(S, [S EXCEPT !.link = lk])
    <3> DEFINE b == TRUE  h == << >>
    <3> HIDE DEF b, h
    <3>1. NodeType(S) /\ lk \in [Nodes -> {"none", "linkini", "linked", "failed"}]
      BY <1>4
    <3> QED BY <3>1, FieldsBecome
  <2> QED BY <1>5, <2>1
<1>7. Turns(V, c, D, L)
  BY <1>3, <1>6, TurnsIs
<1>8. V.node = S.node /\ V.user = S.user /\ V.circuit = S.circuit
  BY <1>6 DEF SameFields
<1>9. /\ NodeType(L) /\ L.node = V.node /\ L.user = V.user /\ L.circuit[c] = D
      /\ \A d \in Circuits : d # c => L.circuit[d] = V.circuit[d]
  BY <1>7 DEF Turns, SameButCircuits
<1>10. /\ NodeType(L) /\ L.node = S.node /\ L.user = S.user
       /\ \A d \in Circuits \ {c} : L.circuit[d] = S.circuit[d]
  BY <1>8, <1>9
<1>11. /\ L.circuit[c].rtcflags = "linked" /\ L.circuit[c].session = S.circuit[c].session
       /\ L.circuit[c].hnode = S.circuit[c].hnode /\ L.circuit[c].refcnt = S.circuit[c].refcnt
       /\ L.circuit[c].tx = S.circuit[c].tx \o greet
  BY <1>3, <1>9
<1> QED BY <1>10, <1>11 DEF Greets

\* The answer to *RTL.
LEMMA AnsweredStep ==
    ASSUME net \in Networks, net.tree, NEW n \in Nodes, NEW N, NodeOK(n, N), NEW c \in Circuits,
           N.circuit[c].session = "open", N.circuit[c].rtcflags = "linkini"
    PROVE  Step(n, N, Answered(N, n, c)) /\ Answered(N, n, c).user = N.user
<1> DEFINE S == [N EXCEPT !.RunningConnectScript = FALSE]
           K == Answered(N, n, c)
<1>1. NodeOK(n, S)
  BY ScriptEnds
<1>2. NodeType(N) /\ NodeType(S)
  BY <1>1 DEF NodeOK
<1>3. SameFields(N, S)
  <2> DEFINE lk == N.link  h == N.heard
  <2>1. lk \in [Nodes -> {"none", "linkini", "linked", "failed"}]
    BY <1>2 DEF NodeType
  <2> HIDE DEF lk
  <2> QED BY <1>2, <2>1, FieldsBecome
<1>4. K = IF node_find(N, c[2]) THEN Disconnect(S, {c})
          ELSE state_tell([S EXCEPT !.circuit[c].rtcflags = "linked",
                                    !.link[c[2]] = "linked"], n, c, c[2])
  BY DEF Answered
<1> HIDE DEF S, K
<1>5. /\ S.circuit = N.circuit /\ S.user = N.user /\ S.node = N.node
      /\ Unseen(N, S) /\ ~Linked(S, c) /\ S.circuit[c].session = "open"
  BY <1>3 DEF Unseen, Calm, SameFields, Linked
<1>6. CASE node_find(N, c[2])
  <2>1. K = Disconnect(S, {c})
    BY <1>4, <1>6
  <2>2. \A d \in {c} \cap Circuits : S.circuit[d].session \notin {"free", "shut"}
    BY <1>5
  <2>3. Step(n, S, Disconnect(S, {c}))
    BY <1>1, <2>2, DisconnectStep
  <2>4. Step(n, S, K)
    BY <2>1, <2>3
  <2>5. K.user = S.user
    BY <1>2, <2>1, DisconnectIs DEF SameButCircuits
  <2> QED BY <1>5, <2>4, <2>5, QuietFirst DEF K
<1>7. CASE ~node_find(N, c[2])
  <2> DEFINE V == [S EXCEPT !.link[c[2]] = "linked"]
             greet == << >>
             D == [S.circuit[c] EXCEPT !.rtcflags = "linked", !.tx = @ \o greet]
             L == [V EXCEPT !.circuit[c] = D]
  <2>1. S.circuit[c] \in CircuitRecs /\ S.circuit[c].tx \in Seq(Lines)
        /\ S.circuit \in [Circuits -> CircuitRecs]
    BY <1>2, CircuitIs
  <2>2. greet \in Seq(Lines) /\ S.circuit[c].tx \o greet = S.circuit[c].tx /\ DOMAIN greet = {}
    BY <2>1, ConcatNone
  <2>3. [S EXCEPT !.circuit[c].rtcflags = "linked", !.link[c[2]] = "linked"] = L
    <3>1. S = [node |-> S.node, user |-> S.user, link |-> S.link,
               RunningConnectScript |-> S.RunningConnectScript, circuit |-> S.circuit,
               DupInfo |-> S.DupInfo, heard |-> S.heard]
      BY <1>2 DEF NodeType
    <3>2. D = [S.circuit[c] EXCEPT !.rtcflags = "linked"]
      <4>1. D.tx = S.circuit[c].tx
        BY <2>1, <2>2 DEF CircuitRecs
      <4> HIDE DEF greet
      <4> QED BY <2>1, <2>2 DEF CircuitRecs
    <3> HIDE DEF D
    <3> QED BY <2>1, <3>1, <3>2
  <2>4. K = state_tell(L, n, c, c[2])
    BY <1>4, <1>7, <2>3
  <2>5. Greets(S, L, c, greet)
    <3>1. D = [S.circuit[c] EXCEPT !.rtcflags = "linked", !.tx = @ \o greet]
          /\ V = [S EXCEPT !.link[c[2]] = "linked"] /\ L = [V EXCEPT !.circuit[c] = D]
      OBVIOUS
    <3> HIDE DEF L, V, D, greet
    <3> QED BY <1>2, <2>2, <3>1, GreetsIs
  <2> HIDE DEF L, greet
  <2>6. ~node_find(S, c[2]) /\ \A k \in DOMAIN greet : greet[k].kind = "OK"
    BY <1>5, <1>7, <2>2 DEF node_find
  <2>7. Step(n, S, K) /\ K.user = S.user
    BY <1>1, <1>5, <2>2, <2>4, <2>5, <2>6, LinkUpStep
  <2> QED BY <1>5, <2>7, QuietFirst DEF K
<1> QED BY <1>6, <1>7

\* Tells is about what counts.
LEMMA TellsSame ==
    ASSUME NEW n, NEW N, NEW S, NEW K, NEW p, SameFields(N, S), Tells(n, S, K, p)
    PROVE  Tells(n, N, K, p)
<1>1. PICK s \in Seq(Lines) : Sends(n, S, K, p, s)
  BY DEF Tells
<1>2. /\ S.circuit[p] = N.circuit[p] /\ Linked(S, p) = Linked(N, p)
      /\ \A call, x : user_find(S, call, x) = user_find(N, call, x)
  BY DEF SameFields, Linked, user_find
<1>3. Sends(n, N, K, p, s)
  BY <1>1, <1>2 DEF Sends
<1> QED BY <1>3 DEF Tells

\* What ChatDisconnected makes of n.
Parts(n, N, c, K) ==
    /\ NodeOK(n, K) /\ Users(K, c) = {} /\ K.circuit[c].rtcflags = "nil"
    /\ K.circuit[c].session = N.circuit[c].session /\ K.circuit[c].tx = N.circuit[c].tx
    /\ \A d \in Circuits : K.circuit[d].session = N.circuit[d].session
    /\ \A p \in Circuits \ {c} : Tells(n, N, K, p)
    /\ \A u \in K.user : u \in N.user

\* ChatDisconnected.
LEMMA PartsIs ==
    ASSUME net \in Networks, net.tree, NEW n \in Nodes, NEW N, NodeOK(n, N), NEW c \in Circuits
    PROVE  Parts(n, N, c, ChatDisconnected(N, n, c))
<1> DEFINE K == ChatDisconnected(N, n, c)
<1>1. CASE N.circuit[c].rtcflags \in {"linked", "linkini"}
  <2> DEFINE b == N.RunningConnectScript /\ N.link[c[2]] # "linkini"
             S == [N EXCEPT !.RunningConnectScript = b]
  <2>1. K = link_drop(S, n, c)
    BY <1>1 DEF ChatDisconnected
  <2> HIDE DEF b, K
  <2>2. NodeOK(n, S)
    BY ScriptEnds
  <2>3. SameFields(N, S)
    <3> DEFINE lk == N.link  h == N.heard
    <3>1. NodeType(N) /\ lk \in [Nodes -> {"none", "linkini", "linked", "failed"}]
      BY DEF NodeOK, NodeType
    <3> HIDE DEF lk
    <3> QED BY <3>1, FieldsBecome
  <2> HIDE DEF S
  <2>4. Drops(S, n, c, K) /\ NodeOK(n, K) /\ \A p \in Circuits \ {c} : Tells(n, S, K, p)
    BY <2>1, <2>2, LinkDropIs
  <2>5. \A p \in Circuits \ {c} : Tells(n, N, K, p)
    BY <2>3, <2>4, TellsSame
  <2>6. /\ K.user = S.user \ Users(S, c)
        /\ K.circuit[c].rtcflags = "nil" /\ K.circuit[c].session = S.circuit[c].session
        /\ K.circuit[c].tx = S.circuit[c].tx
    BY <2>4 DEF Drops
  <2>7. \A d \in Circuits : K.circuit[d].session = S.circuit[d].session
    <3>1. \A d \in Circuits \ {c} : SameButTx(K.circuit[d], S.circuit[d])
      BY <2>4 DEF Drops
    <3> QED BY <2>6, <3>1 DEF SameButTx
  <2>8. Users(K, c) = {} /\ \A u \in K.user : u \in N.user
    BY <2>3, <2>6 DEF Users, SameFields
  <2>9. S.circuit = N.circuit
    BY <2>3 DEF SameFields
  <2> QED BY <2>4, <2>5, <2>6, <2>7, <2>8, <2>9 DEF Parts, K
<1>2. CASE N.circuit[c].rtcflags \notin {"linked", "linkini"}
  <2>1. K = circuit_free(N, c) /\ ~Linked(N, c)
    BY <1>2 DEF ChatDisconnected, Linked
  <2>2. Users(N, c) = {}
    BY <2>1, UsersBehind
  <2> HIDE DEF K
  <2>3. /\ NodeOK(n, K) /\ K.user = N.user /\ K.node = N.node
        /\ K.circuit[c].rtcflags = "nil"
        /\ \A p \in Circuits : /\ K.circuit[p].tx = N.circuit[p].tx
                               /\ K.circuit[p].session = N.circuit[p].session
                               /\ Linked(K, p) = Linked(N, p)
    BY <2>1, <2>2, FreeIs
  <2>4. NodeType(N) /\ \A call, x : user_find(N, call, x) => user_find(K, call, x)
    BY <2>3 DEF NodeOK, user_find
  <2>5. \A p \in Circuits : Tells(n, N, K, p)
    BY <2>3, <2>4, TellsNone
  <2>6. Users(K, c) = {}
    BY <2>2, <2>3 DEF Users
  <2> QED BY <2>3, <2>5, <2>6 DEF Parts, K
<1> QED BY <1>1, <1>2

(***************************************************************************)
(* Lines of other nodes.                                                   *)
(***************************************************************************)
\* M is N but for what c counts of x, the users that it reaches there and what has
\* been sent.
Alters(N, c, x, M) ==
    /\ NodeType(M)
    /\ \A y \in Nodes \ {x} : /\ M.node[y] = N.node[y]
                              /\ M.circuit[c].hnode[y] = N.circuit[c].hnode[y]
    /\ \A d \in Circuits \ {c} : SameButTx(M.circuit[d], N.circuit[d])
    /\ M.circuit[c].rtcflags = N.circuit[c].rtcflags
    /\ M.circuit[c].session = N.circuit[c].session
    /\ \A d \in Circuits : M.circuit[d].tx = N.circuit[d].tx \/ N.circuit[d].session = "open"
    /\ \A u : u.via # c \/ u.at # x => (u \in M.user <=> u \in N.user)

\* What c counts of x is right.
Counted(N, c, x) ==
    /\ N.circuit[c].refcnt = Cardinality(Users(N, c))
    /\ N.circuit[c].hnode[x] \in IF Guests(N, c, x) = {} THEN {0, 1}
                                 ELSE {Cardinality(Guests(N, c, x)) + 1}
    /\ N.node[x] = N.circuit[c].hnode[x]
    /\ x = c[2] => N.circuit[c].hnode[x] > 0

\* Nobody is known twice.
Unique(us) == \A u, v \in us : u.call = v.call /\ u.at = v.at => u = v

\* A node whose counts have changed together is as it should be.
LEMMA AltersOK ==
    ASSUME net \in Networks, net.tree, NEW n \in Nodes, NEW N, NodeOK(n, N), NEW c \in Circuits,
           Linked(N, c), NEW x \in Behind(n, c[2]), NEW M, Alters(N, c, x, M), Counted(M, c, x),
           Unique(M.user)
    PROVE  NodeOK(n, M)
<1>1. /\ x \in Nodes /\ x # n /\ \A d \in Circuits : N.circuit[d].hnode[x] > 0 => d = c
  BY ReachedOnce DEF Behind
<1>2. \A d \in Circuits : CircuitOK(n, N, d)
  BY DEF NodeOK
<1>3. NodeType(M) /\ IsFiniteSet(M.user)
  BY DEF Alters, NodeType
<1>4. \A u : u.via # c \/ u.at # x => (u \in M.user <=> u \in N.user)
  BY DEF Alters
<1>5. /\ \A d : d # c => Users(M, d) = Users(N, d)
      /\ \A d, y : d # c \/ y # x => Guests(M, d, y) = Guests(N, d, y)
  BY <1>4 DEF Users, Guests
<1>6. \A d \in Circuits : /\ Linked(M, d) = Linked(N, d)
                          /\ d # c => /\ M.circuit[d].hnode = N.circuit[d].hnode
                                      /\ M.circuit[d].refcnt = N.circuit[d].refcnt
  BY DEF Alters, SameButTx, Linked
<1>7. ASSUME NEW d \in Circuits
      PROVE  SessionOK(n, M.circuit[d], d)
  <2>1. SessionOK(n, N.circuit[d], d)
    BY <1>2 DEF CircuitOK
  <2>2. /\ M.circuit[d].rtcflags = N.circuit[d].rtcflags
        /\ M.circuit[d].session = N.circuit[d].session
        /\ M.circuit[d].tx = N.circuit[d].tx \/ N.circuit[d].session = "open"
    BY DEF Alters, SameButTx
  <2> QED BY <2>1, <2>2 DEF SessionOK
<1>8. ASSUME NEW d \in Circuits, d # c
      PROVE  CircuitOK(n, M, d)
  <2>1. ASSUME NEW y \in Nodes
        PROVE  /\ M.circuit[d].hnode[y] > 0 => y \in Behind(n, d[2]) /\ M.node[y] = M.circuit[d].hnode[y]
               /\ M.circuit[d].hnode[y] \in IF Guests(M, d, y) = {} THEN {0, 1}
                                            ELSE {Cardinality(Guests(M, d, y)) + 1}
    <3>1. M.circuit[d].hnode[y] = N.circuit[d].hnode[y] /\ Guests(M, d, y) = Guests(N, d, y)
      BY <1>5, <1>6, <1>8
    <3>2. N.circuit[d].hnode[y] > 0 => M.node[y] = N.node[y]
      BY <1>1, <1>8 DEF Alters
    <3>3. N.circuit[d].hnode[y] > 0 => y \in Behind(n, d[2]) /\ N.node[y] = N.circuit[d].hnode[y]
      BY <1>2 DEF CircuitOK
    <3>4. N.circuit[d].hnode[y] \in IF Guests(N, d, y) = {} THEN {0, 1}
                                    ELSE {Cardinality(Guests(N, d, y)) + 1}
      BY <1>2 DEF CircuitOK
    <3> QED BY <3>1, <3>2, <3>3, <3>4
  <2>2. /\ Linked(M, d) => M.circuit[d].hnode[d[2]] > 0
        /\ ~Linked(M, d) => M.circuit[d].hnode = NoCircuit.hnode
        /\ M.circuit[d].refcnt = Cardinality(Users(M, d))
    BY <1>2, <1>5, <1>6, <1>8 DEF CircuitOK
  <2> QED BY <1>7, <2>1, <2>2 DEF CircuitOK
<1>9. CircuitOK(n, M, c)
  <2>1. ASSUME NEW y \in Nodes
        PROVE  /\ M.circuit[c].hnode[y] > 0 => y \in Behind(n, c[2]) /\ M.node[y] = M.circuit[c].hnode[y]
               /\ M.circuit[c].hnode[y] \in IF Guests(M, c, y) = {} THEN {0, 1}
                                            ELSE {Cardinality(Guests(M, c, y)) + 1}
    <3>1. CASE y = x
      BY <3>1 DEF Counted
    <3>2. CASE y # x
      <4>1. /\ M.circuit[c].hnode[y] = N.circuit[c].hnode[y] /\ M.node[y] = N.node[y]
            /\ Guests(M, c, y) = Guests(N, c, y)
        BY <1>5, <3>2 DEF Alters
      <4>2. N.circuit[c].hnode[y] > 0 => y \in Behind(n, c[2]) /\ N.node[y] = N.circuit[c].hnode[y]
        BY <1>2 DEF CircuitOK
      <4>3. N.circuit[c].hnode[y] \in IF Guests(N, c, y) = {} THEN {0, 1}
                                      ELSE {Cardinality(Guests(N, c, y)) + 1}
        BY <1>2 DEF CircuitOK
      <4> QED BY <4>1, <4>2, <4>3
    <3> QED BY <3>1, <3>2
  <2>2. M.circuit[c].hnode[c[2]] > 0
    <3>1. CASE x = c[2]
      BY <3>1 DEF Counted
    <3>2. CASE x # c[2]
      <4>1. N.circuit[c].hnode[c[2]] > 0 /\ c[2] \in Nodes
        BY LinkedIs, PeerIs
      <4> QED BY <3>2, <4>1 DEF Alters
    <3> QED BY <3>1, <3>2
  <2>3. Linked(M, c) /\ M.circuit[c].refcnt = Cardinality(Users(M, c))
    BY <1>6 DEF Counted
  <2> QED BY <1>7, <2>1, <2>2, <2>3 DEF CircuitOK
<1>10. M.node[n] = Cardinality(Users(M, Local))
  <2>1. c # Local
    BY LocalAssumption
  <2>2. N.node[n] = Cardinality(Users(N, Local))
    BY DEF NodeOK
  <2>3. M.node[n] = N.node[n]
    BY <1>1 DEF Alters
  <2> QED BY <1>5, <2>1, <2>2, <2>3
<1>11. ASSUME NEW y \in Nodes \ {n}, M.node[y] > 0
       PROVE  \E d \in Circuits : M.circuit[d].hnode[y] > 0
  <2>1. CASE y = x
    BY <1>11, <2>1 DEF Counted
  <2>2. CASE y # x
    <3>1. N.node[y] > 0
      BY <1>11, <2>2 DEF Alters
    <3>2. PICK d \in Circuits : N.circuit[d].hnode[y] > 0
      BY <3>1 DEF NodeOK
    <3>3. M.circuit[d].hnode[y] = N.circuit[d].hnode[y]
      BY <1>6, <2>2 DEF Alters
    <3> QED BY <3>2, <3>3
  <2> QED BY <2>1, <2>2
<1>12. ASSUME NEW u \in M.user
       PROVE  \/ u.via = Local /\ u.at = n
              \/ u.via \in Circuits /\ M.circuit[u.via].hnode[u.at] > 0
  <2>1. CASE u.via = c /\ u.at = x
    <3>1. u \in Guests(M, c, x)
      BY <2>1 DEF Guests
    <3>2. Cardinality(Guests(M, c, x)) \in Nat
      <4>1. Guests(M, c, x) \subseteq M.user
        BY DEF Guests
      <4> QED BY <1>3, <4>1, FS_Subset, FS_CardinalityType
    <3>3. M.circuit[c].hnode[x] = Cardinality(Guests(M, c, x)) + 1
      BY <3>1 DEF Counted
    <3> QED BY <2>1, <3>2, <3>3
  <2>2. CASE u.via # c \/ u.at # x
    <3>1. u \in N.user
      BY <1>4, <2>2
    <3>2. \/ u.via = Local /\ u.at = n
          \/ u.via \in Circuits /\ N.circuit[u.via].hnode[u.at] > 0
      BY <3>1 DEF NodeOK
    <3>3. CASE u.via = c /\ u.via \in Circuits
      <4>1. u.at \in Nodes
        BY <3>1, UserIs
      <4>2. M.circuit[c].hnode[u.at] = N.circuit[c].hnode[u.at]
        BY <2>2, <3>3, <4>1 DEF Alters
      <4>3. c # Local
        BY LocalAssumption
      <4> QED BY <3>2, <3>3, <4>2, <4>3
    <3>4. CASE u.via # c
      BY <1>6, <3>2, <3>4
    <3> QED BY <3>2, <3>3, <3>4
  <2> QED BY <2>1, <2>2
<1>13. \A d, e \in Circuits : Linked(M, d) /\ Linked(M, e) /\ d[2] = e[2] => d = e
  BY <1>6 DEF NodeOK
<1>14. \A d \in Circuits : CircuitOK(n, M, d)
  BY <1>8, <1>9
<1> QED BY <1>3, <1>10, <1>11, <1>12, <1>13, <1>14 DEF NodeOK, Unique

\* echo tells the other nodes of what one has said.
LEMMA EchoTells ==
    ASSUME net \in Networks, net.tree, NEW n \in Nodes, NEW N, NodeOK(n, N), NEW c \in Circuits,
           Linked(N, c), NEW L \in Lines, FromSide(n, c[2], L), NEW M, NEW p \in Circuits \ {c},
           SameButTx(M.circuit[p], N.circuit[p]),
           M.circuit[p].tx = N.circuit[p].tx \o Maybe(EchoedTo(N, c, L.node, p), L),
           L.kind = "join" => user_find(M, L.call, L.node),
           L.kind = "unlink" => \A call \in Calls : ~user_find(N, call, L.call),
           \A call, y : user_find(N, call, y) => user_find(M, call, y) \/ Says(L, "leave", call, y)
    PROVE  Tells(n, N, M, p)
<1> DEFINE b == EchoedTo(N, c, L.node, p)
<1>1. b \in BOOLEAN /\ NodeType(N)
  BY DEF EchoedTo, Linked, NodeOK
<1>2. ASSUME Linked(N, p)
      PROVE  /\ FromSide(p[2], n, L)
             /\ \A y \in Behind(n, c[2]) : ~cn_find(N.circuit[p], y)
  <2>1. Adjacent(n, p[2])
    BY <1>2, LinkedIs
  <2>2. c[2] # p[2]
    BY <1>2 DEF NodeOK
  <2>3. \A y \in Behind(n, c[2]) : y \in Behind(p[2], n) /\ y # n
    BY <2>1, <2>2, KnownBehind
  <2>4. ASSUME NEW y \in Behind(n, c[2])
        PROVE  ~cn_find(N.circuit[p], y)
    <3>1. \A d \in Circuits : N.circuit[d].hnode[y] > 0 => d = c
      BY ReachedOnce
    <3> QED BY <3>1 DEF cn_find
  <2> QED BY <2>3, <2>4 DEF FromSide
<1>3. CASE N.circuit[p].session = "open"
  <2>1. b => /\ N.circuit[p].session = "open" /\ Linked(N, p) /\ FromSide(p[2], n, L)
             /\ L.kind = "join" => user_find(M, L.call, L.node)
             /\ L.kind = "unlink" => \A call \in Calls : ~user_find(N, call, L.call)
    BY <1>2 DEF EchoedTo
  <2>2. Linked(N, p) => \A call \in Calls, x \in Behind(p[2], n) :
           user_find(N, call, x) => user_find(M, call, x) \/ (b /\ Says(L, "leave", call, x))
    <3> SUFFICES ASSUME Linked(N, p), NEW call \in Calls, NEW x, user_find(N, call, x),
                        ~user_find(M, call, x)
                 PROVE  b /\ Says(L, "leave", call, x)
      OBVIOUS
    <3>1. Says(L, "leave", call, x)
      OBVIOUS
    <3>2. L.node \in Behind(n, c[2])
      BY <3>1 DEF FromSide, Says
    <3>3. b
      BY <1>2, <1>3, <3>2 DEF EchoedTo
    <3> QED BY <3>1, <3>3
  <2> HIDE DEF b
  <2>3. M.circuit[p].tx = N.circuit[p].tx \o Maybe(b, L)
    BY DEF b
  <2> QED BY <1>1, <2>1, <2>2, <2>3, TellsLine
<1>4. CASE N.circuit[p].session # "open"
  <2>1. M.circuit[p].session # "open"
    BY <1>4 DEF SameButTx
  <2>2. M.circuit[p].tx = N.circuit[p].tx
    <3>1. N.circuit[p].tx \o << >> = N.circuit[p].tx
      BY <1>1, CircuitIs, ConcatNone
    <3>2. Maybe(b, L) = << >>
      BY <1>4 DEF EchoedTo, Maybe
    <3> QED BY <3>1, <3>2
  <2> QED BY <1>1, <2>1, <2>2, TellsNone
<1> QED BY <1>3, <1>4

\* K is what n, which was N, makes of the line L that came by c.
Heeds(n, N, c, L, K) == /\ Step(n, N, K) /\ Hears(N, K, c, L)
                        /\ \A d \in Circuits \ {c} : Fewer(N, K, d)

\* A node behind a linked circuit that is on the list is reached by it.
LEMMA SpeakerIs ==
    ASSUME net \in Networks, net.tree, NEW n \in Nodes, NEW N, NodeOK(n, N), NEW c \in Circuits,
           Linked(N, c), NEW y \in Behind(n, c[2]), node_find(N, y)
    PROVE  N.circuit[c].hnode[y] > 0 /\ N.node[y] = N.circuit[c].hnode[y] /\ y \in Nodes \ {n}
<1>1. y # n /\ y \in Nodes /\ \A d \in Circuits : N.circuit[d].hnode[y] > 0 => d = c
  BY ReachedOnce DEF Behind
<1>2. \E d \in Circuits : N.circuit[d].hnode[y] > 0
  BY <1>1 DEF NodeOK, node_find
<1>3. N.node[y] = N.circuit[c].hnode[y]
  BY ReachedOnce
<1> QED BY <1>1, <1>2, <1>3

\* What is counted of a node that is reached.
LEMMA GuestsAre ==
    ASSUME NEW n, NEW N, NodeOK(n, N), NEW c \in Circuits, NEW y \in Nodes,
           N.circuit[c].hnode[y] > 0
    PROVE  /\ IsFiniteSet(Guests(N, c, y)) /\ Cardinality(Guests(N, c, y)) \in Nat
           /\ N.circuit[c].hnode[y] = Cardinality(Guests(N, c, y)) + 1
           /\ IsFiniteSet(Users(N, c)) /\ Cardinality(Users(N, c)) \in Nat
           /\ N.circuit[c].refcnt = Cardinality(Users(N, c))
           /\ Cardinality({}) = 0
<1>1. Guests(N, c, y) \subseteq N.user /\ Users(N, c) \subseteq N.user /\ IsFiniteSet(N.user)
  BY DEF NodeOK, NodeType, Guests, Users
<1>2. /\ IsFiniteSet(Guests(N, c, y)) /\ Cardinality(Guests(N, c, y)) \in Nat
      /\ IsFiniteSet(Users(N, c)) /\ Cardinality(Users(N, c)) \in Nat
  BY <1>1, FS_Subset, FS_CardinalityType
<1>3. /\ N.circuit[c].hnode[y] \in IF Guests(N, c, y) = {} THEN {0, 1}
                                   ELSE {Cardinality(Guests(N, c, y)) + 1}
      /\ N.circuit[c].refcnt = Cardinality(Users(N, c))
  BY DEF NodeOK, CircuitOK
<1>4. Cardinality({}) = 0
  BY FS_EmptySet
<1> QED BY <1>2, <1>3, <1>4

\* One more of a finite set, and one less.
LEMMA OneMore ==
    ASSUME NEW S, IsFiniteSet(S), NEW v, v \notin S, NEW T, T = S \cup {v}
    PROVE  Cardinality(T) = Cardinality(S) + 1 /\ T # {}
  BY FS_AddElement

\* A finite set is one less without one of its members.
LEMMA OneTaken ==
    ASSUME NEW S, IsFiniteSet(S), NEW v, v \in S, NEW T, T = S \ {v}
    PROVE  Cardinality(T) = Cardinality(S) - 1 /\ Cardinality(T) \in Nat
<1>1. Cardinality(T) = Cardinality(S) - 1
  BY FS_RemoveElement
<1>2. IsFiniteSet(T)
  BY FS_RemoveElement
<1>3. Cardinality(T) \in Nat
  BY <1>2, FS_CardinalityType
<1> QED BY <1>1, <1>3

\* Nothing is made of a line.
LEMMA StepNone ==
    ASSUME NEW n, NEW N, NodeOK(n, N)
    PROVE  Step(n, N, N)
<1>1. ASSUME NEW p \in Circuits PROVE Tells(n, N, N, p)
  <2>1. NodeType(N)
    BY DEF NodeOK
  <2> QED BY <2>1, TellsNone
<1> QED BY <1>1 DEF Step, Calm

\* Nobody comes or goes.
LEMMA HeedsSame ==
    ASSUME NEW n, NEW N, NEW K, NEW c, NEW L, Step(n, N, K), K.user = N.user,
           L.kind = "leave" => ~user_find(N, L.call, L.node)
    PROVE  Heeds(n, N, c, L, K)
  BY DEF Heeds, Hears, Fewer, Users, Says, user_find

\* What a join makes of n.
LEMMA JoinedIs ==
    ASSUME net \in Networks, net.tree, NEW n \in Nodes, NEW N, NodeOK(n, N), NEW c \in Circuits,
           Linked(N, c), NEW L \in Lines, L.kind = "join", FromSide(n, c[2], L),
           node_find(N, L.node), ~user_find(N, L.call, L.node), NEW K, K = Joined(N, c, L)
    PROVE  Heeds(n, N, c, L, K)
<1> DEFINE y == L.node
           v == NewUser(L.call, y, c)
           E == echo(N, c, y, L)
           C == cn_inc(E, c, y)
           D == [C.circuit[c] EXCEPT !.refcnt = @ + 1]
           us == N.user \cup {v}
           V == [C EXCEPT !.circuit[c] = D]
<1>1. y \in Nodes /\ y \in Behind(n, c[2]) /\ L.call \in Calls /\ NodeType(N)
  BY DEF Lines, FromSide, NodeOK
<1>2. N.circuit[c].hnode[y] > 0 /\ N.node[y] = N.circuit[c].hnode[y] /\ y # n
  BY <1>1, SpeakerIs
<1>3. /\ v \in UserRecs /\ v.call = L.call /\ v.at = y /\ v.via = c /\ v \notin N.user
      /\ \A u \in N.user : ~(u.call = v.call /\ u.at = v.at)
  BY <1>1, TopicAssumption DEF NewUser, UserRecs, user_find
<1>4. us \in SUBSET UserRecs /\ IsFiniteSet(us)
  BY <1>1, <1>3, FS_AddElement DEF NodeType
<1>5. K = [C EXCEPT !.circuit[c].refcnt = @ + 1, !.user = @ \cup {v}]
  BY DEF Joined
<1>6. E = echo(N, c, y, L) /\ C = cn_inc(E, c, y)
  OBVIOUS
<1> HIDE DEF v, E, C, y
<1>7. Echoes(N, c, y, L, E)
  BY <1>1, <1>6, EchoIs
<1>8. Counts(E, c, y, C)
  BY <1>1, <1>6, <1>7, CnIncIs DEF Echoes
<1>9. /\ NodeType(C) /\ C.user = N.user /\ C.circuit[c] \in CircuitRecs
      /\ \A z \in Nodes : C.node[z] = IF z = y THEN N.node[z] + 1 ELSE N.node[z]
      /\ C.circuit[c].rtcflags = N.circuit[c].rtcflags
      /\ C.circuit[c].session = N.circuit[c].session
      /\ C.circuit[c].refcnt = N.circuit[c].refcnt
      /\ C.circuit[c].tx = N.circuit[c].tx
      /\ \A z \in Nodes : C.circuit[c].hnode[z] =
            IF z = y THEN N.circuit[c].hnode[z] + 1 ELSE N.circuit[c].hnode[z]
  <2>1. /\ E.user = N.user /\ E.node = N.node /\ SameButTx(E.circuit[c], N.circuit[c])
        /\ E.circuit[c].tx = N.circuit[c].tx \o Maybe(EchoedTo(N, c, y, c), L)
    BY <1>7 DEF Echoes, SameButCircuits
  <2>2. E.circuit[c].tx = N.circuit[c].tx
    <3>1. N.circuit[c].tx \o << >> = N.circuit[c].tx
      BY <1>1, CircuitIs, ConcatNone
    <3> QED BY <2>1, <3>1 DEF Maybe, EchoedTo
  <2> QED BY <1>8, <2>1, <2>2 DEF Counts, SameButTx
<1>10. \A d \in Circuits \ {c} :
          /\ SameButTx(C.circuit[d], N.circuit[d])
          /\ C.circuit[d].tx = N.circuit[d].tx \o Maybe(EchoedTo(N, c, y, d), L)
  <2>1. \A d \in Circuits \ {c} : C.circuit[d] = E.circuit[d]
    BY <1>8 DEF Counts
  <2> QED BY <1>7, <2>1 DEF Echoes
<1>11. /\ D \in CircuitRecs /\ D.rtcflags = C.circuit[c].rtcflags
       /\ D.session = C.circuit[c].session /\ D.hnode = C.circuit[c].hnode
       /\ D.tx = C.circuit[c].tx /\ D.refcnt = C.circuit[c].refcnt + 1
  BY <1>9 DEF CircuitRecs
<1>12. K = [V EXCEPT !.user = us]
  <2>1. C = [node |-> C.node, user |-> C.user, link |-> C.link,
             RunningConnectScript |-> C.RunningConnectScript, circuit |-> C.circuit,
             DupInfo |-> C.DupInfo, heard |-> C.heard]
        /\ C.circuit \in [Circuits -> CircuitRecs]
    BY <1>9 DEF NodeType
  <2> QED BY <1>5, <1>9, <2>1
<1>13. V = [C EXCEPT !.circuit[c] = D]
  OBVIOUS
<1> HIDE DEF D, V, us
<1>14. Turns(C, c, D, V)
  BY <1>9, <1>11, <1>13, TurnsIs
<1>15. /\ NodeType(K) /\ K.user = us /\ K.node = C.node /\ K.circuit[c] = D
       /\ \A d \in Circuits : d # c => K.circuit[d] = C.circuit[d]
  <2>1. /\ NodeType(V) /\ V.node = C.node /\ V.circuit[c] = D
        /\ \A d \in Circuits : d # c => V.circuit[d] = C.circuit[d]
    BY <1>14 DEF Turns, SameButCircuits
  <2>2. NodeType(K) /\ K.user = us /\ K.node = V.node /\ K.circuit = V.circuit
    BY <1>4, <1>12, <2>1, UsersBecome
  <2> QED BY <2>1, <2>2
<1>16. /\ \A d \in Circuits \ {c} :
             /\ SameButTx(K.circuit[d], N.circuit[d])
             /\ K.circuit[d].tx = N.circuit[d].tx \o Maybe(EchoedTo(N, c, y, d), L)
       /\ K.circuit[c].tx = N.circuit[c].tx
       /\ K.circuit[c].rtcflags = N.circuit[c].rtcflags
       /\ K.circuit[c].session = N.circuit[c].session
       /\ K.circuit[c].refcnt = N.circuit[c].refcnt + 1
       /\ K.circuit[c].hnode[y] = N.circuit[c].hnode[y] + 1 /\ K.node[y] = N.node[y] + 1
  BY <1>1, <1>9, <1>10, <1>11, <1>15
<1>17. \A d \in Circuits : K.circuit[d].tx = N.circuit[d].tx \/ N.circuit[d].session = "open"
  <2> SUFFICES ASSUME NEW d \in Circuits, d # c
               PROVE  K.circuit[d].tx = N.circuit[d].tx \/ N.circuit[d].session = "open"
    BY <1>16
  <2>1. N.circuit[d].tx \o << >> = N.circuit[d].tx
    BY <1>1, CircuitIs, ConcatNone
  <2> QED BY <1>16, <2>1 DEF Maybe, EchoedTo
<1>18. Alters(N, c, y, K)
  <2>1. \A z \in Nodes \ {y} : K.node[z] = N.node[z] /\ K.circuit[c].hnode[z] = N.circuit[c].hnode[z]
    BY <1>9, <1>11, <1>15
  <2>2. \A u : u.via # c \/ u.at # y => (u \in K.user <=> u \in N.user)
    BY <1>3, <1>15 DEF us
  <2> QED BY <1>15, <1>16, <1>17, <2>1, <2>2 DEF Alters
<1>19. Counted(K, c, y)
  <2>1. /\ IsFiniteSet(Guests(N, c, y)) /\ Cardinality(Guests(N, c, y)) \in Nat
        /\ N.circuit[c].hnode[y] = Cardinality(Guests(N, c, y)) + 1
        /\ IsFiniteSet(Users(N, c)) /\ Cardinality(Users(N, c)) \in Nat
        /\ N.circuit[c].refcnt = Cardinality(Users(N, c))
    BY <1>1, <1>2, GuestsAre
  <2>2. /\ Guests(K, c, y) = Guests(N, c, y) \cup {v} /\ v \notin Guests(N, c, y)
        /\ Users(K, c) = Users(N, c) \cup {v} /\ v \notin Users(N, c)
    BY <1>3, <1>15 DEF us, Guests, Users
  <2>3. /\ Cardinality(Guests(K, c, y)) = Cardinality(Guests(N, c, y)) + 1
        /\ Guests(K, c, y) # {}
    BY <2>1, <2>2, OneMore
  <2>4. Cardinality(Users(K, c)) = Cardinality(Users(N, c)) + 1
    BY <2>1, <2>2, OneMore
  <2> QED BY <1>2, <1>16, <2>1, <2>3, <2>4 DEF Counted
<1>20. Unique(K.user)
  <2>1. \A u, w \in N.user : u.call = w.call /\ u.at = w.at => u = w
    BY DEF NodeOK
  <2> QED BY <1>3, <1>15, <2>1 DEF Unique, us
<1>21. NodeOK(n, K)
  BY <1>1, <1>18, <1>19, <1>20, AltersOK
<1>22. /\ \A call, x : user_find(N, call, x) => user_find(K, call, x)
       /\ user_find(K, L.call, L.node)
  BY <1>3, <1>15 DEF user_find, us, y
<1>23. ASSUME NEW p \in Circuits PROVE Tells(n, N, K, p)
  <2>1. CASE p = c
    <3>1. Linked(K, c) = Linked(N, c)
      BY <1>16 DEF Linked
    <3> QED BY <1>1, <1>16, <1>22, <2>1, <3>1, TellsNone
  <2>2. CASE p # c
    <3>1. /\ SameButTx(K.circuit[p], N.circuit[p])
          /\ K.circuit[p].tx = N.circuit[p].tx \o Maybe(EchoedTo(N, c, L.node, p), L)
      BY <1>16, <2>2 DEF y
    <3> QED BY <1>22, <2>2, <3>1, EchoTells
  <2> QED BY <2>1, <2>2
<1>24. Calm(N, K)
  BY <1>16 DEF Calm, SameButTx
<1>25. Hears(N, K, c, L) /\ \A d \in Circuits \ {c} : Fewer(N, K, d)
  BY <1>3, <1>15 DEF Hears, Fewer, Users, Says, us, y
<1> QED BY <1>21, <1>23, <1>24, <1>25 DEF Heeds, Step

\* cn_dec, of what is counted.
Discounts(N, c, x, M) ==
    /\ NodeType(M) /\ SameButCircuits(N, M)
    /\ \A d \in Circuits \ {c} : M.circuit[d] = N.circuit[d]
    /\ M.circuit[c].rtcflags = N.circuit[c].rtcflags
    /\ M.circuit[c].session = N.circuit[c].session
    /\ M.circuit[c].refcnt = N.circuit[c].refcnt
    /\ M.circuit[c].tx = N.circuit[c].tx
    /\ \A y \in Nodes : M.circuit[c].hnode[y] =
          IF y = x THEN N.circuit[c].hnode[y] - 1 ELSE N.circuit[c].hnode[y]

\* cn_dec takes one from the count of a circuit.
LEMMA CnDecIs ==
    ASSUME NEW N, NodeType(N), NEW c \in Circuits, NEW x \in Nodes, N.circuit[c].hnode[x] > 0,
           NEW M, M = cn_dec(N, c, x)
    PROVE  Discounts(N, c, x, M)
<1> DEFINE C == N.circuit[c]
           h == [C.hnode EXCEPT ![x] = @ - 1]
           D == [C EXCEPT !.hnode = h]
<1>1. N.circuit \in [Circuits -> CircuitRecs] /\ C \in CircuitRecs /\ C.hnode \in [Nodes -> Nat]
  BY CircuitIs DEF NodeType
<1>2. h \in [Nodes -> Nat]
      /\ \A y \in Nodes : h[y] = IF y = x THEN C.hnode[y] - 1 ELSE C.hnode[y]
  BY <1>1
<1>3. N = [node |-> N.node, user |-> N.user, link |-> N.link,
            RunningConnectScript |-> N.RunningConnectScript, circuit |-> N.circuit,
            DupInfo |-> N.DupInfo, heard |-> N.heard]
  BY DEF NodeType
<1>4. [C EXCEPT !.hnode[x] = IF @ > 0 THEN @ - 1 ELSE 0] = D
  <2>1. [C.hnode EXCEPT ![x] = IF @ > 0 THEN @ - 1 ELSE 0] = h
    BY <1>1
  <2> HIDE DEF h
  <2> QED BY <1>1, <2>1 DEF CircuitRecs
<1>5. M = [N EXCEPT !.circuit[c] = D]
  BY <1>1, <1>3, <1>4 DEF cn_dec
<1> HIDE DEF h
<1>6. /\ D \in CircuitRecs /\ D.rtcflags = C.rtcflags /\ D.session = C.session
      /\ D.refcnt = C.refcnt /\ D.tx = C.tx /\ D.hnode = h
  BY <1>1, <1>2 DEF CircuitRecs
<1> HIDE DEF D
<1>7. Turns(N, c, D, M)
  BY <1>5, <1>6, TurnsIs
<1> QED BY <1>2, <1>6, <1>7 DEF Turns, Discounts

\* node_dec.
LEMMA NodeDecIs ==
    ASSUME NEW N, NodeType(N), NEW x \in Nodes, NEW k \in Nat,
           k = IF N.node[x] > 1 THEN N.node[x] - 1 ELSE Pointing(N, x),
           NEW M, M = node_dec(N, x)
    PROVE  /\ NodeType(M) /\ M.user = N.user /\ M.circuit = N.circuit
           /\ \A y \in Nodes : M.node[y] = IF y = x THEN k ELSE N.node[y]
<1> DEFINE g == [N.node EXCEPT ![x] = k]
<1>1. N.node \in [Nodes -> Nat]
  BY DEF NodeType
<1>2. g \in [Nodes -> Nat] /\ \A y \in Nodes : g[y] = IF y = x THEN k ELSE N.node[y]
  BY <1>1
<1>3. M = [N EXCEPT !.node = g]
  <2>1. N = [node |-> N.node, user |-> N.user, link |-> N.link,
             RunningConnectScript |-> N.RunningConnectScript, circuit |-> N.circuit,
             DupInfo |-> N.DupInfo, heard |-> N.heard]
    BY DEF NodeType
  <2> QED BY <1>1, <2>1 DEF node_dec
<1> HIDE DEF g
<1> QED BY <1>2, <1>3, NodesBecome

\* What a leave makes of n.
LEMMA GoneIs ==
    ASSUME net \in Networks, net.tree, NEW n \in Nodes, NEW N, NodeOK(n, N), NEW c \in Circuits,
           Linked(N, c), NEW L \in Lines, L.kind = "leave", FromSide(n, c[2], L),
           node_find(N, L.node), user_find(N, L.call, L.node), NEW K, K = Gone(N, c, L)
    PROVE  Heeds(n, N, c, L, K)
<1> DEFINE y == L.node
           v == UserAt(N, L.call, y)
           E == echo(N, c, y, L)
           D == [E.circuit[c] EXCEPT !.refcnt = @ - 1]
           us == N.user \ {v}
           V == [E EXCEPT !.circuit[c] = D]
           S == [V EXCEPT !.user = us]
           W == cn_dec(S, c, y)
<1>1. y \in Nodes /\ y \in Behind(n, c[2]) /\ L.call \in Calls /\ NodeType(N)
  BY DEF Lines, FromSide, NodeOK
<1>2. N.circuit[c].hnode[y] > 0 /\ N.node[y] = N.circuit[c].hnode[y] /\ y # n
  BY <1>1, SpeakerIs
<1>3. v \in N.user /\ v.call = L.call /\ v.at = y /\ v.via = c
  <2>1. v \in N.user /\ v.call = L.call /\ v.at = y
    BY DEF UserAt, user_find
  <2> HIDE DEF v, y
  <2>2. v.at \in Behind(n, c[2])
    BY <1>1, <2>1
  <2> QED BY <2>1, <2>2, ReachedBy
<1>4. us \in SUBSET UserRecs /\ IsFiniteSet(us)
  BY <1>1, FS_Subset DEF NodeType
<1>5. /\ IsFiniteSet(Guests(N, c, y)) /\ Cardinality(Guests(N, c, y)) \in Nat
      /\ N.circuit[c].hnode[y] = Cardinality(Guests(N, c, y)) + 1
      /\ IsFiniteSet(Users(N, c)) /\ Cardinality(Users(N, c)) \in Nat
      /\ N.circuit[c].refcnt = Cardinality(Users(N, c))
  BY <1>1, <1>2, GuestsAre
<1>6. v \in Guests(N, c, y) /\ v \in Users(N, c)
  BY <1>3 DEF Guests, Users
<1>7. /\ Cardinality(Guests(N, c, y) \ {v}) = Cardinality(Guests(N, c, y)) - 1
      /\ Cardinality(Guests(N, c, y) \ {v}) \in Nat
      /\ Guests(N, c, y) \ {v} = {} => Cardinality(Guests(N, c, y) \ {v}) = 0
      /\ Cardinality(Users(N, c) \ {v}) = Cardinality(Users(N, c)) - 1
      /\ Cardinality(Users(N, c) \ {v}) \in Nat
  <2> DEFINE GG == Guests(N, c, y)  UU == Users(N, c)
             G1 == GG \ {v}  U1 == UU \ {v}
  <2>1. G1 = GG \ {v} /\ U1 = UU \ {v} /\ v \in GG /\ v \in UU /\ IsFiniteSet(GG) /\ IsFiniteSet(UU)
    BY <1>5, <1>6
  <2> HIDE DEF GG, UU, G1, U1, v
  <2>2. Cardinality(G1) = Cardinality(GG) - 1 /\ Cardinality(G1) \in Nat
    BY <2>1, OneTaken
  <2>4. G1 = {} => Cardinality(G1) = 0
    BY FS_EmptySet
  <2>3. Cardinality(U1) = Cardinality(UU) - 1 /\ Cardinality(U1) \in Nat
    BY <2>1, OneTaken
  <2> QED BY <2>2, <2>3, <2>4 DEF GG, UU, G1, U1
<1>8. N.circuit[c].hnode[y] > 1 /\ N.circuit[c].hnode[y] \in Nat
      /\ N.circuit[c].refcnt \in Nat /\ N.circuit[c].refcnt > 0
  BY <1>5, <1>7
<1>9. E = echo(N, c, y, L) /\ W = cn_dec(S, c, y)
  OBVIOUS
<1>10. K = node_dec(cn_dec([E EXCEPT !.circuit[c].refcnt = @ - 1, !.user = @ \ {v}], c, y), y)
  BY DEF Gone
<1> HIDE DEF v, E, y, W
<1>11. Echoes(N, c, y, L, E)
  BY <1>1, <1>9, EchoIs
<1>12. /\ NodeType(E) /\ E.user = N.user /\ E.node = N.node
       /\ SameButTx(E.circuit[c], N.circuit[c]) /\ E.circuit[c].tx = N.circuit[c].tx
       /\ E.circuit[c] \in CircuitRecs
       /\ \A d \in Circuits \ {c} :
             /\ SameButTx(E.circuit[d], N.circuit[d])
             /\ E.circuit[d].tx = N.circuit[d].tx \o Maybe(EchoedTo(N, c, y, d), L)
  <2>1. /\ NodeType(E) /\ E.user = N.user /\ E.node = N.node
        /\ \A d \in Circuits :
              /\ SameButTx(E.circuit[d], N.circuit[d])
              /\ E.circuit[d].tx = N.circuit[d].tx \o Maybe(EchoedTo(N, c, y, d), L)
    BY <1>11 DEF Echoes, SameButCircuits
  <2>2. E.circuit[c].tx = N.circuit[c].tx
    <3>1. N.circuit[c].tx \o << >> = N.circuit[c].tx
      BY <1>1, CircuitIs, ConcatNone
    <3> QED BY <2>1, <3>1 DEF Maybe, EchoedTo
  <2>3. E.circuit[c] \in CircuitRecs
    BY <2>1, CircuitIs
  <2> QED BY <2>1, <2>2, <2>3
<1>13. /\ D \in CircuitRecs /\ D.rtcflags = N.circuit[c].rtcflags
       /\ D.session = N.circuit[c].session /\ D.hnode = N.circuit[c].hnode
       /\ D.tx = N.circuit[c].tx /\ D.refcnt = N.circuit[c].refcnt - 1
  <2> DEFINE B == E.circuit[c]  A == N.circuit[c]  k == B.refcnt - 1
  <2>1. /\ B \in CircuitRecs /\ B.tx = A.tx /\ A.refcnt \in Nat /\ A.refcnt > 0
        /\ D = [B EXCEPT !.refcnt = k]
    BY <1>8, <1>12
  <2>2. B.rtcflags = A.rtcflags /\ B.session = A.session /\ B.hnode = A.hnode
        /\ B.refcnt = A.refcnt
    BY <1>12 DEF SameButTx
  <2>3. k \in Nat /\ k = A.refcnt - 1
    BY <2>1, <2>2
  <2> HIDE DEF A, B, D, k
  <2>4. /\ D \in CircuitRecs /\ D.rtcflags = B.rtcflags /\ D.session = B.session
        /\ D.hnode = B.hnode /\ D.tx = B.tx /\ D.refcnt = k
    BY <2>1, <2>3 DEF CircuitRecs
  <2> QED BY <2>1, <2>2, <2>3, <2>4 DEF A
<1>14. [E EXCEPT !.circuit[c].refcnt = @ - 1, !.user = @ \ {v}] = S
  <2>1. E = [node |-> E.node, user |-> E.user, link |-> E.link,
             RunningConnectScript |-> E.RunningConnectScript, circuit |-> E.circuit,
             DupInfo |-> E.DupInfo, heard |-> E.heard]
        /\ E.circuit \in [Circuits -> CircuitRecs]
    BY <1>12 DEF NodeType
  <2> QED BY <1>12, <2>1
<1>15. V = [E EXCEPT !.circuit[c] = D] /\ S = [V EXCEPT !.user = us]
  OBVIOUS
<1> HIDE DEF D, V, us, S
<1>16. Turns(E, c, D, V)
  BY <1>12, <1>13, <1>15, TurnsIs
<1>17. /\ NodeType(S) /\ S.user = us /\ S.node = N.node /\ S.circuit[c] = D
       /\ \A d \in Circuits : d # c => S.circuit[d] = E.circuit[d]
  <2>1. /\ NodeType(V) /\ V.node = N.node /\ V.circuit[c] = D
        /\ \A d \in Circuits : d # c => V.circuit[d] = E.circuit[d]
    BY <1>12, <1>16 DEF Turns, SameButCircuits
  <2>2. NodeType(S) /\ S.user = us /\ S.node = V.node /\ S.circuit = V.circuit
    <3>1. NodeType(V) /\ us \in SUBSET UserRecs /\ IsFiniteSet(us)
      BY <1>4, <2>1 DEF us
    <3>2. S = [V EXCEPT !.user = us]
      BY <1>15
    <3>3. /\ NodeType([V EXCEPT !.user = us]) /\ [V EXCEPT !.user = us].user = us
          /\ [V EXCEPT !.user = us].node = V.node /\ [V EXCEPT !.user = us].circuit = V.circuit
      BY <3>1, UsersBecome
    <3> QED BY <3>2, <3>3
  <2> QED BY <2>1, <2>2
<1>18. Discounts(S, c, y, W)
  <2>1. S.circuit[c].hnode[y] > 0
    BY <1>2, <1>13, <1>17
  <2> QED BY <1>1, <1>9, <1>17, <2>1, CnDecIs
<1>19. /\ NodeType(W) /\ W.user = us /\ W.node = N.node
       /\ \A d \in Circuits \ {c} : W.circuit[d] = E.circuit[d]
       /\ W.circuit[c].rtcflags = N.circuit[c].rtcflags
       /\ W.circuit[c].session = N.circuit[c].session
       /\ W.circuit[c].refcnt = N.circuit[c].refcnt - 1
       /\ W.circuit[c].tx = N.circuit[c].tx
       /\ \A z \in Nodes : W.circuit[c].hnode[z] =
             IF z = y THEN N.circuit[c].hnode[z] - 1 ELSE N.circuit[c].hnode[z]
  BY <1>13, <1>17, <1>18 DEF Discounts, SameButCircuits
<1>20. /\ NodeType(K) /\ K.user = W.user /\ K.circuit = W.circuit
       /\ \A z \in Nodes : K.node[z] = IF z = y THEN N.node[z] - 1 ELSE N.node[z]
  <2> DEFINE k == N.node[y] - 1
  <2>1. k \in Nat /\ k = IF W.node[y] > 1 THEN W.node[y] - 1 ELSE Pointing(W, y)
    BY <1>2, <1>8, <1>19
  <2>2. K = node_dec(W, y)
    BY <1>9, <1>10, <1>14
  <2> HIDE DEF k
  <2>3. /\ NodeType(K) /\ K.user = W.user /\ K.circuit = W.circuit
        /\ \A z \in Nodes : K.node[z] = IF z = y THEN k ELSE W.node[z]
    BY <1>1, <1>19, <2>1, <2>2, NodeDecIs
  <2> QED BY <1>19, <2>3 DEF k
<1>21. /\ \A d \in Circuits \ {c} :
             /\ SameButTx(K.circuit[d], N.circuit[d])
             /\ K.circuit[d].tx = N.circuit[d].tx \o Maybe(EchoedTo(N, c, y, d), L)
       /\ K.circuit[c].tx = N.circuit[c].tx
       /\ K.circuit[c].rtcflags = N.circuit[c].rtcflags
       /\ K.circuit[c].session = N.circuit[c].session
       /\ K.circuit[c].refcnt = N.circuit[c].refcnt - 1
       /\ K.circuit[c].hnode[y] = N.circuit[c].hnode[y] - 1 /\ K.node[y] = N.node[y] - 1
  <2>1. \A d \in Circuits \ {c} : K.circuit[d] = E.circuit[d]
    BY <1>19, <1>20
  <2>2. \A d \in Circuits \ {c} :
           /\ SameButTx(K.circuit[d], N.circuit[d])
           /\ K.circuit[d].tx = N.circuit[d].tx \o Maybe(EchoedTo(N, c, y, d), L)
    BY <1>12, <2>1
  <2>3. K.circuit[c] = W.circuit[c] /\ K.node[y] = N.node[y] - 1
    BY <1>1, <1>20
  <2>4. W.circuit[c].hnode[y] = N.circuit[c].hnode[y] - 1
    BY <1>1, <1>19
  <2> QED BY <1>19, <2>2, <2>3, <2>4
<1>22. \A d \in Circuits : K.circuit[d].tx = N.circuit[d].tx \/ N.circuit[d].session = "open"
  <2> SUFFICES ASSUME NEW d \in Circuits, d # c
               PROVE  K.circuit[d].tx = N.circuit[d].tx \/ N.circuit[d].session = "open"
    BY <1>21
  <2>1. N.circuit[d].tx \o << >> = N.circuit[d].tx
    BY <1>1, CircuitIs, ConcatNone
  <2> QED BY <1>21, <2>1 DEF Maybe, EchoedTo
<1>23. Alters(N, c, y, K)
  <2>1. \A z \in Nodes \ {y} : K.node[z] = N.node[z] /\ K.circuit[c].hnode[z] = N.circuit[c].hnode[z]
    BY <1>19, <1>20
  <2>2. \A u : u.via # c \/ u.at # y => (u \in K.user <=> u \in N.user)
    BY <1>3, <1>19, <1>20 DEF us
  <2> QED BY <1>20, <1>21, <1>22, <2>1, <2>2 DEF Alters
<1>24. Counted(K, c, y)
  <2>1. Guests(K, c, y) = Guests(N, c, y) \ {v} /\ Users(K, c) = Users(N, c) \ {v}
    BY <1>19, <1>20 DEF us, Guests, Users
  <2>2. K.circuit[c].refcnt = Cardinality(Users(K, c))
    BY <1>5, <1>7, <1>21, <2>1
  <2>3. K.circuit[c].hnode[y] = Cardinality(Guests(N, c, y) \ {v}) + 1
    <3>1. K.circuit[c].hnode[y] = N.circuit[c].hnode[y] - 1
      BY <1>21
    <3> HIDE DEF v
    <3> QED BY <1>5, <1>7, <3>1
  <2>4. K.circuit[c].hnode[y] \in IF Guests(K, c, y) = {} THEN {0, 1}
                                  ELSE {Cardinality(Guests(K, c, y)) + 1}
    <3>1. CASE Guests(K, c, y) = {}
      <4>1. K.circuit[c].hnode[y] = 1
        BY <1>7, <2>1, <2>3, <3>1
      <4> QED BY <3>1, <4>1
    <3>2. CASE Guests(K, c, y) # {}
      BY <2>1, <2>3, <3>2
    <3> QED BY <3>1, <3>2
  <2>5. K.node[y] = K.circuit[c].hnode[y] /\ K.circuit[c].hnode[y] > 0
    BY <1>2, <1>8, <1>21
  <2> QED BY <2>2, <2>4, <2>5 DEF Counted
<1>25. Unique(K.user)
  <2>1. \A u, w \in N.user : u.call = w.call /\ u.at = w.at => u = w
    BY DEF NodeOK
  <2> QED BY <1>19, <1>20, <2>1 DEF Unique, us
<1>26. NodeOK(n, K)
  BY <1>1, <1>23, <1>24, <1>25, AltersOK
<1>27. \A call, x : user_find(N, call, x) => user_find(K, call, x) \/ Says(L, "leave", call, x)
  BY <1>3, <1>19, <1>20 DEF user_find, us, y, Says
<1>28. ASSUME NEW p \in Circuits PROVE Tells(n, N, K, p)
  <2>1. CASE p = c
    <3>1. Linked(K, c) = Linked(N, c)
      BY <1>21 DEF Linked
    <3>2. \A call \in Calls, x \in Behind(c[2], n) : user_find(N, call, x) => user_find(K, call, x)
      <4>1. Adjacent(n, c[2])
        BY LinkedIs
      <4>2. y \notin Behind(c[2], n)
        BY <1>1, <4>1, BehindBack
      <4> QED BY <1>27, <4>2 DEF Says, y
    <3>3. K.circuit[c].tx = N.circuit[c].tx /\ K.circuit[c].session = N.circuit[c].session
      BY <1>21
    <3>4. Tells(n, N, K, c)
      BY <1>1, <3>1, <3>2, <3>3, TellsNone
    <3> QED BY <2>1, <3>4
  <2>2. CASE p # c
    <3>1. /\ SameButTx(K.circuit[p], N.circuit[p])
          /\ K.circuit[p].tx = N.circuit[p].tx \o Maybe(EchoedTo(N, c, L.node, p), L)
      BY <1>21, <2>2 DEF y
    <3> QED BY <1>27, <2>2, <3>1, EchoTells
  <2> QED BY <2>1, <2>2
<1>29. Calm(N, K)
  BY <1>21 DEF Calm, SameButTx
<1>30. Hears(N, K, c, L) /\ \A d \in Circuits \ {c} : Fewer(N, K, d)
  <2>1. \A u \in K.user : u \in N.user /\ ~Says(L, "leave", u.call, u.at)
    <3>1. \A u, w \in N.user : u.call = w.call /\ u.at = w.at => u = w
      BY DEF NodeOK
    <3> QED BY <1>3, <1>19, <1>20, <3>1 DEF us, Says, y
  <2> QED BY <2>1 DEF Hears, Fewer, Users
<1> QED BY <1>26, <1>28, <1>29, <1>30 DEF Heeds, Step

\* What a link makes of n.
LEMMA LinkedToIs ==
    ASSUME net \in Networks, net.tree, NEW n \in Nodes, NEW N, NodeOK(n, N), NEW c \in Circuits,
           Linked(N, c), NEW L \in Lines, L.kind = "link", FromSide(n, c[2], L),
           ~node_find(N, L.call), NEW K, K = LinkedTo(N, c, L)
    PROVE  Heeds(n, N, c, L, K)
<1> DEFINE x == L.call
           y == L.node
           C == cn_inc(N, c, x)
<1>1. x \in Nodes /\ x \in Behind(n, c[2]) /\ x # c[2] /\ y \in Nodes /\ NodeType(N)
  BY DEF Lines, FromSide, NodeOK, Behind
<1>2. N.node[x] = 0 /\ N.circuit[c].hnode[x] = 0 /\ Guests(N, c, x) = {}
  <2>1. N.node[x] = 0
    <3>1. N.node[x] \in Nat
      BY <1>1 DEF NodeType
    <3> QED BY <3>1 DEF node_find
  <2>2. (\A u \in N.user : u.at # x) /\ \A d \in Circuits : N.circuit[d].hnode[x] = 0
    BY <1>1, <2>1, NobodyThere
  <2> QED BY <2>1, <2>2 DEF Guests
<1>3. C = cn_inc(N, c, x) /\ K = echo(C, c, y, L)
  BY DEF LinkedTo
<1> HIDE DEF C, x, y
<1>4. Counts(N, c, x, C)
  BY <1>1, <1>3, CnIncIs
<1>5. Echoes(C, c, y, L, K)
  BY <1>1, <1>3, <1>4, EchoIs DEF Counts
<1>6. NodeType(K) /\ K.user = N.user /\ K.node = C.node
  BY <1>4, <1>5 DEF Counts, Echoes, SameButCircuits
<1>7. \A d \in Circuits \ {c} :
          /\ SameButTx(K.circuit[d], N.circuit[d])
          /\ K.circuit[d].tx = N.circuit[d].tx \o Maybe(EchoedTo(N, c, y, d), L)
  <2> SUFFICES ASSUME NEW d \in Circuits \ {c}
               PROVE  /\ SameButTx(K.circuit[d], N.circuit[d])
                      /\ K.circuit[d].tx = N.circuit[d].tx \o Maybe(EchoedTo(N, c, y, d), L)
    OBVIOUS
  <2>1. C.circuit[d] = N.circuit[d]
    BY <1>4 DEF Counts
  <2>2. EchoedTo(C, c, y, d) = EchoedTo(N, c, y, d)
    BY <2>1 DEF EchoedTo, Linked
  <2> QED BY <1>5, <2>1, <2>2 DEF Echoes
<1>8. /\ K.circuit[c].tx = N.circuit[c].tx
      /\ K.circuit[c].rtcflags = N.circuit[c].rtcflags
      /\ K.circuit[c].session = N.circuit[c].session
      /\ K.circuit[c].refcnt = N.circuit[c].refcnt
      /\ K.circuit[c].hnode = C.circuit[c].hnode
  <2>1. /\ SameButTx(K.circuit[c], C.circuit[c])
        /\ K.circuit[c].tx = C.circuit[c].tx \o Maybe(EchoedTo(C, c, y, c), L)
    BY <1>5 DEF Echoes
  <2>2. Maybe(EchoedTo(C, c, y, c), L) = << >>
    BY DEF Maybe, EchoedTo
  <2>3. N.circuit[c].tx \o << >> = N.circuit[c].tx
    BY <1>1, CircuitIs, ConcatNone
  <2> QED BY <1>4, <2>1, <2>2, <2>3 DEF Counts, SameButTx
<1>9. \A d \in Circuits : K.circuit[d].tx = N.circuit[d].tx \/ N.circuit[d].session = "open"
  <2> SUFFICES ASSUME NEW d \in Circuits, d # c
               PROVE  K.circuit[d].tx = N.circuit[d].tx \/ N.circuit[d].session = "open"
    BY <1>8
  <2>1. N.circuit[d].tx \o << >> = N.circuit[d].tx
    BY <1>1, CircuitIs, ConcatNone
  <2> QED BY <1>7, <2>1 DEF Maybe, EchoedTo
<1>10. /\ \A z \in Nodes : C.node[z] = IF z = x THEN N.node[z] + 1 ELSE N.node[z]
       /\ \A z \in Nodes : C.circuit[c].hnode[z] =
             IF z = x THEN N.circuit[c].hnode[z] + 1 ELSE N.circuit[c].hnode[z]
  BY <1>4 DEF Counts
<1>11. Alters(N, c, x, K)
  <2>1. \A z \in Nodes \ {x} : K.node[z] = N.node[z] /\ K.circuit[c].hnode[z] = N.circuit[c].hnode[z]
    BY <1>6, <1>8, <1>10
  <2> QED BY <1>6, <1>7, <1>8, <1>9, <2>1 DEF Alters
<1>12. Counted(K, c, x)
  <2>1. Guests(K, c, x) = {} /\ Users(K, c) = Users(N, c)
    BY <1>2, <1>6 DEF Guests, Users
  <2>2. N.circuit[c].refcnt = Cardinality(Users(N, c))
    BY DEF NodeOK, CircuitOK
  <2>3. K.circuit[c].hnode[x] = 1 /\ K.node[x] = 1
    BY <1>1, <1>2, <1>6, <1>8, <1>10
  <2> QED BY <1>1, <1>8, <2>1, <2>2, <2>3 DEF Counted
<1>13. Unique(K.user)
  BY <1>6 DEF Unique, NodeOK
<1>14. NodeOK(n, K)
  BY <1>1, <1>11, <1>12, <1>13, AltersOK
<1>15. \A call, z : user_find(N, call, z) => user_find(K, call, z)
  BY <1>6 DEF user_find
<1>16. ASSUME NEW p \in Circuits PROVE Tells(n, N, K, p)
  <2>1. CASE p = c
    <3>1. Linked(K, c) = Linked(N, c)
      BY <1>8 DEF Linked
    <3> QED BY <1>1, <1>8, <1>15, <2>1, <3>1, TellsNone
  <2>2. CASE p # c
    <3>1. /\ SameButTx(K.circuit[p], N.circuit[p])
          /\ K.circuit[p].tx = N.circuit[p].tx \o Maybe(EchoedTo(N, c, L.node, p), L)
      BY <1>7, <2>2 DEF y
    <3> QED BY <1>15, <2>2, <3>1, EchoTells
  <2> QED BY <2>1, <2>2
<1>17. Calm(N, K)
  BY <1>7, <1>8 DEF Calm, SameButTx
<1>18. Step(n, N, K)
  BY <1>14, <1>16, <1>17 DEF Step
<1> QED BY <1>6, <1>18, HeedsSame

\* What an unlink makes of n, when nobody is left there.
LEMMA UnlinkedIs ==
    ASSUME net \in Networks, net.tree, NEW n \in Nodes, NEW N, NodeOK(n, N), NEW c \in Circuits,
           Linked(N, c), NEW L \in Lines, L.kind = "unlink", FromSide(n, c[2], L),
           N.circuit[c].hnode[L.call] > 0, \A u \in Users(N, c) : u.at # L.call,
           NEW K, K = Unlinked(N, c, L)
    PROVE  Heeds(n, N, c, L, K)
<1> DEFINE x == L.call
           y == L.node
           W == cn_dec(N, c, x)
           D == node_dec(W, x)
<1>1. x \in Nodes /\ x \in Behind(n, c[2]) /\ x # c[2] /\ y \in Nodes /\ NodeType(N)
  BY DEF Lines, FromSide, NodeOK, Behind
<1>2. Guests(N, c, x) = {} /\ \A u \in N.user : u.at # x
  <2>1. ASSUME NEW u \in N.user, u.at = x
        PROVE  FALSE
    <3>1. u.via = c
      BY <1>1, <2>1, ReachedBy
    <3> QED BY <2>1, <3>1 DEF Users
  <2> QED BY <2>1 DEF Guests
<1>3. N.circuit[c].hnode[x] = 1 /\ N.node[x] = 1
  <2>1. N.circuit[c].hnode[x] = Cardinality(Guests(N, c, x)) + 1 /\ Cardinality({}) = 0
    BY <1>1, GuestsAre
  <2>2. N.node[x] = N.circuit[c].hnode[x]
    BY <1>1, LinkedIs
  <2> QED BY <1>2, <2>1, <2>2
<1>4. W = cn_dec(N, c, x) /\ D = node_dec(W, x) /\ K = echo(D, c, y, L)
  <2>1. node_find(N, x) /\ cn_find(N.circuit[c], x)
    BY <1>3 DEF node_find, cn_find
  <2> QED BY <2>1 DEF Unlinked
<1> HIDE DEF W, D, x, y
<1>5. Discounts(N, c, x, W)
  BY <1>1, <1>3, <1>4, CnDecIs
<1>6. /\ NodeType(W) /\ W.user = N.user /\ W.node = N.node
      /\ \A d \in Circuits \ {c} : W.circuit[d] = N.circuit[d]
      /\ W.circuit[c].rtcflags = N.circuit[c].rtcflags
      /\ W.circuit[c].session = N.circuit[c].session
      /\ W.circuit[c].refcnt = N.circuit[c].refcnt
      /\ W.circuit[c].tx = N.circuit[c].tx
      /\ \A z \in Nodes : W.circuit[c].hnode[z] =
            IF z = x THEN N.circuit[c].hnode[z] - 1 ELSE N.circuit[c].hnode[z]
  BY <1>5 DEF Discounts, SameButCircuits
<1>7. \A d \in Circuits : W.circuit[d].hnode[x] = 0
  <2>1. \A d \in Circuits : N.circuit[d].hnode[x] > 0 => d = c
    BY <1>1, ReachedOnce
  <2>2. \A d \in Circuits : N.circuit[d].hnode[x] \in Nat
    BY <1>1, CircuitIs
  <2> QED BY <1>1, <1>3, <1>6, <2>1, <2>2
<1>8. Pointing(W, x) = 0
  <2> DEFINE A == {u \in W.user : u.at = x}
             B == {d \in Circuits : W.circuit[d].rtcflags = "linked" /\ cn_find(W.circuit[d], x)}
  <2>1. A = {}
    BY <1>2, <1>6
  <2>2. B = {}
    BY <1>7 DEF cn_find
  <2>3. Cardinality({}) = 0
    BY FS_EmptySet
  <2>4. Pointing(W, x) = Cardinality(A) + Cardinality(B)
    BY DEF Pointing
  <2> HIDE DEF A, B
  <2> QED BY <2>1, <2>2, <2>3, <2>4
<1>9. /\ NodeType(D) /\ D.user = N.user /\ D.circuit = W.circuit
      /\ \A z \in Nodes : D.node[z] = IF z = x THEN 0 ELSE N.node[z]
  <2> DEFINE k == 0
  <2>1. k \in Nat /\ k = IF W.node[x] > 1 THEN W.node[x] - 1 ELSE Pointing(W, x)
    BY <1>3, <1>6, <1>8
  <2> HIDE DEF k
  <2>2. /\ NodeType(D) /\ D.user = W.user /\ D.circuit = W.circuit
        /\ \A z \in Nodes : D.node[z] = IF z = x THEN k ELSE W.node[z]
    BY <1>1, <1>4, <1>6, <2>1, NodeDecIs
  <2> QED BY <1>6, <2>2 DEF k
<1>10. Echoes(D, c, y, L, K)
  BY <1>1, <1>4, <1>9, EchoIs
<1>11. NodeType(K) /\ K.user = N.user /\ K.node = D.node
  BY <1>9, <1>10 DEF Echoes, SameButCircuits
<1>12. \A d \in Circuits \ {c} :
          /\ SameButTx(K.circuit[d], N.circuit[d])
          /\ K.circuit[d].tx = N.circuit[d].tx \o Maybe(EchoedTo(N, c, y, d), L)
  <2> SUFFICES ASSUME NEW d \in Circuits \ {c}
               PROVE  /\ SameButTx(K.circuit[d], N.circuit[d])
                      /\ K.circuit[d].tx = N.circuit[d].tx \o Maybe(EchoedTo(N, c, y, d), L)
    OBVIOUS
  <2>1. D.circuit[d] = N.circuit[d]
    BY <1>6, <1>9
  <2>2. EchoedTo(D, c, y, d) = EchoedTo(N, c, y, d)
    BY <2>1 DEF EchoedTo, Linked
  <2> QED BY <1>10, <2>1, <2>2 DEF Echoes
<1>13. /\ K.circuit[c].tx = N.circuit[c].tx
       /\ K.circuit[c].rtcflags = N.circuit[c].rtcflags
       /\ K.circuit[c].session = N.circuit[c].session
       /\ K.circuit[c].refcnt = N.circuit[c].refcnt
       /\ K.circuit[c].hnode = W.circuit[c].hnode
  <2>1. /\ SameButTx(K.circuit[c], D.circuit[c])
        /\ K.circuit[c].tx = D.circuit[c].tx \o Maybe(EchoedTo(D, c, y, c), L)
    BY <1>10 DEF Echoes
  <2>2. Maybe(EchoedTo(D, c, y, c), L) = << >>
    BY DEF Maybe, EchoedTo
  <2>3. N.circuit[c].tx \o << >> = N.circuit[c].tx
    BY <1>1, CircuitIs, ConcatNone
  <2>4. D.circuit[c] = W.circuit[c]
    BY <1>9
  <2> QED BY <1>6, <2>1, <2>2, <2>3, <2>4 DEF SameButTx
<1>14. \A d \in Circuits : K.circuit[d].tx = N.circuit[d].tx \/ N.circuit[d].session = "open"
  <2> SUFFICES ASSUME NEW d \in Circuits, d # c
               PROVE  K.circuit[d].tx = N.circuit[d].tx \/ N.circuit[d].session = "open"
    BY <1>13
  <2>1. N.circuit[d].tx \o << >> = N.circuit[d].tx
    BY <1>1, CircuitIs, ConcatNone
  <2> QED BY <1>12, <2>1 DEF Maybe, EchoedTo
<1>15. Alters(N, c, x, K)
  <2>1. \A z \in Nodes \ {x} : K.node[z] = N.node[z] /\ K.circuit[c].hnode[z] = N.circuit[c].hnode[z]
    BY <1>6, <1>9, <1>11, <1>13
  <2> QED BY <1>11, <1>12, <1>13, <1>14, <2>1 DEF Alters
<1>16. Counted(K, c, x)
  <2>1. Guests(K, c, x) = {} /\ Users(K, c) = Users(N, c)
    BY <1>2, <1>11 DEF Guests, Users
  <2>2. N.circuit[c].refcnt = Cardinality(Users(N, c))
    BY DEF NodeOK, CircuitOK
  <2>3. K.circuit[c].hnode[x] = 0 /\ K.node[x] = 0
    BY <1>1, <1>7, <1>9, <1>11, <1>13
  <2> QED BY <1>1, <1>13, <2>1, <2>2, <2>3 DEF Counted
<1>17. Unique(K.user)
  BY <1>11 DEF Unique, NodeOK
<1>18. NodeOK(n, K)
  BY <1>1, <1>15, <1>16, <1>17, AltersOK
<1>19. /\ \A call, z : user_find(N, call, z) => user_find(K, call, z)
       /\ \A call : ~user_find(N, call, L.call)
  BY <1>2, <1>11 DEF user_find, x
<1>20. ASSUME NEW p \in Circuits PROVE Tells(n, N, K, p)
  <2>1. CASE p = c
    <3>1. Linked(K, c) = Linked(N, c)
      BY <1>13 DEF Linked
    <3> QED BY <1>1, <1>13, <1>19, <2>1, <3>1, TellsNone
  <2>2. CASE p # c
    <3>1. /\ SameButTx(K.circuit[p], N.circuit[p])
          /\ K.circuit[p].tx = N.circuit[p].tx \o Maybe(EchoedTo(N, c, L.node, p), L)
      BY <1>12, <2>2 DEF y
    <3> QED BY <1>19, <2>2, <3>1, EchoTells
  <2> QED BY <2>1, <2>2
<1>21. Calm(N, K)
  BY <1>12, <1>13 DEF Calm, SameButTx
<1>22. Step(n, N, K)
  BY <1>18, <1>20, <1>21 DEF Step
<1> QED BY <1>11, <1>22, HeedsSame

(***************************************************************************)
(* Texts and topics.                                                       *)
(***************************************************************************)
\* A line has been sent on some of the circuits that are linked.
Spread(N, line, K) == \A c \in Circuits :
    /\ SameButTx(K.circuit[c], N.circuit[c])
    /\ \E b \in BOOLEAN : /\ b => Linked(N, c) /\ N.circuit[c].session = "open"
                          /\ K.circuit[c].tx = N.circuit[c].tx \o Maybe(b, line)

\* Nobody has come, and those who are there are where they were.
Kept(N, K) == \A u \in K.user : \E v \in N.user : v.call = u.call /\ v.at = u.at /\ v.via = u.via

\* What is sent.
LEMMA SpreadIs ==
    ASSUME NEW N, NodeType(N), NEW line, NEW K, Spread(N, line, K)
    PROVE  /\ Calm(N, K)
           /\ \A c \in Circuits : /\ SameButTx(K.circuit[c], N.circuit[c])
                                  /\ \/ K.circuit[c].tx = N.circuit[c].tx
                                     \/ N.circuit[c].session = "open"
<1>1. ASSUME NEW c \in Circuits
      PROVE  /\ SameButTx(K.circuit[c], N.circuit[c])
             /\ K.circuit[c].tx = N.circuit[c].tx \/ N.circuit[c].session = "open"
  <2>1. PICK b \in BOOLEAN : /\ b => Linked(N, c) /\ N.circuit[c].session = "open"
                             /\ K.circuit[c].tx = N.circuit[c].tx \o Maybe(b, line)
    BY DEF Spread
  <2>2. N.circuit[c].tx \o << >> = N.circuit[c].tx
    BY CircuitIs, ConcatNone
  <2>3. ~b => Maybe(b, line) = << >>
    BY DEF Maybe
  <2> QED BY <2>1, <2>2, <2>3 DEF Spread
<1> QED BY <1>1 DEF Calm, SameButTx

\* A text or a topic that is sent changes nothing of what the others must know.
LEMMA SpreadStep ==
    ASSUME NEW n, NEW N, NodeType(N), NEW line \in Lines, line.kind \in {"data", "topic"},
           NEW K, NodeOK(n, K), Spread(N, line, K),
           \A call, x : user_find(N, call, x) => user_find(K, call, x)
    PROVE  Step(n, N, K)
<1>1. ASSUME NEW p \in Circuits PROVE Tells(n, N, K, p)
  <2>1. PICK b \in BOOLEAN : /\ b => Linked(N, p) /\ N.circuit[p].session = "open"
                             /\ K.circuit[p].tx = N.circuit[p].tx \o Maybe(b, line)
    BY DEF Spread
  <2>2. SameButTx(K.circuit[p], N.circuit[p])
    BY DEF Spread
  <2>3. FromSide(p[2], n, line)
    BY DEF FromSide
  <2> QED BY <2>1, <2>2, <2>3, TellsLine
<1>2. Calm(N, K)
  BY SpreadIs
<1> QED BY <1>1, <1>2 DEF Step

\* One element for another.
LEMMA Swapped ==
    ASSUME NEW S, IsFiniteSet(S), NEW u, u \in S, NEW v, v \notin S \ {u},
           NEW T, T = (S \ {u}) \cup {v}
    PROVE  Cardinality(T) = Cardinality(S) /\ T # {} /\ S # {}
<1> DEFINE R == S \ {u}
<1>1. IsFiniteSet(R) /\ Cardinality(R) = Cardinality(S) - 1
  BY FS_RemoveElement
<1>2. Cardinality(S) \in Nat
  BY FS_CardinalityType
<1> HIDE DEF R
<1>3. Cardinality(R \cup {v}) = Cardinality(R) + 1
  <2>1. v \notin R
    BY DEF R
  <2> QED BY <1>1, <2>1, FS_AddElement
<1> QED BY <1>1, <1>2, <1>3 DEF R

\* M is N but for what is sent and the topic of u, which is now v.
Retopics(N, u, v, M) ==
    /\ NodeType(M) /\ M.node = N.node /\ M.user = (N.user \ {u}) \cup {v}
    /\ v.call = u.call /\ v.at = u.at /\ v.via = u.via
    /\ \A c \in Circuits : /\ SameButTx(M.circuit[c], N.circuit[c])
                           /\ M.circuit[c].tx = N.circuit[c].tx \/ N.circuit[c].session = "open"

\* A change of topic moves nobody.
LEMMA RetopicsOK ==
    ASSUME NEW n, NEW N, NodeOK(n, N), NEW u \in N.user, NEW v, NEW M, Retopics(N, u, v, M)
    PROVE  /\ NodeOK(n, M) /\ Kept(N, M)
           /\ \A call, x : user_find(N, call, x) => user_find(M, call, x)
<1>1. /\ NodeType(M) /\ M.node = N.node /\ M.user = (N.user \ {u}) \cup {v}
      /\ v.call = u.call /\ v.at = u.at /\ v.via = u.via
      /\ \A c \in Circuits : /\ SameButTx(M.circuit[c], N.circuit[c])
                             /\ M.circuit[c].tx = N.circuit[c].tx \/ N.circuit[c].session = "open"
  BY DEF Retopics
<1>2. /\ \A w, z \in N.user : w.call = z.call /\ w.at = z.at => w = z
      /\ \A c \in Circuits : CircuitOK(n, N, c)
      /\ IsFiniteSet(N.user)
  BY DEF NodeOK, NodeType
<1>3. v \notin N.user \ {u}
  BY <1>1, <1>2
<1>4. ASSUME NEW S, S \subseteq N.user, NEW T, T = IF u \in S THEN (S \ {u}) \cup {v} ELSE S
      PROVE  Cardinality(T) = Cardinality(S) /\ (T = {}) = (S = {})
  <2>1. CASE u \in S
    <3>1. IsFiniteSet(S) /\ v \notin S \ {u}
      BY <1>2, <1>3, <1>4, FS_Subset
    <3>2. T = (S \ {u}) \cup {v}
      BY <1>4, <2>1
    <3> QED BY <2>1, <3>1, <3>2, Swapped
  <2>2. CASE u \notin S
    BY <1>4, <2>2
  <2> QED BY <2>1, <2>2
<1>5. \A d : Cardinality(Users(M, d)) = Cardinality(Users(N, d))
  <2> SUFFICES ASSUME NEW d PROVE Cardinality(Users(M, d)) = Cardinality(Users(N, d))
    OBVIOUS
  <2> DEFINE S == Users(N, d)  T == Users(M, d)
  <2>1. S \subseteq N.user /\ T = IF u \in S THEN (S \ {u}) \cup {v} ELSE S
    BY <1>1 DEF Users
  <2> HIDE DEF S, T
  <2>2. Cardinality(T) = Cardinality(S)
    BY <1>4, <2>1
  <2> QED BY <2>2 DEF S, T
<1>6. \A d, x : /\ Cardinality(Guests(M, d, x)) = Cardinality(Guests(N, d, x))
                /\ (Guests(M, d, x) = {}) = (Guests(N, d, x) = {})
  <2> SUFFICES ASSUME NEW d, NEW x
               PROVE  /\ Cardinality(Guests(M, d, x)) = Cardinality(Guests(N, d, x))
                      /\ (Guests(M, d, x) = {}) = (Guests(N, d, x) = {})
    OBVIOUS
  <2> DEFINE S == Guests(N, d, x)  T == Guests(M, d, x)
  <2>1. S \subseteq N.user /\ T = IF u \in S THEN (S \ {u}) \cup {v} ELSE S
    BY <1>1 DEF Guests
  <2> HIDE DEF S, T
  <2>2. Cardinality(T) = Cardinality(S) /\ (T = {}) = (S = {})
    BY <1>4, <2>1
  <2> QED BY <2>2 DEF S, T
<1>7. ASSUME NEW c \in Circuits
      PROVE  CircuitOK(n, M, c)
  <2>1. /\ M.circuit[c].rtcflags = N.circuit[c].rtcflags
        /\ M.circuit[c].refcnt = N.circuit[c].refcnt /\ M.circuit[c].hnode = N.circuit[c].hnode
    BY <1>1 DEF SameButTx
  <2>2. SessionOK(n, M.circuit[c], c)
    <3>1. SessionOK(n, N.circuit[c], c)
      BY <1>2 DEF CircuitOK
    <3> QED BY <1>1, <3>1, SessionSame
  <2>3. ASSUME NEW x \in Nodes
        PROVE  /\ M.circuit[c].hnode[x] > 0 => x \in Behind(n, c[2]) /\ M.node[x] = M.circuit[c].hnode[x]
               /\ M.circuit[c].hnode[x] \in IF Guests(M, c, x) = {} THEN {0, 1}
                                            ELSE {Cardinality(Guests(M, c, x)) + 1}
    <3>1. N.circuit[c].hnode[x] > 0 => x \in Behind(n, c[2]) /\ N.node[x] = N.circuit[c].hnode[x]
      BY <1>2 DEF CircuitOK
    <3>2. N.circuit[c].hnode[x] \in IF Guests(N, c, x) = {} THEN {0, 1}
                                    ELSE {Cardinality(Guests(N, c, x)) + 1}
      BY <1>2 DEF CircuitOK
    <3>3. /\ Cardinality(Guests(M, c, x)) = Cardinality(Guests(N, c, x))
          /\ (Guests(M, c, x) = {}) = (Guests(N, c, x) = {})
      BY <1>6
    <3>4. CASE Guests(N, c, x) = {}
      BY <1>1, <2>1, <3>1, <3>2, <3>3, <3>4
    <3>5. CASE Guests(N, c, x) # {}
      BY <1>1, <2>1, <3>1, <3>2, <3>3, <3>5
    <3> QED BY <3>4, <3>5
  <2>4. /\ Linked(M, c) => M.circuit[c].hnode[c[2]] > 0
        /\ ~Linked(M, c) => M.circuit[c].hnode = NoCircuit.hnode
        /\ M.circuit[c].refcnt = Cardinality(Users(M, c))
    BY <1>2, <1>5, <2>1 DEF CircuitOK, Linked
  <2> QED BY <2>2, <2>3, <2>4 DEF CircuitOK
<1>8. \A w, z \in M.user : w.call = z.call /\ w.at = z.at => w = z
  BY <1>1, <1>2
<1>9. \A w \in M.user : \E z \in N.user : z.call = w.call /\ z.at = w.at /\ z.via = w.via
  BY <1>1
<1>10. ASSUME NEW w \in M.user
       PROVE  \/ w.via = Local /\ w.at = n
              \/ w.via \in Circuits /\ M.circuit[w.via].hnode[w.at] > 0
  <2>1. PICK z \in N.user : z.call = w.call /\ z.at = w.at /\ z.via = w.via
    BY <1>9
  <2> QED BY <1>1, <2>1 DEF NodeOK, SameButTx
<1>11. M.node[n] = Cardinality(Users(M, Local))
  BY <1>1, <1>5 DEF NodeOK
<1>12. \A x \in Nodes \ {n} : M.node[x] > 0 => \E c \in Circuits : M.circuit[c].hnode[x] > 0
  BY <1>1 DEF NodeOK, SameButTx
<1>13. \A c, d \in Circuits : Linked(M, c) /\ Linked(M, d) /\ c[2] = d[2] => c = d
  BY <1>1 DEF NodeOK, SameButTx, Linked
<1>14. NodeOK(n, M)
  BY <1>1, <1>7, <1>8, <1>10, <1>11, <1>12, <1>13 DEF NodeOK
<1>15. \A call, x : user_find(N, call, x) => user_find(M, call, x)
  BY <1>1 DEF user_find
<1> QED BY <1>9, <1>14, <1>15 DEF Kept

\* Nobody comes or goes, and the line is no leave.
LEMMA HeedsKept ==
    ASSUME NEW n, NEW N, NEW K, NEW c, NEW L, Step(n, N, K), Kept(N, K), L.kind # "leave"
    PROVE  Heeds(n, N, c, L, K) /\ \A d : Fewer(N, K, d)
  BY DEF Heeds, Hears, Fewer, Users, Says, Kept

\* A line is sent on the circuits that g says.
LEMMA SomeSent ==
    ASSUME NEW N, NodeType(N), NEW line \in Lines, NEW g \in [Circuits -> BOOLEAN],
           \A c \in Circuits : g[c] => Linked(N, c), NEW f,
           f = [c \in Circuits |-> IF g[c] THEN Send(N.circuit[c], << line >>) ELSE N.circuit[c]],
           NEW M, M = [N EXCEPT !.circuit = f]
    PROVE  NodeType(M) /\ SameButCircuits(N, M) /\ Spread(N, line, M)
<1>1. << line >> \in Seq(Lines)
  BY OneIs
<1>2. ASSUME NEW c \in Circuits
      PROVE  /\ f[c] \in CircuitRecs /\ SameButTx(f[c], N.circuit[c])
             /\ \E b \in BOOLEAN : /\ b => Linked(N, c) /\ N.circuit[c].session = "open"
                                   /\ f[c].tx = N.circuit[c].tx \o Maybe(b, line)
  <2>1. N.circuit[c] \in CircuitRecs /\ N.circuit[c].tx \in Seq(Lines)
    BY CircuitIs
  <2>2. N.circuit[c].tx \o << >> = N.circuit[c].tx
    BY <2>1, ConcatNone
  <2>3. SameButTx(N.circuit[c], N.circuit[c])
    BY DEF SameButTx
  <2>4. /\ Send(N.circuit[c], << line >>) \in CircuitRecs
        /\ SameButTx(Send(N.circuit[c], << line >>), N.circuit[c])
        /\ Send(N.circuit[c], << line >>).tx =
              IF N.circuit[c].session = "open" THEN N.circuit[c].tx \o << line >> ELSE N.circuit[c].tx
    BY <1>1, <2>1, SendIs
  <2>5. f[c] = IF g[c] THEN Send(N.circuit[c], << line >>) ELSE N.circuit[c]
    OBVIOUS
  <2>6. Maybe(TRUE, line) = << line >> /\ Maybe(FALSE, line) = << >>
    BY DEF Maybe
  <2>7. CASE g[c] /\ N.circuit[c].session = "open"
    <3>1. f[c].tx = N.circuit[c].tx \o Maybe(TRUE, line)
      BY <2>4, <2>5, <2>6, <2>7
    <3> QED BY <2>4, <2>5, <2>7, <3>1
  <2>8. CASE ~(g[c] /\ N.circuit[c].session = "open")
    <3>1. f[c].tx = N.circuit[c].tx \o Maybe(FALSE, line)
      BY <2>2, <2>4, <2>5, <2>6, <2>8
    <3>2. f[c] \in CircuitRecs /\ SameButTx(f[c], N.circuit[c])
      BY <2>1, <2>3, <2>4, <2>5
    <3> QED BY <3>1, <3>2
  <2> QED BY <2>7, <2>8
<1>3. f \in [Circuits -> CircuitRecs]
  <2>1. f = [c \in Circuits |-> f[c]]
    OBVIOUS
  <2> QED BY <1>2, <2>1
<1>4. NodeType(M) /\ M.circuit = f /\ SameButCircuits(N, M)
  BY <1>3, CircuitsBecome
<1> QED BY <1>2, <1>4 DEF Spread

\* text_tellu.
LEMMA TextIs ==
    ASSUME NEW N, NodeType(N), NEW u, NEW text, NEW circuits, NEW line \in Lines, NEW K,
           K = text_tellu(N, u, text, circuits, line)
    PROVE  NodeType(K) /\ K.node = N.node /\ K.user = N.user /\ Spread(N, line, K)
<1> DEFINE h == N.heard \o SetToSeq({<< v.call, u.call, text >> :
                      v \in {w \in Users(N, Local) : w.topic = u.topic /\ w # u}})
           V == [N EXCEPT !.heard = h]
           g == [c \in Circuits |-> /\ c \in circuits /\ N.circuit[c].rtcflags = "linked"
                                    /\ N.circuit[c].refcnt # 0 /\ ct_find(N, c, u.topic)]
           f == [c \in Circuits |-> IF g[c] THEN Send(V.circuit[c], << line >>) ELSE V.circuit[c]]
<1>1. NodeType(V) /\ SameFields(N, V)
  <2> DEFINE lk == N.link
  <2>1. lk \in [Nodes -> {"none", "linkini", "linked", "failed"}]
    BY DEF NodeType
  <2> HIDE DEF lk, h
  <2>2. NodeType([N EXCEPT !.heard = h]) /\ SameFields(N, [N EXCEPT !.heard = h])
    BY <2>1, FieldsBecome
  <2> QED BY <2>2
<1>2. V.circuit = N.circuit /\ V.user = N.user /\ V.node = N.node
  BY <1>1 DEF SameFields
<1>3. K = [V EXCEPT !.circuit = f]
  <2>1. N = [node |-> N.node, user |-> N.user, link |-> N.link,
             RunningConnectScript |-> N.RunningConnectScript, circuit |-> N.circuit,
             DupInfo |-> N.DupInfo, heard |-> N.heard]
    BY DEF NodeType
  <2>2. f = [c \in Circuits |->
            IF /\ c \in circuits /\ N.circuit[c].rtcflags = "linked"
               /\ N.circuit[c].refcnt # 0 /\ ct_find(N, c, u.topic)
            THEN Send(N.circuit[c], << line >>) ELSE N.circuit[c]]
    <3> HIDE DEF V
    <3> QED BY <1>2
  <2>3. K = [N EXCEPT !.heard = h, !.circuit = [c \in Circuits |->
            IF /\ c \in circuits /\ N.circuit[c].rtcflags = "linked"
               /\ N.circuit[c].refcnt # 0 /\ ct_find(N, c, u.topic)
            THEN Send(N.circuit[c], << line >>) ELSE N.circuit[c]]]
    BY DEF text_tellu
  <2>4. K = [N EXCEPT !.heard = h, !.circuit = f]
    BY <2>2, <2>3
  <2> HIDE DEF f, h
  <2> QED BY <2>1, <2>4
<1>4. g \in [Circuits -> BOOLEAN] /\ \A c \in Circuits : g[c] => Linked(V, c)
  <2>1. g \in [Circuits -> BOOLEAN]
    BY DEF ct_find
  <2>2. \A c \in Circuits : g[c] => N.circuit[c].rtcflags = "linked"
    OBVIOUS
  <2> HIDE DEF g, V
  <2> QED BY <1>2, <2>1, <2>2 DEF Linked
<1>5. f = [c \in Circuits |-> IF g[c] THEN Send(V.circuit[c], << line >>) ELSE V.circuit[c]]
  OBVIOUS
<1> HIDE DEF V, f, g
<1>6. NodeType(K) /\ SameButCircuits(V, K) /\ Spread(V, line, K)
  BY <1>1, <1>3, <1>4, <1>5, SomeSent
<1>7. Spread(N, line, K)
  BY <1>2, <1>6 DEF Spread, Linked
<1> QED BY <1>2, <1>6, <1>7 DEF SameButCircuits

\* A text is told.
LEMMA TextStep ==
    ASSUME NEW n, NEW N, NodeOK(n, N), NEW u, NEW text, NEW circuits,
           NEW line \in Lines, line.kind = "data", NEW K,
           K = text_tellu(N, u, text, circuits, line)
    PROVE  Step(n, N, K) /\ K.user = N.user
<1>1. NodeType(N)
  BY DEF NodeOK
<1>2. NodeType(K) /\ K.node = N.node /\ K.user = N.user /\ Spread(N, line, K)
  BY <1>1, TextIs
<1>3. \A c \in Circuits : /\ SameButTx(K.circuit[c], N.circuit[c])
                          /\ K.circuit[c].tx = N.circuit[c].tx \/ N.circuit[c].session = "open"
  BY <1>1, <1>2, SpreadIs
<1>4. NodeOK(n, K)
  BY <1>2, <1>3, OnlySent
<1>5. \A call, x : user_find(N, call, x) => user_find(K, call, x)
  BY <1>2 DEF user_find
<1> QED BY <1>1, <1>2, <1>4, <1>5, SpreadStep

\* ProcessChatLine.
LEMMA SaidStep ==
    ASSUME NEW n \in Nodes, NEW N, NodeOK(n, N), NEW u \in N.user, NEW text \in Texts,
           NEW K, K = Said(N, n, u, text)
    PROVE  Step(n, N, K) /\ K.user = N.user
<1> DEFINE line == Line("data", n, u.call, text)
           circuits == Circuits
<1>1. line \in Lines /\ line.kind = "data"
  <2>1. u.call \in Calls
    BY DEF NodeOK, NodeType, UserRecs
  <2> QED BY <2>1, LineIs
<1>2. K = text_tellu(N, u, text, circuits, line)
  BY DEF Said
<1> HIDE DEF line, circuits
<1> QED BY <1>1, <1>2, TextStep

\* What a text makes of n.
LEMMA DataIs ==
    ASSUME NEW n, NEW N, NodeOK(n, N), NEW L \in Lines, L.kind = "data", NEW recent,
           NEW K, K = Data(N, L, recent)
    PROVE  Step(n, N, K) /\ K.user = N.user
<1> DEFINE h == N.DupInfo \cup {<< L.call, L.arg >>}
           S == [N EXCEPT !.DupInfo = h]
<1>1. NodeType(S) /\ SameFields(N, S)
  <2> DEFINE lk == N.link
  <2>1. lk \in [Nodes -> {"none", "linkini", "linked", "failed"}] /\ NodeType(N)
    BY DEF NodeOK, NodeType
  <2> HIDE DEF lk, h
  <2>2. NodeType([N EXCEPT !.DupInfo = h]) /\ SameFields(N, [N EXCEPT !.DupInfo = h])
    BY <2>1, FieldsBecome
  <2> QED BY <2>2
<1>2. K \in {N, S} \/ \E u, circuits : K = text_tellu(S, u, L.arg, circuits, L)
  <2> DEFINE u == UserAt(N, L.call, L.node)
             circuits == {d \in Circuits : ~cn_find(N.circuit[d], L.node)}
  <2>1. K = IF recent /\ IsDup(N, L) THEN N
            ELSE IF ~user_find(N, L.call, L.node) THEN S
            ELSE text_tellu(S, u, L.arg, circuits, L)
    BY DEF Data
  <2> HIDE DEF u, circuits, S
  <2> QED BY <2>1
<1> HIDE DEF S
<1>3. S.circuit = N.circuit /\ S.user = N.user /\ S.node = N.node
  BY <1>1 DEF SameFields
<1>4. NodeOK(n, S)
  <2>1. \A c \in Circuits : SessionOK(n, S.circuit[c], c)
    BY <1>3 DEF NodeOK, CircuitOK
  <2> QED BY <1>1, <1>3, <2>1, OnlyFlags DEF Linked
<1>5. Unseen(N, S)
  BY <1>3 DEF Unseen, Calm, Linked
<1>6. CASE K = N
  BY <1>6, StepNone
<1>7. CASE K = S
  <2>1. Step(n, S, S)
    BY <1>4, StepNone
  <2>2. Step(n, N, S)
    BY <1>5, <2>1, QuietFirst
  <2> QED BY <1>3, <1>7, <2>2
<1>8. ASSUME NEW u, NEW circuits, K = text_tellu(S, u, L.arg, circuits, L)
      PROVE  Step(n, N, K) /\ K.user = N.user
  <2>1. Step(n, S, K) /\ K.user = S.user
    BY <1>4, <1>8, TextStep
  <2> QED BY <1>3, <1>5, <2>1, QuietFirst
<1> QED BY <1>2, <1>6, <1>7, <1>8

\* A user's topic.
LEMMA InTopicIs ==
    ASSUME NEW N, NodeType(N), NEW u \in N.user, NEW topic \in Topics, NEW K,
           K = InTopic(N, u, topic)
    PROVE  /\ NodeType(K) /\ K.node = N.node /\ K.circuit = N.circuit
           /\ \E v : /\ K.user = (N.user \ {u}) \cup {v}
                     /\ v.call = u.call /\ v.at = u.at /\ v.via = u.via
<1> DEFINE v == [u EXCEPT !.topic = topic]
           us == (N.user \ {u}) \cup {v}
<1>1. u \in UserRecs /\ N.user \in SUBSET UserRecs /\ IsFiniteSet(N.user)
  BY DEF NodeType
<1>2. v \in UserRecs /\ v.call = u.call /\ v.at = u.at /\ v.via = u.via
  BY <1>1 DEF UserRecs
<1>3. K = [N EXCEPT !.user = us]
  BY DEF InTopic
<1> HIDE DEF v
<1>4. us \in SUBSET UserRecs /\ IsFiniteSet(us)
  <2>1. IsFiniteSet(N.user \ {u})
    BY <1>1, FS_RemoveElement
  <2>2. IsFiniteSet(us)
    BY <2>1, FS_AddElement
  <2> QED BY <1>1, <1>2, <2>2
<1>5. K.user = us /\ us = (N.user \ {u}) \cup {v}
  <2> HIDE DEF us
  <2>1. K.user = us
    BY <1>3, <1>4, UsersBecome
  <2> QED BY <2>1 DEF us
<1> HIDE DEF us
<1>6. NodeType(K) /\ K.node = N.node /\ K.circuit = N.circuit
  BY <1>3, <1>4, UsersBecome
<1> QED BY <1>2, <1>5, <1>6

\* What a topic makes of n.
LEMMA TopicOfIs ==
    ASSUME NEW n, NEW N, NodeOK(n, N), NEW c \in Circuits, NEW L \in Lines, L.kind = "topic",
           NEW K, K = TopicOf(N, c, L)
    PROVE  Step(n, N, K) /\ Kept(N, K)
<1> DEFINE u == UserAt(N, L.call, L.node)
           E == echo(N, c, L.node, L)
<1>0. NodeType(N) /\ L.node \in Nodes /\ L.arg \in Topics
  BY DEF NodeOK, Lines
<1>1. K = IF ~user_find(N, L.call, L.node) \/ u.topic = L.arg THEN N ELSE InTopic(E, u, L.arg)
  BY DEF TopicOf
<1>2. user_find(N, L.call, L.node) => u \in N.user
  BY DEF user_find, UserAt
<1>3. E = echo(N, c, L.node, L)
  OBVIOUS
<1> HIDE DEF u, E
<1>4. CASE K = N
  <2>1. Kept(N, N)
    BY DEF Kept
  <2> QED BY <1>4, <2>1, StepNone
<1>5. CASE K # N
  <2>1. u \in N.user /\ K = InTopic(E, u, L.arg)
    BY <1>1, <1>2, <1>5
  <2>2. Echoes(N, c, L.node, L, E)
    BY <1>0, <1>3, EchoIs
  <2>3. NodeType(E) /\ E.node = N.node /\ E.user = N.user
    BY <2>2 DEF Echoes, SameButCircuits
  <2>4. Spread(N, L, E)
    <3> SUFFICES ASSUME NEW d \in Circuits
                 PROVE  /\ SameButTx(E.circuit[d], N.circuit[d])
                        /\ \E b \in BOOLEAN :
                              /\ b => Linked(N, d) /\ N.circuit[d].session = "open"
                              /\ E.circuit[d].tx = N.circuit[d].tx \o Maybe(b, L)
      BY DEF Spread
    <3> DEFINE b == EchoedTo(N, c, L.node, d)
    <3>1. b \in BOOLEAN /\ (b => Linked(N, d) /\ N.circuit[d].session = "open")
      BY DEF EchoedTo, Linked
    <3>2. SameButTx(E.circuit[d], N.circuit[d]) /\ E.circuit[d].tx = N.circuit[d].tx \o Maybe(b, L)
      BY <2>2 DEF Echoes
    <3> HIDE DEF b
    <3> QED BY <3>1, <3>2
  <2>5. u \in E.user
    BY <2>1, <2>3
  <2>6. NodeType(K) /\ K.node = E.node /\ K.circuit = E.circuit
    BY <1>0, <2>1, <2>3, <2>5, InTopicIs
  <2>7. PICK v : /\ K.user = (E.user \ {u}) \cup {v}
                 /\ v.call = u.call /\ v.at = u.at /\ v.via = u.via
    BY <1>0, <2>1, <2>3, <2>5, InTopicIs
  <2>8. Spread(N, L, K)
    BY <2>4, <2>6 DEF Spread
  <2>9. \A d \in Circuits : /\ SameButTx(K.circuit[d], N.circuit[d])
                            /\ K.circuit[d].tx = N.circuit[d].tx \/ N.circuit[d].session = "open"
    BY <1>0, <2>8, SpreadIs
  <2>10. Retopics(N, u, v, K)
    BY <2>3, <2>6, <2>7, <2>9 DEF Retopics
  <2>11. NodeOK(n, K) /\ Kept(N, K) /\ \A call, x : user_find(N, call, x) => user_find(K, call, x)
    BY <2>1, <2>10, RetopicsOK
  <2> QED BY <1>0, <2>8, <2>11, SpreadStep
<1> QED BY <1>4, <1>5

\* The /t command.
LEMMA TopicStep ==
    ASSUME NEW n \in Nodes, NEW N, NodeOK(n, N), NEW u \in N.user, NEW topic \in Topics,
           NEW K, K = topic_chg(N, n, u, topic)
    PROVE  Step(n, N, K) /\ Kept(N, K)
<1> DEFINE S == InTopic(N, u, topic)
           line == Line("topic", n, u.call, topic)
           g == [c \in Circuits |-> S.circuit[c].rtcflags = "linked"]
           f == [c \in Circuits |-> IF g[c] THEN Send(S.circuit[c], << line >>) ELSE S.circuit[c]]
<1>0. NodeType(N)
  BY DEF NodeOK
<1>1. line \in Lines /\ line.kind = "topic"
  <2>1. u.call \in Calls
    BY <1>0 DEF NodeType, UserRecs
  <2> QED BY <2>1, LineIs
<1>2. S = InTopic(N, u, topic)
  OBVIOUS
<1>3. K = [S EXCEPT !.circuit = f]
  <2>1. f = [c \in Circuits |-> IF S.circuit[c].rtcflags = "linked"
                                THEN Send(S.circuit[c], << line >>) ELSE S.circuit[c]]
    <3> HIDE DEF S, line
    <3> QED OBVIOUS
  <2> HIDE DEF f
  <2> QED BY <2>1 DEF topic_chg
<1>4. g \in [Circuits -> BOOLEAN] /\ \A c \in Circuits : g[c] => Linked(S, c)
  BY DEF Linked
<1>5. f = [c \in Circuits |-> IF g[c] THEN Send(S.circuit[c], << line >>) ELSE S.circuit[c]]
  OBVIOUS
<1> HIDE DEF S, line, g, f
<1>6. NodeType(S) /\ S.node = N.node /\ S.circuit = N.circuit
  BY <1>0, <1>2, InTopicIs
<1>7. PICK v : /\ S.user = (N.user \ {u}) \cup {v}
               /\ v.call = u.call /\ v.at = u.at /\ v.via = u.via
  BY <1>0, <1>2, InTopicIs
<1>8. NodeType(K) /\ SameButCircuits(S, K) /\ Spread(S, line, K)
  BY <1>1, <1>3, <1>4, <1>5, <1>6, SomeSent
<1>9. Spread(N, line, K)
  BY <1>6, <1>8 DEF Spread, Linked
<1>10. \A d \in Circuits : /\ SameButTx(K.circuit[d], N.circuit[d])
                           /\ K.circuit[d].tx = N.circuit[d].tx \/ N.circuit[d].session = "open"
  BY <1>0, <1>9, SpreadIs
<1>11. Retopics(N, u, v, K)
  BY <1>6, <1>7, <1>8, <1>10 DEF Retopics, SameButCircuits
<1>12. NodeOK(n, K) /\ Kept(N, K) /\ \A call, x : user_find(N, call, x) => user_find(K, call, x)
  BY <1>11, RetopicsOK
<1> QED BY <1>0, <1>1, <1>9, <1>12, SpreadStep

\* What a line makes of n.  When it is an unlink, nobody who was reached by c is
\* left there.
LEMMA chkctlIs ==
    ASSUME net \in Networks, net.tree, NEW n \in Nodes, NEW N, NodeOK(n, N), NEW c \in Circuits,
           Linked(N, c), NEW L \in Lines, FromSide(n, c[2], L), NEW recent,
           L.kind = "unlink" => \A u \in Users(N, c) : u.at # L.call,
           NEW K, K = chkctl(N, n, c, L, recent)
    PROVE  Heeds(n, N, c, L, K)
<1>0. L.kind \in {"RTL", "OK", "link", "unlink", "join", "leave", "topic", "data"}
      /\ L.node \in Nodes /\ L.call \in Calls \cup Nodes
  BY DEF Lines
<1>1. L.kind = "leave" /\ ~user_find(N, L.call, L.node) => Heeds(n, N, c, L, N)
  BY StepNone, HeedsSame
<1>2. L.kind # "leave" => Heeds(n, N, c, L, N)
  <2>1. Kept(N, N) /\ Step(n, N, N)
    BY StepNone DEF Kept
  <2> QED BY <2>1, HeedsKept
<1>3. CASE ~node_find(N, L.node) \/ L.node = n
  <2>1. K = N
    BY <1>3 DEF chkctl
  <2>2. L.kind = "leave" => ~user_find(N, L.call, L.node)
    <3>1. CASE ~node_find(N, L.node)
      <4>1. N.node[L.node] = 0
        BY <1>0, <3>1 DEF node_find, NodeOK, NodeType
      <4>2. \A u \in N.user : u.at # L.node
        BY <1>0, <4>1, NobodyThere
      <4> QED BY <4>2 DEF user_find
    <3>2. CASE L.node = n
      <4>1. L.kind = "leave" => L.node \in Behind(n, c[2])
        BY DEF FromSide
      <4>2. L.kind # "leave"
        BY <3>2, <4>1, ReachedOnce
      <4> QED BY <4>2
    <3> QED BY <1>3, <3>1, <3>2
  <2> QED BY <1>1, <1>2, <2>1, <2>2
<1>4. CASE node_find(N, L.node) /\ L.node # n
  <2>1. CASE L.kind = "data"
    <3>1. K = Data(N, L, recent)
      BY <1>4, <2>1 DEF chkctl
    <3>2. Step(n, N, K) /\ K.user = N.user
      BY <2>1, <3>1, DataIs
    <3> QED BY <2>1, <3>2, HeedsSame
  <2>2. CASE L.kind = "join"
    <3>1. K = Joined(N, c, L)
      BY <1>4, <2>2 DEF chkctl
    <3>2. CASE user_find(N, L.call, L.node)
      BY <1>2, <2>2, <3>1, <3>2 DEF Joined
    <3>3. CASE ~user_find(N, L.call, L.node)
      BY <1>4, <2>2, <3>1, <3>3, JoinedIs
    <3> QED BY <3>2, <3>3
  <2>3. CASE L.kind = "leave"
    <3>1. K = Gone(N, c, L)
      BY <1>4, <2>3 DEF chkctl
    <3>2. CASE ~user_find(N, L.call, L.node)
      BY <1>1, <2>3, <3>1, <3>2 DEF Gone
    <3>3. CASE user_find(N, L.call, L.node)
      BY <1>4, <2>3, <3>1, <3>3, GoneIs
    <3> QED BY <3>2, <3>3
  <2>4. CASE L.kind = "link"
    <3>1. K = LinkedTo(N, c, L)
      BY <1>4, <2>4 DEF chkctl
    <3>2. CASE node_find(N, L.call)
      BY <1>2, <2>4, <3>1, <3>2 DEF LinkedTo
    <3>3. CASE ~node_find(N, L.call)
      BY <2>4, <3>1, <3>3, LinkedToIs
    <3> QED BY <3>2, <3>3
  <2>5. CASE L.kind = "unlink"
    <3>1. K = Unlinked(N, c, L)
      BY <1>4, <2>5 DEF chkctl
    <3>2. CASE ~node_find(N, L.call) \/ ~cn_find(N.circuit[c], L.call)
      BY <1>2, <2>5, <3>1, <3>2 DEF Unlinked
    <3>3. CASE ~(~node_find(N, L.call) \/ ~cn_find(N.circuit[c], L.call))
      <4>1. N.circuit[c].hnode[L.call] > 0
        BY <3>3 DEF cn_find
      <4> QED BY <2>5, <3>1, <4>1, UnlinkedIs
    <3> QED BY <3>2, <3>3
  <2>6. CASE L.kind = "topic"
    <3>1. K = TopicOf(N, c, L)
      BY <1>4, <2>6 DEF chkctl
    <3>2. Step(n, N, K) /\ Kept(N, K)
      BY <2>6, <3>1, TopicOfIs
    <3> QED BY <2>6, <3>2, HeedsKept
  <2>7. CASE L.kind \in {"RTL", "OK"}
    <3>1. K = N
      BY <1>4, <2>7 DEF chkctl
    <3> QED BY <1>2, <2>7, <3>1
  <2> QED BY <1>0, <2>1, <2>2, <2>3, <2>4, <2>5, <2>6, <2>7
<1> QED BY <1>3, <1>4

(***************************************************************************)
(* Users here.                                                             *)
(***************************************************************************)
\* M is N but for who is here and what has been sent.
Moves(n, N, M) ==
    /\ NodeType(M)
    /\ \A x \in Nodes \ {n} : M.node[x] = N.node[x]
    /\ \A c \in Circuits : /\ SameButTx(M.circuit[c], N.circuit[c])
                           /\ M.circuit[c].tx = N.circuit[c].tx \/ N.circuit[c].session = "open"
    /\ \A u : u.via # Local => (u \in M.user <=> u \in N.user)

\* A node whose users here have changed is as it should be.
LEMMA MovesOK ==
    ASSUME net \in Networks, net.tree, NEW n \in Nodes, NEW N, NodeOK(n, N), NEW M,
           Moves(n, N, M), Unique(M.user), \A u \in M.user : u.via = Local => u.at = n,
           M.node[n] = Cardinality(Users(M, Local))
    PROVE  NodeOK(n, M)
<1>1. /\ NodeType(M) /\ \A x \in Nodes \ {n} : M.node[x] = N.node[x]
      /\ \A c \in Circuits : /\ SameButTx(M.circuit[c], N.circuit[c])
                             /\ M.circuit[c].tx = N.circuit[c].tx \/ N.circuit[c].session = "open"
      /\ \A u : u.via # Local => (u \in M.user <=> u \in N.user)
  BY DEF Moves
<1>2. \A c \in Circuits : CircuitOK(n, N, c)
  BY DEF NodeOK
<1>3. ASSUME NEW c \in Circuits
      PROVE  CircuitOK(n, M, c)
  <2>1. /\ M.circuit[c].rtcflags = N.circuit[c].rtcflags
        /\ M.circuit[c].refcnt = N.circuit[c].refcnt /\ M.circuit[c].hnode = N.circuit[c].hnode
    BY <1>1 DEF SameButTx
  <2>2. SessionOK(n, M.circuit[c], c)
    <3>1. SessionOK(n, N.circuit[c], c)
      BY <1>2 DEF CircuitOK
    <3> QED BY <1>1, <3>1, SessionSame
  <2>3. c # Local
    BY LocalAssumption
  <2>4. Users(M, c) = Users(N, c) /\ \A x : Guests(M, c, x) = Guests(N, c, x)
    BY <1>1, <2>3 DEF Users, Guests
  <2>5. ASSUME NEW x \in Nodes
        PROVE  /\ M.circuit[c].hnode[x] > 0 => x \in Behind(n, c[2]) /\ M.node[x] = M.circuit[c].hnode[x]
               /\ M.circuit[c].hnode[x] \in IF Guests(M, c, x) = {} THEN {0, 1}
                                            ELSE {Cardinality(Guests(M, c, x)) + 1}
    <3>1. N.circuit[c].hnode[x] > 0 => x \in Behind(n, c[2]) /\ N.node[x] = N.circuit[c].hnode[x]
      BY <1>2 DEF CircuitOK
    <3>2. N.circuit[c].hnode[x] \in IF Guests(N, c, x) = {} THEN {0, 1}
                                    ELSE {Cardinality(Guests(N, c, x)) + 1}
      BY <1>2 DEF CircuitOK
    <3>3. N.circuit[c].hnode[x] > 0 => x # n
      <4>1. N.circuit[c].hnode[x] > 0 => Linked(N, c) /\ x \in Behind(n, c[2])
        BY LinkedIs
      <4> QED BY <4>1, ReachedOnce
    <3> QED BY <1>1, <2>1, <2>4, <3>1, <3>2, <3>3
  <2>6. /\ Linked(M, c) => M.circuit[c].hnode[c[2]] > 0
        /\ ~Linked(M, c) => M.circuit[c].hnode = NoCircuit.hnode
        /\ M.circuit[c].refcnt = Cardinality(Users(M, c))
    BY <1>2, <2>1, <2>4 DEF CircuitOK, Linked
  <2> QED BY <2>2, <2>5, <2>6 DEF CircuitOK
<1>4. ASSUME NEW u \in M.user
      PROVE  \/ u.via = Local /\ u.at = n
             \/ u.via \in Circuits /\ M.circuit[u.via].hnode[u.at] > 0
  <2>1. CASE u.via = Local
    BY <2>1
  <2>2. CASE u.via # Local
    <3>1. u \in N.user
      BY <1>1, <2>2
    <3> QED BY <1>1, <2>2, <3>1 DEF NodeOK, SameButTx
  <2> QED BY <2>1, <2>2
<1>5. \A x \in Nodes \ {n} : M.node[x] > 0 => \E c \in Circuits : M.circuit[c].hnode[x] > 0
  BY <1>1 DEF NodeOK, SameButTx
<1>6. \A c, d \in Circuits : Linked(M, c) /\ Linked(M, d) /\ c[2] = d[2] => c = d
  BY <1>1 DEF NodeOK, SameButTx, Linked
<1> QED BY <1>1, <1>3, <1>4, <1>5, <1>6 DEF NodeOK, Unique

\* node_tell and user_tell of something about n itself.
LEMMA SelfTells ==
    ASSUME net \in Networks, net.tree, NEW n \in Nodes, NEW N, NodeOK(n, N),
           NEW L \in Lines, L.kind \in {"join", "leave"}, L.node = n, NEW M, NEW p \in Circuits,
           SameButTx(M.circuit[p], N.circuit[p]),
           M.circuit[p].tx = N.circuit[p].tx \o Maybe(EchoedTo(N, Local, n, p), L),
           L.kind = "join" => user_find(M, L.call, n),
           \A call, y : user_find(N, call, y) => user_find(M, call, y) \/ Says(L, "leave", call, y)
    PROVE  Tells(n, N, M, p)
<1> DEFINE b == EchoedTo(N, Local, n, p)
<1>1. b \in BOOLEAN /\ NodeType(N)
  BY DEF EchoedTo, Linked, NodeOK
<1>2. ASSUME Linked(N, p)
      PROVE  FromSide(p[2], n, L) /\ ~cn_find(N.circuit[p], n) /\ p # Local
  <2>1. Adjacent(n, p[2]) /\ Adjacent(p[2], n)
    BY <1>2, LinkedIs, AdjacentBack
  <2>2. n \in Behind(p[2], n) /\ n \notin Behind(n, p[2])
    BY <2>1, BehindIs
  <2>3. ~cn_find(N.circuit[p], n)
    BY <2>2, LinkedIs DEF cn_find
  <2> QED BY <2>2, <2>3, LocalAssumption DEF FromSide
<1>3. CASE N.circuit[p].session = "open"
  <2>1. b => /\ N.circuit[p].session = "open" /\ Linked(N, p) /\ FromSide(p[2], n, L)
             /\ L.kind = "join" => user_find(M, L.call, L.node)
             /\ L.kind = "unlink" => \A call \in Calls : ~user_find(N, call, L.call)
    BY <1>2 DEF EchoedTo
  <2>2. Linked(N, p) => \A call \in Calls, x \in Behind(p[2], n) :
           user_find(N, call, x) => user_find(M, call, x) \/ (b /\ Says(L, "leave", call, x))
    BY <1>2, <1>3 DEF EchoedTo
  <2> HIDE DEF b
  <2>3. M.circuit[p].tx = N.circuit[p].tx \o Maybe(b, L)
    BY DEF b
  <2> QED BY <1>1, <2>1, <2>2, <2>3, TellsLine
<1>4. CASE N.circuit[p].session # "open"
  <2>1. M.circuit[p].session # "open"
    BY <1>4 DEF SameButTx
  <2>2. M.circuit[p].tx = N.circuit[p].tx
    <3>1. N.circuit[p].tx \o << >> = N.circuit[p].tx
      BY <1>1, CircuitIs, ConcatNone
    <3>2. Maybe(b, L) = << >>
      BY <1>4 DEF EchoedTo, Maybe
    <3> QED BY <3>1, <3>2
  <2> QED BY <1>1, <2>1, <2>2, TellsNone
<1> QED BY <1>3, <1>4

\* What is sent by Tell.
LEMMA MaybeSent ==
    ASSUME NEW N, NodeType(N), NEW from, NEW x, NEW L, NEW c \in Circuits, NEW w,
           w = N.circuit[c].tx \o Maybe(EchoedTo(N, from, x, c), L)
    PROVE  w = N.circuit[c].tx \/ N.circuit[c].session = "open"
<1>1. N.circuit[c].tx \o << >> = N.circuit[c].tx
  BY CircuitIs, ConcatNone
<1> QED BY <1>1 DEF Maybe, EchoedTo

\* rtloginu.
LEMMA rtloginuStep ==
    ASSUME net \in Networks, net.tree, NEW n \in Nodes, NEW N, NodeOK(n, N), NEW call \in Calls,
           \A u \in N.user : u.call # call, NEW K, K = rtloginu(N, n, call)
    PROVE  Step(n, N, K) /\ \A d \in Circuits : Fewer(N, K, d)
<1> DEFINE v == NewUser(call, n, Local)
           L == Line("join", n, call, deftopic)
           us == N.user \cup {v}
           g == [N.node EXCEPT ![n] = @ + 1]
           V == [N EXCEPT !.node = g]
           S == [V EXCEPT !.user = us]
<1>0. NodeType(N) /\ N.node \in [Nodes -> Nat]
  BY DEF NodeOK, NodeType
<1>1. L \in Lines /\ L.kind = "join" /\ L.node = n /\ L.call = call
  BY LineIs, TopicAssumption
<1>2. v \in UserRecs /\ v.call = call /\ v.at = n /\ v.via = Local
  BY TopicAssumption DEF NewUser, UserRecs
<1>3. us \in SUBSET UserRecs /\ IsFiniteSet(us)
  BY <1>0, <1>2, FS_AddElement DEF NodeType
<1>4. g \in [Nodes -> Nat] /\ \A x \in Nodes : g[x] = IF x = n THEN N.node[x] + 1 ELSE N.node[x]
  BY <1>0
<1>5. [N EXCEPT !.node[n] = @ + 1, !.user = @ \cup {v}] = S
  <2>1. N = [node |-> N.node, user |-> N.user, link |-> N.link,
             RunningConnectScript |-> N.RunningConnectScript, circuit |-> N.circuit,
             DupInfo |-> N.DupInfo, heard |-> N.heard]
    BY <1>0 DEF NodeType
  <2> QED BY <1>0, <2>1
<1>6. K = echo(S, Local, n, L)
  BY <1>5 DEF rtloginu, Tell
<1>7. V = [N EXCEPT !.node = g] /\ S = [V EXCEPT !.user = us]
  OBVIOUS
<1> HIDE DEF v, L, g, V, S, us
<1>8. NodeType(V) /\ V.node = g /\ V.user = N.user /\ V.circuit = N.circuit
  BY <1>0, <1>4, <1>7, NodesBecome
<1>9. NodeType(S) /\ S.node = g /\ S.user = us /\ S.circuit = N.circuit
  <2>1. NodeType(S) /\ S.user = us /\ S.node = V.node /\ S.circuit = V.circuit
    <3>1. NodeType(V) /\ us \in SUBSET UserRecs /\ IsFiniteSet(us)
      BY <1>3, <1>8
    <3>2. S = [V EXCEPT !.user = us]
      BY <1>7
    <3>3. /\ NodeType([V EXCEPT !.user = us]) /\ [V EXCEPT !.user = us].user = us
          /\ [V EXCEPT !.user = us].node = V.node /\ [V EXCEPT !.user = us].circuit = V.circuit
      BY <3>1, UsersBecome
    <3> QED BY <3>2, <3>3
  <2> QED BY <1>8, <2>1
<1>10. Echoes(S, Local, n, L, K)
  BY <1>1, <1>6, <1>9, EchoIs
<1>11. NodeType(K) /\ K.node = g /\ K.user = us
  BY <1>9, <1>10 DEF Echoes, SameButCircuits
<1>12. ASSUME NEW c \in Circuits
       PROVE  /\ SameButTx(K.circuit[c], N.circuit[c])
              /\ K.circuit[c].tx = N.circuit[c].tx \o Maybe(EchoedTo(N, Local, n, c), L)
              /\ K.circuit[c].tx = N.circuit[c].tx \/ N.circuit[c].session = "open"
  <2>1. EchoedTo(S, Local, n, c) = EchoedTo(N, Local, n, c)
    BY <1>9 DEF EchoedTo, Linked
  <2>2. /\ SameButTx(K.circuit[c], N.circuit[c])
        /\ K.circuit[c].tx = N.circuit[c].tx \o Maybe(EchoedTo(N, Local, n, c), L)
    BY <1>9, <1>10, <2>1 DEF Echoes
  <2> QED BY <1>0, <2>2, MaybeSent
<1>13. Moves(n, N, K)
  <2>1. \A u : u.via # Local => (u \in K.user <=> u \in N.user)
    BY <1>2, <1>11 DEF us
  <2> QED BY <1>4, <1>11, <1>12, <2>1 DEF Moves
<1>14. Unique(K.user)
  <2>1. \A u, w \in N.user : u.call = w.call /\ u.at = w.at => u = w
    BY DEF NodeOK
  <2> QED BY <1>2, <1>11, <2>1 DEF Unique, us
<1>15. \A u \in K.user : u.via = Local => u.at = n
  <2>1. \A u \in N.user : u.via = Local => u.at = n
    BY UserIs
  <2> QED BY <1>2, <1>11, <2>1 DEF us
<1>16. K.node[n] = Cardinality(Users(K, Local))
  <2> DEFINE A == Users(N, Local)  B == Users(K, Local)
  <2>1. B = A \cup {v} /\ v \notin A
    BY <1>2, <1>11 DEF Users, us
  <2>2. A \subseteq N.user
    BY DEF Users
  <2>3. IsFiniteSet(A) /\ N.node[n] = Cardinality(A)
    BY <1>0, <2>2, FS_Subset DEF NodeType, NodeOK
  <2> HIDE DEF A, B
  <2>4. Cardinality(B) = Cardinality(A) + 1
    BY <2>1, <2>3, OneMore
  <2> QED BY <1>4, <1>11, <2>3, <2>4 DEF B
<1>17. NodeOK(n, K)
  BY <1>13, <1>14, <1>15, <1>16, MovesOK
<1>18. /\ user_find(K, L.call, n)
       /\ \A c, y : user_find(N, c, y) => user_find(K, c, y)
  BY <1>1, <1>2, <1>11 DEF user_find, us
<1>19. \A p \in Circuits : Tells(n, N, K, p)
  BY <1>1, <1>12, <1>18, SelfTells
<1>20. Calm(N, K)
  BY <1>12 DEF Calm, SameButTx
<1>21. \A d \in Circuits : Fewer(N, K, d)
  BY <1>2, <1>11, LocalAssumption DEF Fewer, Users, us
<1> QED BY <1>17, <1>19, <1>20, <1>21 DEF Step

\* logout.
LEMMA logoutStep ==
    ASSUME net \in Networks, net.tree, NEW n \in Nodes, NEW N, NodeOK(n, N),
           NEW u \in Users(N, Local), NEW K, K = logout(N, n, u)
    PROVE  Step(n, N, K) /\ \A d \in Circuits : Fewer(N, K, d)
<1> DEFINE L == Line("leave", n, u.call, deftopic)
           E == echo(N, Local, n, L)
           us == N.user \ {u}
           S == [E EXCEPT !.user = us]
           D == node_dec(S, n)
           A == Users(N, Local)
           k == Cardinality(A) - 1
<1>0. NodeType(N) /\ N.node \in [Nodes -> Nat] /\ IsFiniteSet(N.user)
  BY DEF NodeOK, NodeType
<1>1. u \in N.user /\ u.via = Local /\ u.at = n /\ u.call \in Calls
  <2>1. u \in N.user /\ u.via = Local
    BY DEF Users
  <2> QED BY <2>1, UserIs
<1>2. L \in Lines /\ L.kind = "leave" /\ L.node = n /\ L.call = u.call
  BY <1>1, LineIs, TopicAssumption
<1>3. us \in SUBSET UserRecs /\ IsFiniteSet(us)
  BY <1>0, FS_Subset DEF NodeType
<1>4. K = CleanUp(node_dec([E EXCEPT !.user = @ \ {u}], n))
  BY DEF logout, Tell
<1>5. E = echo(N, Local, n, L) /\ S = [E EXCEPT !.user = us] /\ D = node_dec(S, n)
  OBVIOUS
<1> HIDE DEF L, E, S, us, D
<1>6. Echoes(N, Local, n, L, E)
  BY <1>0, <1>2, <1>5, EchoIs
<1>7. NodeType(E) /\ E.node = N.node /\ E.user = N.user
  BY <1>6 DEF Echoes, SameButCircuits
<1>8. K = CleanUp(D)
  <2>1. [E EXCEPT !.user = @ \ {u}] = S
    BY <1>5, <1>7 DEF us
  <2> QED BY <1>4, <1>5, <2>1
<1>9. NodeType(S) /\ S.node = N.node /\ S.user = us /\ S.circuit = E.circuit
  <2>1. NodeType(S) /\ S.user = us /\ S.node = E.node /\ S.circuit = E.circuit
    BY <1>3, <1>5, <1>7, UsersBecome
  <2> QED BY <1>7, <2>1
<1>10. ASSUME NEW c \in Circuits
       PROVE  /\ SameButTx(E.circuit[c], N.circuit[c])
              /\ E.circuit[c].tx = N.circuit[c].tx \o Maybe(EchoedTo(N, Local, n, c), L)
              /\ E.circuit[c].tx = N.circuit[c].tx \/ N.circuit[c].session = "open"
  <2>1. /\ SameButTx(E.circuit[c], N.circuit[c])
        /\ E.circuit[c].tx = N.circuit[c].tx \o Maybe(EchoedTo(N, Local, n, c), L)
    BY <1>6 DEF Echoes
  <2> QED BY <1>0, <2>1, MaybeSent
<1>11. /\ IsFiniteSet(A) /\ u \in A /\ N.node[n] = Cardinality(A)
       /\ Cardinality(A \ {u}) = k /\ k \in Nat
  <2>1. A \subseteq N.user /\ u \in A
    BY DEF Users
  <2>2. IsFiniteSet(A) /\ N.node[n] = Cardinality(A)
    BY <1>0, <2>1, FS_Subset DEF NodeOK
  <2> DEFINE T == A \ {u}
  <2>3. T = A \ {u}
    OBVIOUS
  <2> HIDE DEF T, A
  <2>4. Cardinality(T) = Cardinality(A) - 1 /\ Cardinality(T) \in Nat
    BY <2>1, <2>2, <2>3, OneTaken
  <2> QED BY <2>1, <2>2, <2>3, <2>4
<1>12. Pointing(S, n) = k
  <2> DEFINE P == {w \in S.user : w.at = n}
             Q == {c \in Circuits : S.circuit[c].rtcflags = "linked" /\ cn_find(S.circuit[c], n)}
  <2>1. P = A \ {u}
    <3>1. \A w \in N.user : w.at = n <=> w.via = Local
      BY UserIs
    <3> QED BY <1>9, <3>1 DEF Users, us
  <2>2. Q = {}
    <3> SUFFICES ASSUME NEW c \in Circuits PROVE ~cn_find(S.circuit[c], n)
      OBVIOUS
    <3>1. S.circuit[c].hnode = N.circuit[c].hnode
      BY <1>9, <1>10 DEF SameButTx
    <3>2. N.circuit[c].hnode[n] > 0 => Linked(N, c) /\ n \in Behind(n, c[2])
      BY LinkedIs
    <3>3. ~(N.circuit[c].hnode[n] > 0)
      BY <3>2, ReachedOnce
    <3> QED BY <3>1, <3>3 DEF cn_find
  <2>3. Cardinality({}) = 0
    BY FS_EmptySet
  <2>4. Pointing(S, n) = Cardinality(P) + Cardinality(Q)
    BY DEF Pointing
  <2> HIDE DEF P, Q
  <2> QED BY <1>11, <2>1, <2>2, <2>3, <2>4
<1>13. /\ NodeType(D) /\ D.user = us /\ D.circuit = E.circuit
       /\ \A x \in Nodes : D.node[x] = IF x = n THEN k ELSE N.node[x]
  <2>1. k \in Nat /\ k = IF S.node[n] > 1 THEN S.node[n] - 1 ELSE Pointing(S, n)
    BY <1>9, <1>11, <1>12
  <2> HIDE DEF k
  <2>2. /\ NodeType(D) /\ D.user = S.user /\ D.circuit = S.circuit
        /\ \A x \in Nodes : D.node[x] = IF x = n THEN k ELSE S.node[x]
    <3>1. NodeType(S) /\ D = node_dec(S, n)
      BY <1>5, <1>9
    <3> QED BY <2>1, <3>1, NodeDecIs
  <2> QED BY <1>9, <2>2
<1>14. Moves(n, N, D)
  <2>1. \A w : w.via # Local => (w \in D.user <=> w \in N.user)
    BY <1>1, <1>13 DEF us
  <2> QED BY <1>10, <1>13, <2>1 DEF Moves
<1>15. Unique(D.user) /\ \A w \in D.user : w.via = Local => w.at = n
  <2>1. \A w, z \in N.user : w.call = z.call /\ w.at = z.at => w = z
    BY DEF NodeOK
  <2>2. \A w \in N.user : w.via = Local => w.at = n
    BY UserIs
  <2> QED BY <1>13, <2>1, <2>2 DEF Unique, us
<1>16. D.node[n] = Cardinality(Users(D, Local))
  <2>1. Users(D, Local) = A \ {u}
    BY <1>13 DEF Users, us
  <2>2. D.node[n] = k
    BY <1>13
  <2> HIDE DEF k, A
  <2> QED BY <1>11, <2>1, <2>2
<1>17. NodeOK(n, D)
  BY <1>14, <1>15, <1>16, MovesOK
<1>18. K = D
  BY <1>8, <1>17, CleanUpIs
<1>19. \A call, y : user_find(N, call, y) => user_find(K, call, y) \/ Says(L, "leave", call, y)
  BY <1>1, <1>2, <1>13, <1>18 DEF user_find, us, Says
<1>20. ASSUME NEW p \in Circuits PROVE Tells(n, N, K, p)
  <2>1. /\ SameButTx(K.circuit[p], N.circuit[p])
        /\ K.circuit[p].tx = N.circuit[p].tx \o Maybe(EchoedTo(N, Local, n, p), L)
    BY <1>10, <1>13, <1>18
  <2> QED BY <1>2, <1>19, <2>1, SelfTells
<1>21. Calm(N, K)
  BY <1>10, <1>13, <1>18 DEF Calm, SameButTx
<1>22. \A d \in Circuits : Fewer(N, K, d)
  BY <1>13, <1>18 DEF Fewer, Users, us
<1> QED BY <1>17, <1>18, <1>20, <1>21, <1>22 DEF Step

(***************************************************************************)
(* The nodes together.                                                     *)
(***************************************************************************)
\* What the nodes are when all is fine.
LEMMA FineIs ==
    ASSUME NEW ch, Fine(ch), NEW n \in Nodes, NEW c \in Circuits
    PROVE  /\ NodeOK(n, ch[n]) /\ NodeType(ch[n])
           /\ c[2] \in Nodes /\ NodeOK(c[2], ch[c[2]]) /\ NodeType(ch[c[2]])
           /\ PeerOf(n, c) \in Circuits /\ PeerOf(n, c)[2] = n
           /\ PeerOf(c[2], PeerOf(n, c)) = c
           /\ Between(ch, n, c) /\ DOMAIN ch = Nodes
<1>1. PeerOf(n, c) \in Circuits /\ PeerOf(n, c)[2] = n /\ PeerOf(c[2], PeerOf(n, c)) = c
      /\ c[2] \in Nodes
  BY PeerIs
<1>2. NodeOK(n, ch[n]) /\ NodeOK(c[2], ch[c[2]]) /\ Between(ch, n, c) /\ DOMAIN ch = Nodes
  BY <1>1 DEF Fine
<1>3. NodeType(ch[n]) /\ NodeType(ch[c[2]])
  BY <1>2 DEF NodeOK
<1> QED BY <1>1, <1>2, <1>3

\* What is on its way stays right when one node tells the other what it must and the
\* other takes up nobody.
LEMMA WayKeeps ==
    ASSUME net \in Networks, net.tree, NEW ch, Fine(ch), NEW ch2, NEW n \in Nodes,
           NEW c \in Circuits,
           Tells(c[2], ch[c[2]], ch2[c[2]], PeerOf(n, c)), Fewer(ch[n], ch2[n], c)
    PROVE  Way(n, ch2[n], c, c[2], ch2[c[2]], PeerOf(n, c))
<1> DEFINE m == c[2]
           p == PeerOf(n, c)
<1>1. /\ NodeOK(n, ch[n]) /\ m \in Nodes /\ NodeType(ch[m])
      /\ p \in Circuits /\ p[2] = n /\ Between(ch, n, c)
  BY FineIs
<1>2. Way(n, ch[n], c, m, ch[m], p)
  BY <1>1 DEF Between
<1>3. \A u \in Users(ch[n], c) : u.at \in Behind(n, m)
  BY <1>1, UsersBehind
<1>4. ch[m].circuit[p].tx \in Seq(Lines)
  BY <1>1, CircuitIs
<1>5. Tells(m, ch[m], ch2[m], p)
  OBVIOUS
<1>6. Way(n, ch[n], c, m, ch2[m], p)
  <2> HIDE DEF m, p
  <2> QED BY <1>1, <1>2, <1>3, <1>4, <1>5, WayTells
<1>7. Way(n, ch2[n], c, m, ch2[m], p)
  <2> HIDE DEF m, p
  <2> QED BY <1>6, WayFewer
<1> QED BY <1>7

\* What is between two nodes stays right when they start no session besides.
LEMMA BetweenKeeps ==
    ASSUME net \in Networks, net.tree, NEW ch, Fine(ch), NEW ch2, NEW n \in Nodes,
           NEW c \in Circuits,
           Calm(ch[n], ch2[n]), Calm(ch[c[2]], ch2[c[2]]),
           Tells(c[2], ch[c[2]], ch2[c[2]], PeerOf(n, c)), Fewer(ch[n], ch2[n], c)
    PROVE  Between(ch2, n, c)
<1> DEFINE m == c[2]
           p == PeerOf(n, c)
<1>1. p \in Circuits /\ Between(ch, n, c)
  BY FineIs
<1>2. Way(n, ch2[n], c, m, ch2[m], p)
  BY WayKeeps
<1>3. ch[n].circuit[c].session = "calling" => ch[m].circuit[p].session = "free"
  BY <1>1 DEF Between
<1>4. ch2[n].circuit[c].session = "calling" => ch2[m].circuit[p].session = "free"
  BY <1>1, <1>3 DEF Calm
<1> QED BY <1>2, <1>4 DEF Between

\* A step of one node.
LEMMA BecomesFine ==
    ASSUME net \in Networks, net.tree, NEW ch, Fine(ch), NEW n \in Nodes, NEW N,
           Step(n, ch[n], N), \A d \in Circuits : Fewer(ch[n], N, d),
           NEW ch2, ch2 = [ch EXCEPT ![n] = N]
    PROVE  Fine(ch2)
<1>1. DOMAIN ch = Nodes /\ \A k \in Nodes : NodeOK(k, ch[k])
  BY DEF Fine
<1>2. DOMAIN ch2 = Nodes /\ ch2[n] = N /\ \A k \in Nodes : k # n => ch2[k] = ch[k]
  BY <1>1
<1>3. \A k \in Nodes : Step(k, ch[k], ch2[k])
  <2> SUFFICES ASSUME NEW k \in Nodes
               PROVE  Step(k, ch[k], ch2[k])
    OBVIOUS
  <2>1. CASE k = n
    BY <1>2, <2>1
  <2>2. CASE k # n
    BY <1>1, <1>2, <2>2, StepNone
  <2> QED BY <2>1, <2>2
<1>4. \A k \in Nodes, d \in Circuits : Fewer(ch[k], ch2[k], d)
  <2> SUFFICES ASSUME NEW k \in Nodes, NEW d \in Circuits
               PROVE  Fewer(ch[k], ch2[k], d)
    OBVIOUS
  <2>1. CASE k = n
    BY <1>2, <2>1
  <2>2. CASE k # n
    BY <1>2, <2>2 DEF Fewer
  <2> QED BY <2>1, <2>2
<1>5. \A k \in Nodes : /\ NodeOK(k, ch2[k]) /\ Calm(ch[k], ch2[k])
                       /\ \A p \in Circuits : Tells(k, ch[k], ch2[k], p)
  BY <1>3 DEF Step
<1>6. ASSUME NEW k \in Nodes, NEW d \in Circuits
      PROVE  Between(ch2, k, d)
  <2>1. d[2] \in Nodes /\ PeerOf(k, d) \in Circuits
    BY PeerIs
  <2>2. Calm(ch[k], ch2[k]) /\ Calm(ch[d[2]], ch2[d[2]])
        /\ Tells(d[2], ch[d[2]], ch2[d[2]], PeerOf(k, d))
    BY <1>5, <2>1
  <2>3. Fewer(ch[k], ch2[k], d)
    BY <1>4
  <2> QED BY <2>2, <2>3, BetweenKeeps
<1> QED BY <1>2, <1>5, <1>6 DEF Fine

\* M is N with the first line on its way by circuit p taken off.
TakenOff(m, N, p, M) ==
    /\ NodeOK(m, M) /\ Calm(N, M) /\ M.user = N.user
    /\ M.circuit[p].tx = Tail(N.circuit[p].tx)
    /\ M.circuit[p].session = N.circuit[p].session
    /\ M.circuit[p].rtcflags = N.circuit[p].rtcflags
    /\ \A d \in Circuits : d # p => M.circuit[d] = N.circuit[d]

\* Taking it off leaves a node as it should be.
LEMMA TakenOffIs ==
    ASSUME NEW m, NEW N, NodeOK(m, N), NEW p \in Circuits, N.circuit[p].tx # << >>,
           NEW M, M = [N EXCEPT !.circuit[p].tx = Tail(@)]
    PROVE  TakenOff(m, N, p, M)
<1> DEFINE D == [N.circuit[p] EXCEPT !.tx = Tail(@)]
<1>1. NodeType(N)
  BY DEF NodeOK
<1>2. N.circuit[p] \in CircuitRecs /\ N.circuit[p].tx \in Seq(Lines)
  BY <1>1, CircuitIs
<1>3. Tail(N.circuit[p].tx) \in Seq(Lines)
  BY <1>2, TailIs
<1>4. D \in CircuitRecs /\ D.tx = Tail(N.circuit[p].tx) /\ D.session = N.circuit[p].session
      /\ D.rtcflags = N.circuit[p].rtcflags /\ D.hnode = N.circuit[p].hnode
      /\ D.refcnt = N.circuit[p].refcnt
  BY <1>2, <1>3 DEF CircuitRecs
<1>5. M = [N EXCEPT !.circuit[p] = D]
  OBVIOUS
<1> HIDE DEF D
<1>6. Turns(N, p, D, M)
  BY <1>1, <1>4, <1>5, TurnsIs
<1>7. NodeType(M) /\ M.node = N.node /\ M.user = N.user /\ M.circuit[p] = D
      /\ \A d \in Circuits : d # p => M.circuit[d] = N.circuit[d]
  BY <1>6 DEF Turns, SameButCircuits
<1>8. \A d \in Circuits : SessionOK(m, N.circuit[d], d)
  BY DEF NodeOK, CircuitOK
<1>9. SessionOK(m, D, p)
  BY <1>4, <1>8 DEF SessionOK
<1>10. ASSUME NEW d \in Circuits
       PROVE  /\ M.circuit[d].hnode = N.circuit[d].hnode
              /\ M.circuit[d].refcnt = N.circuit[d].refcnt
              /\ Linked(M, d) = Linked(N, d)
              /\ SessionOK(m, M.circuit[d], d)
              /\ M.circuit[d].session = N.circuit[d].session
  <2>1. CASE d = p
    BY <1>4, <1>7, <1>9, <2>1 DEF Linked
  <2>2. CASE d # p
    BY <1>7, <1>8, <2>2 DEF Linked
  <2> QED BY <2>1, <2>2
<1>11. NodeOK(m, M)
  BY <1>7, <1>10, OnlyFlags
<1>12. Calm(N, M)
  BY <1>10 DEF Calm
<1>13. /\ M.circuit[p].tx = Tail(N.circuit[p].tx)
       /\ M.circuit[p].session = N.circuit[p].session
       /\ M.circuit[p].rtcflags = N.circuit[p].rtcflags
  BY <1>4, <1>7
<1> QED BY <1>7, <1>11, <1>12, <1>13 DEF TakenOff

\* Nobody comes or goes.
LEMMA FewerSame ==
    ASSUME NEW R, NEW R2, R2.user = R.user, NEW c
    PROVE  Fewer(R, R2, c)
<1>1. Users(R2, c) = Users(R, c)
  BY DEF Users
<1> QED BY <1>1 DEF Fewer

\* The first line on its way is heard.
LEMMA TakesFine ==
    ASSUME net \in Networks, net.tree, NEW ch, Fine(ch), NEW n \in Nodes, NEW c \in Circuits,
           ch[n].circuit[c].session = "open", NEW m, m = c[2], NEW p, p = PeerOf(n, c),
           ch[m].circuit[p].tx # << >>,
           NEW N, Heeds(n, ch[n], c, Head(ch[m].circuit[p].tx), N),
           NEW ch2, ch2 = [ch EXCEPT ![n] = N, ![m].circuit[p].tx = Tail(@)]
    PROVE  Fine(ch2)
<1> DEFINE M == [ch[m] EXCEPT !.circuit[p].tx = Tail(@)]
<1>1. /\ NodeOK(n, ch[n]) /\ m \in Nodes /\ NodeOK(m, ch[m]) /\ NodeType(ch[m])
      /\ p \in Circuits /\ p[2] = n /\ PeerOf(m, p) = c
      /\ Between(ch, n, c) /\ DOMAIN ch = Nodes
  BY FineIs
<1>2. m # n
  <2>1. SessionOK(n, ch[n].circuit[c], c)
    BY <1>1 DEF NodeOK, CircuitOK
  <2>2. Adjacent(n, m)
    BY <2>1 DEF SessionOK
  <2> QED BY <2>2, CutIs
<1>3. /\ DOMAIN ch2 = Nodes /\ ch2[n] = N /\ ch2[m] = M
      /\ \A k \in Nodes : k # n /\ k # m => ch2[k] = ch[k]
  BY <1>1, <1>2
<1>4. /\ NodeOK(m, M) /\ Calm(ch[m], M) /\ M.user = ch[m].user
      /\ M.circuit[p].tx = Tail(ch[m].circuit[p].tx)
      /\ M.circuit[p].session = ch[m].circuit[p].session
      /\ M.circuit[p].rtcflags = ch[m].circuit[p].rtcflags
      /\ \A d \in Circuits : d # p => M.circuit[d] = ch[m].circuit[d]
  <2>1. TakenOff(m, ch[m], p, M)
    BY <1>1, TakenOffIs
  <2> HIDE DEF M
  <2> QED BY <2>1 DEF TakenOff
<1> HIDE DEF M
<1>5. /\ NodeOK(n, N) /\ Calm(ch[n], N) /\ \A q \in Circuits : Tells(n, ch[n], N, q)
      /\ Hears(ch[n], N, c, Head(ch[m].circuit[p].tx))
      /\ \A d \in Circuits \ {c} : Fewer(ch[n], N, d)
  BY DEF Heeds, Step
<1>6. \A k \in Nodes : k # n /\ k # m =>
          NodeOK(k, ch[k]) /\ Calm(ch[k], ch[k]) /\ \A q \in Circuits : Tells(k, ch[k], ch[k], q)
  <2> SUFFICES ASSUME NEW k \in Nodes
               PROVE  NodeOK(k, ch[k]) /\ Calm(ch[k], ch[k])
                      /\ \A q \in Circuits : Tells(k, ch[k], ch[k], q)
    OBVIOUS
  <2>1. NodeOK(k, ch[k])
    BY DEF Fine
  <2> QED BY <2>1, StepNone DEF Step
<1>7. ASSUME NEW k \in Nodes
      PROVE  NodeOK(k, ch2[k]) /\ Calm(ch[k], ch2[k])
  <2>1. CASE k = n
    <3>1. NodeOK(n, N) /\ Calm(ch[n], N) /\ ch2[n] = N
      BY <1>3, <1>5
    <3> QED BY <2>1, <3>1
  <2>2. CASE k = m
    <3>1. NodeOK(m, M) /\ Calm(ch[m], M) /\ ch2[m] = M
      BY <1>3, <1>4
    <3> QED BY <2>2, <3>1
  <2>3. CASE k # n /\ k # m
    <3>1. NodeOK(k, ch[k]) /\ Calm(ch[k], ch[k]) /\ ch2[k] = ch[k]
      BY <1>3, <1>6, <2>3
    <3> QED BY <3>1
  <2> QED BY <2>1, <2>2, <2>3
<1>8. ASSUME NEW k \in Nodes, NEW q \in Circuits, k # m \/ q # p
      PROVE  Tells(k, ch[k], ch2[k], q)
  <2>1. CASE k = n
    <3>1. Tells(n, ch[n], ch2[n], q)
      <4>1. Tells(n, ch[n], N, q)
        BY <1>5
      <4>2. ch2[n] = N
        BY <1>3
      <4> QED BY <4>1, <4>2
    <3> QED BY <2>1, <3>1
  <2>2. CASE k # n /\ k # m
    <3>1. k # n /\ k # m
      BY <2>2
    <3>2. ch2[k] = ch[k] /\ \A r \in Circuits : Tells(k, ch[k], ch[k], r)
      BY <1>3, <1>6, <3>1
    <3> QED BY <3>2
  <2>3. CASE k = m
    <3>1. q # p
      BY <1>8, <2>3
    <3>2. M.circuit[q] = ch[m].circuit[q]
      BY <1>4, <3>1
    <3>3. Linked(M, q) = Linked(ch[m], q)
      BY <3>2 DEF Linked
    <3>4. \A call, x : user_find(ch[m], call, x) => user_find(M, call, x)
      BY <1>4 DEF user_find
    <3>5. Tells(m, ch[m], M, q)
      BY <1>1, <3>2, <3>3, <3>4, TellsNone
    <3> QED BY <1>3, <2>3, <3>5
  <2>4. k = n \/ k = m \/ (k # n /\ k # m)
    OBVIOUS
  <2> QED BY <2>1, <2>2, <2>3, <2>4
<1>9. ASSUME NEW k \in Nodes, NEW d \in Circuits, k # n \/ d # c
      PROVE  Fewer(ch[k], ch2[k], d)
  <2>1. CASE k = n
    <3>1. d # c
      BY <1>9, <2>1
    <3>2. Fewer(ch[n], ch2[n], d)
      <4>1. Fewer(ch[n], N, d)
        BY <1>5, <3>1
      <4>2. ch2[n] = N
        BY <1>3
      <4> QED BY <4>1, <4>2
    <3> QED BY <2>1, <3>2
  <2>2. CASE k = m
    <3>1. ch2[k].user = ch[k].user
      BY <1>3, <1>4, <2>2
    <3> QED BY <3>1, FewerSame
  <2>3. CASE k # n /\ k # m
    <3>1. ch2[k] = ch[k]
      BY <1>3, <2>3
    <3> QED BY <3>1, FewerSame
  <2> QED BY <2>1, <2>2, <2>3
<1>10. Between(ch2, n, c)
  <2>1. ch[n].circuit[c].session = "calling" => ch[m].circuit[p].session = "free"
    BY <1>1 DEF Between
  <2>2. ch2[n].circuit[c].session = "calling" => ch2[m].circuit[p].session = "free"
    BY <1>1, <1>3, <1>4, <1>5, <2>1 DEF Calm
  <2>3. Way(n, ch[n], c, m, ch[m], p)
    BY <1>1 DEF Between
  <2>4. ch[m].circuit[p].tx \in Seq(Lines)
    BY <1>1, CircuitIs
  <2>5. \A u \in Users(N, c) : u.call \in Calls /\ u.at \in Nodes
    BY <1>5, UsersBehind
  <2>6. Way(n, N, c, m, M, p)
    <3>1. Hears(ch[n], N, c, Head(ch[m].circuit[p].tx))
      BY <1>5
    <3>2. /\ M.user = ch[m].user /\ M.circuit[p].session = ch[m].circuit[p].session
          /\ M.circuit[p].rtcflags = ch[m].circuit[p].rtcflags
          /\ M.circuit[p].tx = Tail(ch[m].circuit[p].tx)
      BY <1>4
    <3> QED BY <2>3, <2>4, <2>5, <3>1, <3>2, WayHears
  <2> QED BY <1>3, <2>2, <2>6 DEF Between
<1>11. ASSUME NEW k \in Nodes, NEW d \in Circuits
       PROVE  Between(ch2, k, d)
  <2>1. CASE k = n /\ d = c
    BY <1>10, <2>1
  <2>2. CASE k # n \/ d # c
    <3>1. d[2] \in Nodes /\ PeerOf(k, d) \in Circuits /\ PeerOf(k, d)[2] = k
          /\ PeerOf(d[2], PeerOf(k, d)) = d
      BY PeerIs
    <3>2. d[2] # m \/ PeerOf(k, d) # p
      <4>1. CASE d[2] = m /\ PeerOf(k, d) = p
        BY <1>1, <2>2, <3>1, <4>1
      <4> QED BY <4>1
    <3>3. Tells(d[2], ch[d[2]], ch2[d[2]], PeerOf(k, d))
      BY <1>8, <3>1, <3>2
    <3>4. Fewer(ch[k], ch2[k], d)
      BY <1>9, <2>2
    <3>5. Calm(ch[k], ch2[k]) /\ Calm(ch[d[2]], ch2[d[2]])
      BY <1>7, <3>1
    <3> QED BY <3>3, <3>4, <3>5, BetweenKeeps
  <2> QED BY <2>1, <2>2
<1> QED BY <1>3, <1>7, <1>11 DEF Fine

\* Nothing is on its way in a session that has ended.
LEMMA WayNone ==
    ASSUME NEW r, NEW R, NEW c, NEW n, NEW N, NEW p, N.circuit[p].tx = << >>,
           N.circuit[p].session # "open"
    PROVE  Way(r, R, c, n, N, p)
<1>1. DOMAIN N.circuit[p].tx = {}
  BY ConcatNone
<1> QED BY <1>1 DEF Way

\* The two ends of a session change, and the nodes there tell the others of it.
LEMMA PairFine ==
    ASSUME net \in Networks, net.tree, NEW ch, Fine(ch), NEW n \in Nodes, NEW c \in Circuits,
           NEW m, m = c[2], NEW p, p = PeerOf(n, c),
           NEW ch2, DOMAIN ch2 = Nodes, \A k \in Nodes : NodeOK(k, ch2[k]),
           \A k \in Nodes, q \in Circuits : (k # n \/ q # c) /\ (k # m \/ q # p) =>
               /\ Tells(k, ch[k], ch2[k], q) /\ Fewer(ch[k], ch2[k], q)
               /\ ch2[k].circuit[q].session = "calling" => ch[k].circuit[q].session = "calling"
               /\ ch[k].circuit[q].session = "free" => ch2[k].circuit[q].session = "free",
           Between(ch2, n, c), Between(ch2, m, p)
    PROVE  Fine(ch2)
<1>1. PeerOf(m, p) = c /\ p[2] = n
  BY PeerIs
<1>2. ASSUME NEW k \in Nodes, NEW d \in Circuits
      PROVE  Between(ch2, k, d)
  <2>1. CASE k = n /\ d = c
    BY <2>1
  <2>2. CASE k = m /\ d = p
    BY <2>2
  <2>3. CASE (k # n \/ d # c) /\ (k # m \/ d # p)
    <3> DEFINE l == d[2]
               q == PeerOf(k, d)
    <3>1. l \in Nodes /\ q \in Circuits /\ q[2] = k /\ PeerOf(l, q) = d
      BY PeerIs
    <3>2. (l # n \/ q # c) /\ (l # m \/ q # p)
      <4>1. ~(l = n /\ q = c)
        <5>1. SUFFICES ASSUME l = n, q = c
                       PROVE  FALSE
          OBVIOUS
        <5>2. k = m /\ d = p
          BY <3>1, <5>1
        <5> QED BY <2>3, <5>2
      <4>2. ~(l = m /\ q = p)
        <5>1. SUFFICES ASSUME l = m, q = p
                       PROVE  FALSE
          OBVIOUS
        <5>2. k = n /\ d = c
          BY <1>1, <3>1, <5>1
        <5> QED BY <2>3, <5>2
      <4> QED BY <4>1, <4>2
    <3>3. Tells(l, ch[l], ch2[l], q)
          /\ (ch[l].circuit[q].session = "free" => ch2[l].circuit[q].session = "free")
      <4> HIDE DEF l, q
      <4> QED BY <3>1, <3>2
    <3>4. Fewer(ch[k], ch2[k], d)
          /\ (ch2[k].circuit[d].session = "calling" => ch[k].circuit[d].session = "calling")
      BY <2>3
    <3>5. Way(k, ch2[k], d, l, ch2[l], q)
      BY <3>3, <3>4, WayKeeps
    <3>6. ch[k].circuit[d].session = "calling" => ch[l].circuit[q].session = "free"
      BY FineIs DEF Between
    <3> QED BY <3>3, <3>4, <3>5, <3>6 DEF Between
  <2> QED BY <2>1, <2>2, <2>3
<1> QED BY <1>2 DEF Fine

\* The circuit of a session that a node has with another is to a neighbour.
LEMMA SessionTo ==
    ASSUME net \in Networks, net.tree, NEW ch, Fine(ch), NEW n \in Nodes, NEW c \in Circuits,
           ch[n].circuit[c].session # "free"
    PROVE  Adjacent(n, c[2]) /\ Adjacent(c[2], n) /\ c[2] # n
<1>1. NodeOK(n, ch[n])
  BY FineIs
<1>2. SessionOK(n, ch[n].circuit[c], c)
  BY <1>1 DEF NodeOK, CircuitOK
<1>3. Adjacent(n, c[2])
  BY <1>2 DEF SessionOK
<1> QED BY <1>3, CutIs, AdjacentBack

\* What a circuit is that nobody is linked on.
LEMMA NotLinked ==
    ASSUME net \in Networks, net.tree, NEW n, NEW N, NodeOK(n, N), NEW c \in Circuits,
           ~Linked(N, c)
    PROVE  Users(N, c) = {}
BY UsersBehind

(***************************************************************************)
(* The actions of one node.                                                *)
(***************************************************************************)
\* The calls on the circuits S come to nothing.
LEMMA FailedStep ==
    ASSUME NEW n, NEW N, NodeOK(n, N), NEW S,
           \A c \in S \cap Circuits : N.circuit[c].session \notin {"free", "shut"},
           NEW K, K = Failed(N, S)
    PROVE  Step(n, N, K) /\ \A c : Fewer(N, K, c)
<1> DEFINE D == Disconnect(N, S)
           lk == [m \in Nodes |-> IF \E c \in S : c[2] = m THEN "failed" ELSE D.link[m]]
           E == [D EXCEPT !.link = lk]
<1>1. NodeType(N) /\ \A c \in Circuits : SessionOK(n, N.circuit[c], c)
  BY DEF NodeOK, CircuitOK
<1>2. K = [E EXCEPT !.RunningConnectScript = FALSE]
  BY DEF Failed
<1>3. /\ NodeType(D) /\ D.node = N.node /\ D.user = N.user
      /\ \A c \in Circuits :
            /\ D.circuit[c].hnode = N.circuit[c].hnode
            /\ D.circuit[c].refcnt = N.circuit[c].refcnt
            /\ D.circuit[c].tx = N.circuit[c].tx
            /\ D.circuit[c].rtcflags = N.circuit[c].rtcflags
            /\ D.circuit[c].session = IF c \in S /\ N.circuit[c].session # "lost"
                                      THEN "closing" ELSE N.circuit[c].session
  BY <1>1, DisconnectIs DEF SameButCircuits
<1> HIDE DEF D
<1>4. lk \in [Nodes -> {"none", "linkini", "linked", "failed"}]
  <2>1. D.link \in [Nodes -> {"none", "linkini", "linked", "failed"}]
    BY <1>3 DEF NodeType
  <2> QED BY <2>1
<1> HIDE DEF lk
<1>5. NodeType(E) /\ SameFields(D, E)
  BY <1>3, <1>4, FieldsBecome
<1> HIDE DEF E
<1>6. NodeType(K) /\ SameFields(E, K)
  <2>1. E.link \in [Nodes -> {"none", "linkini", "linked", "failed"}]
    BY <1>5 DEF NodeType
  <2>2. /\ NodeType([E EXCEPT !.RunningConnectScript = FALSE])
        /\ SameFields(E, [E EXCEPT !.RunningConnectScript = FALSE])
    BY <1>5, <2>1, FieldsBecome
  <2> QED BY <1>2, <2>2
<1>7. K.node = N.node /\ K.user = N.user /\ K.circuit = D.circuit
  BY <1>3, <1>5, <1>6 DEF SameFields
<1>8. ASSUME NEW c \in Circuits
      PROVE  /\ K.circuit[c].hnode = N.circuit[c].hnode
             /\ K.circuit[c].refcnt = N.circuit[c].refcnt
             /\ K.circuit[c].tx = N.circuit[c].tx
             /\ Linked(K, c) = Linked(N, c)
             /\ SessionOK(n, K.circuit[c], c)
             /\ K.circuit[c].session \in {N.circuit[c].session, "closing"}
             /\ N.circuit[c].session = "free" => K.circuit[c].session = "free"
  <2>1. /\ K.circuit[c].hnode = N.circuit[c].hnode
        /\ K.circuit[c].refcnt = N.circuit[c].refcnt
        /\ K.circuit[c].tx = N.circuit[c].tx
        /\ K.circuit[c].rtcflags = N.circuit[c].rtcflags
        /\ K.circuit[c].session = IF c \in S /\ N.circuit[c].session # "lost"
                                  THEN "closing" ELSE N.circuit[c].session
    BY <1>3, <1>7
  <2>2. c \in S => N.circuit[c].session \notin {"free", "shut"}
    OBVIOUS
  <2>3. SessionOK(n, N.circuit[c], c)
    BY <1>1
  <2>4. SessionOK(n, K.circuit[c], c)
    BY <2>1, <2>2, <2>3 DEF SessionOK
  <2> QED BY <2>1, <2>2, <2>4 DEF Linked
<1> QED BY <1>6, <1>7, <1>8, QuietStep

\* A call that is made has a session.
LEMMA CallingIs ==
    ASSUME NEW n, NEW N, NodeOK(n, N), NEW c \in Circuits, N.circuit[c].rtcflags # "nil"
    PROVE  N.circuit[c].session \notin {"free", "shut"}
<1>1. SessionOK(n, N.circuit[c], c)
  BY DEF NodeOK, CircuitOK
<1> QED BY <1>1 DEF SessionOK

\* All stays fine when a call fails.
LEMMA ConnectFailsFine ==
    ASSUME net \in Networks, net.tree, Fine(chat), NEW n \in Nodes, NEW m \in Nodes,
           ConnectFails(n, m)
    PROVE  Fine(chat')
<1> DEFINE S == {<< "out", m >>}
           K == Failed(chat[n], S)
<1>1. chat[n].circuit[<< "out", m >>].session = "calling" /\ chat' = [chat EXCEPT ![n] = K]
  BY DEF ConnectFails, Becomes
<1>2. NodeOK(n, chat[n])
  BY DEF Fine
<1>3. \A c \in S \cap Circuits : chat[n].circuit[c].session \notin {"free", "shut"}
  BY <1>1
<1>4. Step(n, chat[n], K) /\ \A d \in Circuits : Fewer(chat[n], K, d)
  <2> HIDE DEF S
  <2> QED BY <1>2, <1>3, FailedStep
<1> HIDE DEF K
<1> QED BY <1>1, <1>4, BecomesFine

\* All stays fine when a connect script is given up.
LEMMA ScriptTimesOutFine ==
    ASSUME net \in Networks, net.tree, Fine(chat), NEW n \in Nodes, ScriptTimesOut(n)
    PROVE  Fine(chat')
<1> DEFINE S == Connecting(chat[n])
           K == Failed(chat[n], S)
<1>1. chat' = [chat EXCEPT ![n] = K]
  BY DEF ScriptTimesOut, Becomes
<1>2. NodeOK(n, chat[n])
  BY DEF Fine
<1>3. \A c \in S \cap Circuits : chat[n].circuit[c].session \notin {"free", "shut"}
  BY <1>2, CallingIs DEF Connecting
<1>4. Step(n, chat[n], K) /\ \A d \in Circuits : Fewer(chat[n], K, d)
  <2> HIDE DEF S
  <2> QED BY <1>2, <1>3, FailedStep
<1> HIDE DEF K
<1> QED BY <1>1, <1>4, BecomesFine

\* All stays fine when a node with no users closes its links.
LEMMA NodeCloseFine ==
    ASSUME net \in Networks, net.tree, Fine(chat), NEW n \in Nodes, NodeClose(n)
    PROVE  Fine(chat')
<1> DEFINE S == {c \in circuit_hd(chat[n]) : chat[n].circuit[c].session \in {"calling", "open"}}
           K == Disconnect(chat[n], S)
<1>1. chat' = [chat EXCEPT ![n] = K]
  BY DEF NodeClose, Becomes
<1>2. NodeOK(n, chat[n])
  BY DEF Fine
<1>3. \A c \in S \cap Circuits : chat[n].circuit[c].session \notin {"free", "shut"}
  OBVIOUS
<1>4. Step(n, chat[n], K) /\ \A d \in Circuits : Fewer(chat[n], K, d)
  <2> HIDE DEF S
  <2> QED BY <1>2, <1>3, DisconnectStep
<1> HIDE DEF K
<1> QED BY <1>1, <1>4, BecomesFine

\* All stays fine when a user logs in.
LEMMA LoginFine ==
    ASSUME net \in Networks, net.tree, Fine(chat), NEW n \in Nodes, NEW call \in Calls,
           Login(n, call)
    PROVE  Fine(chat')
<1> DEFINE K == rtloginu(chat[n], n, call)
<1>1. chat' = [chat EXCEPT ![n] = K] /\ \A u \in chat[n].user : u.call # call
  BY DEF Login, Changes, Becomes
<1>2. NodeOK(n, chat[n])
  BY DEF Fine
<1>3. Step(n, chat[n], K) /\ \A d \in Circuits : Fewer(chat[n], K, d)
  BY <1>1, <1>2, rtloginuStep
<1> HIDE DEF K
<1> QED BY <1>1, <1>3, BecomesFine

\* All stays fine when a user logs out.
LEMMA LogoutFine ==
    ASSUME net \in Networks, net.tree, Fine(chat), NEW n \in Nodes, Logout(n)
    PROVE  Fine(chat')
<1>1. PICK u \in Users(chat[n], Local) : chat' = [chat EXCEPT ![n] = logout(chat[n], n, u)]
  BY DEF Logout, Changes, Becomes
<1> DEFINE K == logout(chat[n], n, u)
<1>2. NodeOK(n, chat[n])
  BY DEF Fine
<1>3. Step(n, chat[n], K) /\ \A d \in Circuits : Fewer(chat[n], K, d)
  BY <1>2, logoutStep
<1>4. chat' = [chat EXCEPT ![n] = K]
  BY <1>1
<1> HIDE DEF K
<1> QED BY <1>3, <1>4, BecomesFine

\* A step in which nobody comes or goes.
LEMMA KeptFine ==
    ASSUME net \in Networks, net.tree, NEW ch, Fine(ch), NEW n \in Nodes, NEW N,
           Step(n, ch[n], N), Kept(ch[n], N), NEW ch2, ch2 = [ch EXCEPT ![n] = N]
    PROVE  Fine(ch2)
<1>1. \A d \in Circuits : Fewer(ch[n], N, d)
  BY DEF Fewer, Kept, Users
<1> QED BY <1>1, BecomesFine

\* All stays fine when a user changes the topic.
LEMMA ChangeTopicFine ==
    ASSUME net \in Networks, net.tree, Fine(chat), NEW n \in Nodes, NEW topic \in Topics,
           ChangeTopic(n, topic)
    PROVE  Fine(chat')
<1>1. PICK u \in Users(chat[n], Local) :
          chat' = [chat EXCEPT ![n] = topic_chg(chat[n], n, u, topic)]
  BY DEF ChangeTopic, Changes, Becomes
<1> DEFINE K == topic_chg(chat[n], n, u, topic)
<1>2. NodeOK(n, chat[n]) /\ u \in chat[n].user
  BY DEF Fine, Users
<1>3. Step(n, chat[n], K) /\ Kept(chat[n], K)
  BY <1>2, TopicStep
<1>4. chat' = [chat EXCEPT ![n] = K]
  BY <1>1
<1> HIDE DEF K
<1> QED BY <1>3, <1>4, KeptFine

\* All stays fine when a user says something.
LEMMA SayFine ==
    ASSUME net \in Networks, net.tree, Fine(chat), NEW n \in Nodes, Say(n),
           left.says \in Seq(Sayings)
    PROVE  Fine(chat') /\ left'.says \in Seq(Sayings)
<1> DEFINE text == Head(left.says).text
<1>1. PICK u \in Users(chat[n], Local) :
          /\ chat' = [chat EXCEPT ![n] = Said(chat[n], n, u, text)]
          /\ left.says # << >>
          /\ left' = [left EXCEPT !.says = Tail(@)]
  BY DEF Say, Becomes
<1>2. Head(left.says) \in Sayings /\ Tail(left.says) \in Seq(Sayings)
  <2>1. left.says # << >>
    BY <1>1
  <2> QED BY <2>1
<1>3. text \in Texts
  BY <1>2 DEF Sayings
<1> HIDE DEF text
<1> DEFINE K == Said(chat[n], n, u, text)
<1>4. NodeOK(n, chat[n]) /\ u \in chat[n].user
  BY DEF Fine, Users
<1>5. Step(n, chat[n], K) /\ K.user = chat[n].user
  BY <1>3, <1>4, SaidStep
<1>6. Kept(chat[n], K)
  BY <1>5 DEF Kept
<1>7. chat' = [chat EXCEPT ![n] = K]
  BY <1>1
<1>8. left'.says \in Seq(Sayings)
  BY <1>1, <1>2
<1> HIDE DEF K
<1> QED BY <1>5, <1>6, <1>7, <1>8, KeptFine

(***************************************************************************)
(* The lines that arrive.                                                  *)
(***************************************************************************)
\* A line that changes nothing of the users, on a circuit that reaches none.
LEMMA HeedsNone ==
    ASSUME net \in Networks, net.tree, NEW n, NEW N, NodeOK(n, N), NEW c \in Circuits,
           ~Linked(N, c), NEW K, Step(n, N, K), K.user = N.user, NEW L
    PROVE  Heeds(n, N, c, L, K)
<1>1. Users(N, c) = {}
  BY NotLinked
<1>2. Users(K, c) = {}
  BY <1>1 DEF Users
<1>3. Hears(N, K, c, L)
  BY <1>2 DEF Hears
<1>4. \A d \in Circuits \ {c} : Fewer(N, K, d)
  BY FewerSame
<1> QED BY <1>3, <1>4 DEF Heeds

\* What arrives is heard by n, which becomes N.
LEMMA HeardFine ==
    ASSUME net \in Networks, net.tree, Fine(chat), NEW n \in Nodes, NEW c \in Circuits,
           Arriving(n, c), NEW N, Takes(n, c, N), Heeds(n, chat[n], c, Head(Incoming(n, c)), N)
    PROVE  Fine(chat')
<1> DEFINE m == c[2]
           p == PeerOf(n, c)
<1>1. chat[n].circuit[c].session = "open" /\ chat[m].circuit[p].tx # << >>
  BY DEF Arriving, Incoming
<1>2. Heeds(n, chat[n], c, Head(chat[m].circuit[p].tx), N)
  BY DEF Incoming
<1>3. chat' = [chat EXCEPT ![n] = N, ![m].circuit[p].tx = Tail(@)]
  BY DEF Takes
<1>4. m = c[2] /\ p = PeerOf(n, c)
  OBVIOUS
<1> HIDE DEF m, p
<1> QED BY <1>1, <1>2, <1>3, <1>4, TakesFine

\* All stays fine when a node that called says *RTL.
LEMMA HearRTLFine ==
    ASSUME net \in Networks, net.tree, Fine(chat), NEW n \in Nodes, NEW c \in Circuits,
           HearRTL(n, c)
    PROVE  Fine(chat')
<1> DEFINE K == rtloginl(chat[n], n, c)
<1>1. /\ Arriving(n, c) /\ chat[n].circuit[c].session = "open"
      /\ chat[n].circuit[c].rtcflags = "linkwait" /\ Takes(n, c, K)
  BY DEF HearRTL, Arriving
<1>2. NodeOK(n, chat[n])
  BY DEF Fine
<1>3. Step(n, chat[n], K) /\ K.user = chat[n].user
  BY <1>1, <1>2, rtloginlStep
<1>4. ~Linked(chat[n], c)
  BY <1>1 DEF Linked
<1> HIDE DEF K
<1>5. Heeds(n, chat[n], c, Head(Incoming(n, c)), K)
  BY <1>2, <1>3, <1>4, HeedsNone
<1> QED BY <1>1, <1>5, HeardFine

\* All stays fine when the node that was called answers.
LEMMA HearOKFine ==
    ASSUME net \in Networks, net.tree, Fine(chat), NEW n \in Nodes, NEW c \in Circuits,
           HearOK(n, c)
    PROVE  Fine(chat')
<1> DEFINE K == Answered(chat[n], n, c)
<1>1. /\ Arriving(n, c) /\ chat[n].circuit[c].session = "open"
      /\ chat[n].circuit[c].rtcflags = "linkini" /\ Takes(n, c, K)
  BY DEF HearOK, Arriving
<1>2. NodeOK(n, chat[n])
  BY DEF Fine
<1>3. Step(n, chat[n], K) /\ K.user = chat[n].user
  BY <1>1, <1>2, AnsweredStep
<1>4. ~Linked(chat[n], c)
  BY <1>1 DEF Linked
<1> HIDE DEF K
<1>5. Heeds(n, chat[n], c, Head(Incoming(n, c)), K)
  BY <1>2, <1>3, <1>4, HeedsNone
<1> QED BY <1>1, <1>5, HeardFine

\* What is to be expected of the next line on its way.
LEMMA NextLineIs ==
    ASSUME net \in Networks, net.tree, Fine(chat), NEW n \in Nodes, NEW c \in Circuits,
           Arriving(n, c), NEW L, L = Head(Incoming(n, c))
    PROVE  /\ L \in Lines /\ FromSide(n, c[2], L)
           /\ L.kind = "unlink" => \A u \in Users(chat[n], c) : u.at # L.call
<1> DEFINE m == c[2]
           p == PeerOf(n, c)
           w == chat[m].circuit[p].tx
<1>1. /\ NodeOK(n, chat[n]) /\ NodeType(chat[m]) /\ p \in Circuits /\ Between(chat, n, c)
  BY FineIs
<1>2. w \in Seq(Lines)
  BY <1>1, CircuitIs
<1>3. w # << >> /\ L = Head(w)
  BY DEF Arriving, Incoming
<1>4. Way(n, chat[n], c, m, chat[m], p)
  BY <1>1 DEF Between
<1>5. /\ \A k \in DOMAIN w : FromSide(n, m, w[k])
      /\ \A k \in DOMAIN w : w[k].kind = "unlink" => \A call \in Calls :
            (\E u \in Users(chat[n], c) : u.call = call /\ u.at = w[k].call) =>
                \E j \in DOMAIN w : j < k /\ Says(w[j], "leave", call, w[k].call)
  BY <1>4 DEF Way
<1> HIDE DEF w
<1>6. Len(w) \in Nat /\ Len(w) >= 1 /\ DOMAIN w = 1..Len(w) /\ L = w[1] /\ L \in Lines
  BY <1>2, <1>3, TailIs
<1>7. 1 \in DOMAIN w /\ ~\E j \in DOMAIN w : j < 1
  BY <1>6
<1>8. FromSide(n, m, L)
  BY <1>5, <1>6, <1>7
<1>9. ASSUME L.kind = "unlink", NEW u \in Users(chat[n], c), u.at = L.call
      PROVE  FALSE
  <2>1. u.call \in Calls
    BY <1>1, UsersBehind
  <2>2. w[1].kind = "unlink" /\ u.at = w[1].call
    BY <1>6, <1>9
  <2>3. \E j \in DOMAIN w : j < 1 /\ Says(w[j], "leave", u.call, w[1].call)
    BY <1>5, <1>7, <2>1, <2>2
  <2> QED BY <1>7, <2>3
<1> QED BY <1>6, <1>8, <1>9

\* All stays fine when a line of a linked node is heard.
LEMMA HearLineFine ==
    ASSUME net \in Networks, net.tree, Fine(chat), NEW n \in Nodes, NEW c \in Circuits,
           HearLine(n, c)
    PROVE  Fine(chat')
<1> DEFINE L == Head(Incoming(n, c))
<1>1. Arriving(n, c) /\ chat[n].circuit[c].rtcflags = "linked"
  BY DEF HearLine
<1>2. PICK recent : Takes(n, c, chkctl(chat[n], n, c, L, recent))
  BY DEF HearLine
<1> DEFINE K == chkctl(chat[n], n, c, L, recent)
<1>3. /\ L \in Lines /\ FromSide(n, c[2], L)
      /\ L.kind = "unlink" => \A u \in Users(chat[n], c) : u.at # L.call
  BY <1>1, NextLineIs
<1>4. NodeOK(n, chat[n]) /\ Linked(chat[n], c)
  BY <1>1 DEF Fine, Linked
<1>5. Heeds(n, chat[n], c, L, K)
  <2> HIDE DEF L
  <2> QED BY <1>3, <1>4, chkctlIs
<1>6. Takes(n, c, K)
  BY <1>2
<1> HIDE DEF K
<1> QED BY <1>1, <1>5, <1>6, HeardFine

(***************************************************************************)
(* Sessions that start and end.                                            *)
(***************************************************************************)
\* n, which was N, is M: the session of circuit c has changed, and the others have
\* been told of those who are gone with it.
Alone(n, N, c, M) ==
    /\ NodeOK(n, M) /\ M.user \subseteq N.user
    /\ \A q \in Circuits : q # c => /\ Tells(n, N, M, q)
                                    /\ M.circuit[q].session = N.circuit[q].session

\* D is C with a session that has changed.
Resession(n, C, c, D) ==
    /\ D \in CircuitRecs /\ D.hnode = C.hnode /\ D.refcnt = C.refcnt
    /\ D.rtcflags = "linked" <=> C.rtcflags = "linked"
    /\ SessionOK(n, D, c)

\* A node is as it should be when the session of a circuit changes.
LEMMA AloneIs ==
    ASSUME NEW n, NEW N, NodeOK(n, N), NEW c \in Circuits, NEW D,
           Resession(n, N.circuit[c], c, D), NEW M, NodeType(M), M.node = N.node, M.user = N.user,
           M.circuit[c] = D, \A d \in Circuits : d # c => M.circuit[d] = N.circuit[d]
    PROVE  Alone(n, N, c, M)
<1>1. /\ D.hnode = N.circuit[c].hnode /\ D.refcnt = N.circuit[c].refcnt
      /\ D.rtcflags = "linked" <=> N.circuit[c].rtcflags = "linked"
      /\ SessionOK(n, D, c)
  BY DEF Resession
<1>2. \A d \in Circuits : SessionOK(n, N.circuit[d], d)
  BY DEF NodeOK, CircuitOK
<1>3. ASSUME NEW d \in Circuits
      PROVE  /\ M.circuit[d].hnode = N.circuit[d].hnode
             /\ M.circuit[d].refcnt = N.circuit[d].refcnt
             /\ Linked(M, d) = Linked(N, d)
             /\ SessionOK(n, M.circuit[d], d)
  <2>1. CASE d = c
    <3>1. Linked(M, c) = Linked(N, c)
      BY <1>1 DEF Linked
    <3> QED BY <1>1, <2>1, <3>1
  <2>2. CASE d # c
    <3>1. M.circuit[d] = N.circuit[d]
      BY <2>2
    <3>2. Linked(M, d) = Linked(N, d)
      BY <3>1 DEF Linked
    <3> QED BY <1>2, <3>1, <3>2
  <2> QED BY <2>1, <2>2
<1>4. NodeOK(n, M)
  BY <1>3, OnlyFlags
<1>5. ASSUME NEW q \in Circuits, q # c
      PROVE  Tells(n, N, M, q) /\ M.circuit[q].session = N.circuit[q].session
  <2>1. M.circuit[q] = N.circuit[q]
    BY <1>5
  <2>2. Linked(M, q) = Linked(N, q)
    BY <2>1 DEF Linked
  <2>3. \A call, x : user_find(N, call, x) => user_find(M, call, x)
    BY DEF user_find
  <2>4. NodeType(N)
    BY DEF NodeOK
  <2>5. Tells(n, N, M, q)
    BY <2>1, <2>2, <2>3, <2>4, TellsNone
  <2> QED BY <2>1, <2>5
<1> QED BY <1>4, <1>5 DEF Alone

\* Nothing is told on a circuit where nothing is sent and nothing can be.
LEMMA TellsClosed ==
    ASSUME NEW n, NEW N, NodeType(N), NEW M, NEW p \in Circuits,
           M.circuit[p].tx = N.circuit[p].tx, M.circuit[p].session # "open"
    PROVE  Tells(n, N, M, p)
BY TellsNone

\* The two ends of a session change.
LEMMA EndsFine ==
    ASSUME net \in Networks, net.tree, NEW ch, Fine(ch), NEW n \in Nodes, NEW c \in Circuits,
           NEW m, m = c[2], NEW p, p = PeerOf(n, c), m # n,
           NEW ch2, DOMAIN ch2 = Nodes, Alone(n, ch[n], c, ch2[n]), Alone(m, ch[m], p, ch2[m]),
           \A k \in Nodes : k # n /\ k # m => ch2[k] = ch[k],
           Between(ch2, n, c), Between(ch2, m, p)
    PROVE  Fine(ch2)
<1>1. /\ NodeOK(n, ch2[n]) /\ ch2[n].user \subseteq ch[n].user
      /\ \A q \in Circuits : q # c => /\ Tells(n, ch[n], ch2[n], q)
                                      /\ ch2[n].circuit[q].session = ch[n].circuit[q].session
  BY DEF Alone
<1>2. /\ NodeOK(m, ch2[m]) /\ ch2[m].user \subseteq ch[m].user
      /\ \A q \in Circuits : q # p => /\ Tells(m, ch[m], ch2[m], q)
                                      /\ ch2[m].circuit[q].session = ch[m].circuit[q].session
  BY DEF Alone
<1>3. \A k \in Nodes : NodeOK(k, ch[k])
  BY DEF Fine
<1>4. \A k \in Nodes : NodeOK(k, ch2[k])
  BY <1>1, <1>2, <1>3
<1>5. ASSUME NEW k \in Nodes, NEW q \in Circuits, k # n \/ q # c, k # m \/ q # p
      PROVE  /\ Tells(k, ch[k], ch2[k], q) /\ Fewer(ch[k], ch2[k], q)
             /\ ch2[k].circuit[q].session = ch[k].circuit[q].session
  <2>1. ch2[k].user \subseteq ch[k].user
    BY <1>1, <1>2
  <2>2. Fewer(ch[k], ch2[k], q)
    BY <2>1 DEF Fewer, Users
  <2>3. CASE k = n
    BY <1>1, <1>5, <2>2, <2>3
  <2>4. CASE k = m
    BY <1>2, <1>5, <2>2, <2>4
  <2>5. CASE k # n /\ k # m
    <3>1. ch2[k] = ch[k]
      BY <2>5
    <3>2. Tells(k, ch[k], ch[k], q)
      BY <1>3, StepNone DEF Step
    <3> QED BY <2>2, <3>1, <3>2
  <2> QED BY <2>3, <2>4, <2>5
<1> QED BY <1>4, <1>5, PairFine

\* The end of a session that nothing happens to.
LEMMA AloneSame ==
    ASSUME NEW n, NEW N, NodeOK(n, N), NEW c
    PROVE  Alone(n, N, c, N)
BY StepNone DEF Alone, Step

\* All stays fine when a node calls another.
LEMMA MakeLinkFine ==
    ASSUME net \in Networks, net.tree, Fine(chat), NEW n \in Nodes, NEW m \in Nodes,
           MakeLink(n, m)
    PROVE  Fine(chat')
<1> DEFINE N == chat[n]
           c == << "out", m >>
           p == PeerOf(n, c)
           D == [N.circuit[c] EXCEPT !.rtcflags = "linkini", !.session = "calling"]
           lk == [N.link EXCEPT ![m] = "linkini"]
           E == [N EXCEPT !.link = lk]
           F == [E EXCEPT !.RunningConnectScript = TRUE]
           M == [F EXCEPT !.circuit[c] = D]
<1>1. /\ << n, m >> \in net.links
      /\ N.circuit[c].session = "free" /\ chat[m].circuit[p].session = "free"
      /\ chat' = [chat EXCEPT ![n] =
                    [N EXCEPT !.link[m] = "linkini", !.RunningConnectScript = TRUE,
                              !.circuit[c].rtcflags = "linkini",
                              !.circuit[c].session = "calling"]]
  BY DEF MakeLink, Becomes
<1>2. c \in Circuits /\ c[2] = m /\ c[1] = "out"
  BY DEF Circuits
<1>3. NodeOK(n, N) /\ NodeType(N) /\ p \in Circuits /\ p[2] = n /\ Between(chat, n, c)
      /\ NodeOK(m, chat[m]) /\ DOMAIN chat = Nodes /\ PeerOf(m, p) = c
      /\ Between(chat, m, p)
  <2> HIDE DEF c
  <2> QED BY <1>2, FineIs
<1>4. N.circuit[c] \in CircuitRecs /\ N.circuit \in [Circuits -> CircuitRecs]
  BY <1>2, <1>3, CircuitIs
<1>5. D \in CircuitRecs /\ D.rtcflags = "linkini" /\ D.session = "calling"
      /\ D.hnode = N.circuit[c].hnode /\ D.refcnt = N.circuit[c].refcnt
      /\ D.tx = N.circuit[c].tx
  <2> HIDE DEF c, N
  <2> QED BY <1>4 DEF CircuitRecs
<1>6. lk \in [Nodes -> {"none", "linkini", "linked", "failed"}]
  BY <1>3 DEF NodeType
<1>7. [N EXCEPT !.link[m] = "linkini", !.RunningConnectScript = TRUE,
                !.circuit[c].rtcflags = "linkini", !.circuit[c].session = "calling"] = M
  <2>1. N = [node |-> N.node, user |-> N.user, link |-> N.link,
             RunningConnectScript |-> N.RunningConnectScript, circuit |-> N.circuit,
             DupInfo |-> N.DupInfo, heard |-> N.heard]
    BY <1>3 DEF NodeType
  <2> HIDE DEF c, N
  <2> QED BY <1>2, <1>3, <1>4, <2>1
<1> HIDE DEF D, lk, c, N
<1>8. NodeType(E) /\ SameFields(N, E) /\ E.link = lk
  <2>1. NodeType([N EXCEPT !.link = lk]) /\ SameFields(N, [N EXCEPT !.link = lk])
        /\ [N EXCEPT !.link = lk].link = lk
    BY <1>3, <1>6, FieldsBecome
  <2> QED BY <2>1
<1> HIDE DEF E
<1>9. NodeType(F) /\ SameFields(E, F)
  <2>1. NodeType([E EXCEPT !.RunningConnectScript = TRUE])
        /\ SameFields(E, [E EXCEPT !.RunningConnectScript = TRUE])
    BY <1>6, <1>8, FieldsBecome
  <2> QED BY <2>1
<1> HIDE DEF F
<1>10. Turns(F, c, D, M)
  BY <1>2, <1>5, <1>9, TurnsIs
<1> HIDE DEF M
<1>11. /\ NodeType(M) /\ M.node = N.node /\ M.user = N.user /\ M.circuit[c] = D
       /\ \A d \in Circuits : d # c => M.circuit[d] = N.circuit[d]
  BY <1>8, <1>9, <1>10 DEF Turns, SameFields, SameButCircuits
<1>12. N.circuit[c].rtcflags = "nil" /\ N.circuit[c].tx = << >>
  <2>1. SessionOK(n, N.circuit[c], c)
    BY <1>2, <1>3 DEF NodeOK, CircuitOK
  <2> QED BY <1>1, <2>1 DEF SessionOK
<1>13. Adjacent(n, m) /\ n # m
  <2>1. Adjacent(n, m)
    BY <1>1 DEF Adjacent
  <2> QED BY <2>1, CutIs
<1>14. SessionOK(n, D, c)
  BY <1>2, <1>5, <1>12, <1>13 DEF SessionOK
<1>15. Resession(n, N.circuit[c], c, D)
  BY <1>5, <1>12, <1>14 DEF Resession
<1>16. Alone(n, N, c, M)
  BY <1>2, <1>3, <1>11, <1>15, AloneIs
<1>17. /\ DOMAIN chat' = Nodes /\ chat'[n] = M /\ \A k \in Nodes : k # n => chat'[k] = chat[k]
  BY <1>1, <1>3, <1>7
<1>18. Between(chat', n, c)
  <2>1. Fewer(N, M, c)
    BY <1>11, FewerSame
  <2>2. Way(n, N, c, m, chat[m], p)
    BY <1>2, <1>3 DEF Between, N
  <2>3. Way(n, M, c, m, chat[m], p)
    BY <2>1, <2>2, WayFewer
  <2> QED BY <1>1, <1>2, <1>13, <1>17, <2>3 DEF Between
<1>19. Between(chat', m, p)
  <2>1. M.circuit[c].tx = << >> /\ M.circuit[c].session # "open"
    BY <1>5, <1>11, <1>12
  <2>2. Way(m, chat[m], p, n, M, c)
    BY <2>1, WayNone
  <2>3. chat[m].circuit[p].session # "calling"
    BY <1>1
  <2> QED BY <1>3, <1>13, <1>17, <2>2, <2>3 DEF Between
<1>20. Alone(n, chat[n], c, chat'[n]) /\ Alone(m, chat[m], p, chat'[m])
  BY <1>3, <1>13, <1>16, <1>17, AloneSame DEF N
<1> DEFINE ch2 == chat'
<1>21. /\ DOMAIN ch2 = Nodes /\ Alone(n, chat[n], c, ch2[n]) /\ Alone(m, chat[m], p, ch2[m])
       /\ \A k \in Nodes : k # n /\ k # m => ch2[k] = chat[k]
       /\ Between(ch2, n, c) /\ Between(ch2, m, p)
  BY <1>17, <1>18, <1>19, <1>20
<1> HIDE DEF ch2, p
<1>22. c \in Circuits /\ m = c[2] /\ p = PeerOf(n, c) /\ m # n
  BY <1>2, <1>13 DEF p
<1>23. Fine(ch2)
  BY <1>21, <1>22, EndsFine
<1> QED BY <1>23 DEF ch2

\* Circuit c of n has become D, and nothing else has changed.
AloneAt(n, N, c, D, M) == /\ Alone(n, N, c, M) /\ M.circuit[c] = D /\ M.user = N.user
                          /\ Linked(M, c) = Linked(N, c)

\* One circuit becomes D.
LEMMA CircuitAlone ==
    ASSUME NEW n, NEW N, NodeOK(n, N), NEW c \in Circuits, NEW D,
           Resession(n, N.circuit[c], c, D), NEW M, M = [N EXCEPT !.circuit[c] = D]
    PROVE  AloneAt(n, N, c, D, M)
<1>1. NodeType(N) /\ D \in CircuitRecs
  BY DEF NodeOK, Resession
<1>2. Turns(N, c, D, M)
  BY <1>1, TurnsIs
<1>3. /\ NodeType(M) /\ M.node = N.node /\ M.user = N.user /\ M.circuit[c] = D
      /\ \A d \in Circuits : d # c => M.circuit[d] = N.circuit[d]
  BY <1>2 DEF Turns, SameButCircuits
<1>4. Alone(n, N, c, M)
  BY <1>3, AloneIs
<1>5. Linked(M, c) = Linked(N, c)
  BY <1>3 DEF Linked, Resession
<1> QED BY <1>3, <1>4, <1>5 DEF AloneAt

\* *RTL.
LEMMA RTLIs ==
    ASSUME NEW n \in Nodes, NEW L, L = Line("RTL", n, n, deftopic)
    PROVE  L \in Lines /\ L.kind = "RTL"
<1>1. "RTL" \in {"RTL", "OK", "link", "unlink", "join", "leave", "topic", "data"}
      /\ n \in Calls \cup Nodes /\ deftopic \in Topics \cup Texts
  BY TopicAssumption
<1> QED BY <1>1, LineIs

\* All stays fine when a call is answered.
LEMMA ReachesFine ==
    ASSUME net \in Networks, net.tree, Fine(chat), NEW n \in Nodes, NEW m \in Nodes,
           Reaches(n, m)
    PROVE  Fine(chat')
<1> DEFINE N == chat[n]
           R == chat[m]
           c == << "out", m >>
           p == PeerOf(n, c)
           L == Line("RTL", n, n, deftopic)
           D == [N.circuit[c] EXCEPT !.session = "open", !.tx = << L >>]
           E == [R.circuit[p] EXCEPT !.session = "open", !.rtcflags = "linkwait"]
           M == [N EXCEPT !.circuit[c] = D]
           S == [R EXCEPT !.circuit[p] = E]
<1>1. /\ N.circuit[c].session = "calling"
      /\ chat' = [chat EXCEPT
           ![n].circuit[c].session = "open", ![n].circuit[c].tx = << L >>,
           ![m].circuit[p] = [@ EXCEPT !.session = "open", !.rtcflags = "linkwait"]]
  BY DEF Reaches
<1>2. c \in Circuits /\ c[2] = m /\ c[1] = "out"
  BY DEF Circuits
<1>3. /\ NodeOK(n, N) /\ NodeType(N) /\ p \in Circuits /\ p[2] = n /\ Between(chat, n, c)
      /\ NodeOK(m, R) /\ NodeType(R) /\ DOMAIN chat = Nodes /\ PeerOf(m, p) = c
  <2> HIDE DEF c
  <2> QED BY <1>2, FineIs
<1>4. Adjacent(n, m) /\ Adjacent(m, n) /\ m # n
  <2> HIDE DEF c
  <2> QED BY <1>1, <1>2, SessionTo
<1>5. R.circuit[p].session = "free"
  BY <1>1, <1>2, <1>3 DEF Between
<1>6. /\ N.circuit[c] \in CircuitRecs /\ N.circuit \in [Circuits -> CircuitRecs]
      /\ R.circuit[p] \in CircuitRecs /\ R.circuit \in [Circuits -> CircuitRecs]
  BY <1>2, <1>3, CircuitIs
<1>7. chat' = [chat EXCEPT ![n] = M, ![m] = S]
  <2>1. N = [node |-> N.node, user |-> N.user, link |-> N.link,
             RunningConnectScript |-> N.RunningConnectScript, circuit |-> N.circuit,
             DupInfo |-> N.DupInfo, heard |-> N.heard]
    BY <1>3 DEF NodeType
  <2> DEFINE F == [chat EXCEPT ![n].circuit[c].session = "open",
                               ![n].circuit[c].tx = << L >>]
  <2>2. F = [chat EXCEPT ![n] = M]
    <3> DEFINE s == << L >>
    <3>1. [[N EXCEPT !.circuit[c].session = "open"] EXCEPT !.circuit[c].tx = s]
              = [N EXCEPT !.circuit[c] = [N.circuit[c] EXCEPT !.session = "open", !.tx = s]]
      <4> HIDE DEF c, s
      <4> QED BY <1>2, <1>6, <2>1
    <3>2. [chat EXCEPT ![n].circuit[c].session = "open", ![n].circuit[c].tx = s]
              = [chat EXCEPT ![n] =
                    [[N EXCEPT !.circuit[c].session = "open"] EXCEPT !.circuit[c].tx = s]]
      <4> DEFINE N1 == [N EXCEPT !.circuit[c].session = "open"]
                 A == [chat EXCEPT ![n].circuit[c].session = "open"]
      <4> HIDE DEF c, s
      <4>1. A = [chat EXCEPT ![n] = N1]
        OBVIOUS
      <4>2. F = [A EXCEPT ![n].circuit[c].tx = s]
        BY DEF s
      <4> HIDE DEF A, F, N1
      <4>3. A[n] = N1 /\ DOMAIN A = Nodes /\ \A k \in Nodes : k # n => A[k] = chat[k]
        BY <1>3, <4>1
      <4>4. [A EXCEPT ![n].circuit[c].tx = s] = [A EXCEPT ![n] = [A[n] EXCEPT !.circuit[c].tx = s]]
        OBVIOUS
      <4> DEFINE N2 == [N1 EXCEPT !.circuit[c].tx = s]
      <4>5. F = [A EXCEPT ![n] = N2]
        BY <4>2, <4>3, <4>4
      <4> HIDE DEF N2
      <4>6. F = [chat EXCEPT ![n] = N2]
        BY <4>1, <4>5
      <4> QED BY <4>6 DEF F, N1, N2, s
    <3> HIDE DEF c
    <3> QED BY <3>1, <3>2
  <2>3. chat' = [F EXCEPT ![m] = S]
    <3> HIDE DEF c, L, p
    <3> QED BY <1>1, <1>3, <1>4
  <2> HIDE DEF F, M, S
  <2> QED BY <2>2, <2>3
<1>8. /\ DOMAIN chat' = Nodes /\ chat'[n] = M /\ chat'[m] = S
      /\ \A k \in Nodes : k # n /\ k # m => chat'[k] = chat[k]
  <2> HIDE DEF M, S
  <2> QED BY <1>3, <1>4, <1>7
<1>9. L \in Lines /\ L.kind = "RTL"
  BY RTLIs
<1> HIDE DEF L, c, N, R
<1>10. << L >> \in Seq(Lines) /\ DOMAIN << L >> = {1} /\ << L >>[1] = L
  BY <1>9, OneIs
<1>11. /\ D \in CircuitRecs /\ D.rtcflags = N.circuit[c].rtcflags /\ D.session = "open"
       /\ D.hnode = N.circuit[c].hnode /\ D.refcnt = N.circuit[c].refcnt /\ D.tx = << L >>
  BY <1>6, <1>10 DEF CircuitRecs
<1>12. /\ E \in CircuitRecs /\ E.rtcflags = "linkwait" /\ E.session = "open"
       /\ E.hnode = R.circuit[p].hnode /\ E.refcnt = R.circuit[p].refcnt
       /\ E.tx = R.circuit[p].tx
  BY <1>6 DEF CircuitRecs
<1> HIDE DEF D, E, p
<1>13. /\ SessionOK(n, N.circuit[c], c) /\ SessionOK(m, R.circuit[p], p)
  BY <1>2, <1>3 DEF NodeOK, CircuitOK
<1>14. N.circuit[c].rtcflags # "linked" /\ R.circuit[p].rtcflags = "nil"
       /\ R.circuit[p].tx = << >>
  BY <1>1, <1>5, <1>13 DEF SessionOK
<1>15. Resession(n, N.circuit[c], c, D)
  <2>1. SessionOK(n, D, c)
    BY <1>2, <1>4, <1>11 DEF SessionOK
  <2> QED BY <1>11, <2>1 DEF Resession
<1>16. Resession(m, R.circuit[p], p, E)
  <2>1. SessionOK(m, E, p)
    BY <1>3, <1>4, <1>12 DEF SessionOK
  <2> QED BY <1>12, <1>14, <2>1 DEF Resession
<1>17. /\ Alone(n, N, c, M) /\ M.circuit[c] = D /\ M.user = N.user
       /\ Linked(M, c) = Linked(N, c)
  <2>1. M = [N EXCEPT !.circuit[c] = D]
    OBVIOUS
  <2> HIDE DEF M
  <2>2. AloneAt(n, N, c, D, M)
    BY <1>2, <1>3, <1>15, <2>1, CircuitAlone
  <2> QED BY <2>2 DEF AloneAt
<1>18. /\ Alone(m, R, p, S) /\ S.circuit[p] = E /\ S.user = R.user
       /\ Linked(S, p) = Linked(R, p)
  <2>1. S = [R EXCEPT !.circuit[p] = E]
    OBVIOUS
  <2> HIDE DEF S
  <2>2. AloneAt(m, R, p, E, S)
    BY <1>3, <1>16, <2>1, CircuitAlone
  <2> QED BY <2>2 DEF AloneAt
<1> HIDE DEF M, S
<1>19. Users(M, c) = {} /\ Users(S, p) = {}
  <2>1. ~Linked(M, c) /\ ~Linked(S, p)
    BY <1>14, <1>17, <1>18 DEF Linked
  <2> QED BY <1>2, <1>3, <1>17, <1>18, <2>1, NotLinked DEF Alone
<1>20. Way(n, M, c, m, S, p)
  <2>1. S.circuit[p].tx = << >> /\ DOMAIN << >> = {}
    BY <1>12, <1>14, <1>18, ConcatNone
  <2> QED BY <1>19, <2>1 DEF Way
<1>21. Way(m, S, p, n, M, c)
  <2>1. M.circuit[c].tx = << L >> /\ FromSide(m, n, L)
    BY <1>9, <1>11, <1>17 DEF FromSide
  <2>2. \A call, x : ~Says(L, "leave", call, x) /\ ~Says(L, "join", call, x)
    BY <1>9 DEF Says
  <2> QED BY <1>9, <1>10, <1>19, <2>1, <2>2 DEF Way
<1> DEFINE ch2 == chat'
<1>22. Between(ch2, n, c)
  BY <1>2, <1>8, <1>11, <1>17, <1>20 DEF Between, p
<1>23. Between(ch2, m, p)
  BY <1>3, <1>8, <1>12, <1>18, <1>21 DEF Between
<1>24. /\ DOMAIN ch2 = Nodes /\ Alone(n, chat[n], c, ch2[n]) /\ Alone(m, chat[m], p, ch2[m])
       /\ \A k \in Nodes : k # n /\ k # m => ch2[k] = chat[k]
  BY <1>8, <1>17, <1>18 DEF N, R
<1> HIDE DEF ch2
<1>25. c \in Circuits /\ m = c[2] /\ p = PeerOf(n, c) /\ m # n
  BY <1>2, <1>4 DEF p
<1>26. Fine(ch2)
  BY <1>22, <1>23, <1>24, <1>25, EndsFine
<1> QED BY <1>26 DEF ch2

\* A session that is broken.
LEMMA BrokenIs ==
    ASSUME net \in Networks, net.tree, NEW n, NEW N, NodeOK(n, N), NEW c \in Circuits,
           NEW D, D = Broken(N.circuit[c])
    PROVE  /\ Resession(n, N.circuit[c], c, D) /\ D.tx = << >>
           /\ D.session \in {"free", "lost"} /\ D.rtcflags = N.circuit[c].rtcflags
           /\ N.circuit[c].session = "free" => D.session = "free"
<1>1. N.circuit[c] \in CircuitRecs /\ SessionOK(n, N.circuit[c], c)
  <2>1. NodeType(N) /\ CircuitOK(n, N, c)
    BY DEF NodeOK
  <2> QED BY <2>1, CircuitIs DEF CircuitOK
<1>2. << >> \in Seq(Lines)
  OBVIOUS
<1>3. /\ D \in CircuitRecs /\ D.tx = << >> /\ D.hnode = N.circuit[c].hnode
      /\ D.refcnt = N.circuit[c].refcnt /\ D.rtcflags = N.circuit[c].rtcflags
      /\ D.session = IF N.circuit[c].session \in {"shut", "free"} THEN "free" ELSE "lost"
  BY <1>1, <1>2 DEF Broken, CircuitRecs
<1>4. SessionOK(n, D, c)
  BY <1>1, <1>3 DEF SessionOK
<1> QED BY <1>3, <1>4 DEF Resession

\* All stays fine when a session breaks.
LEMMA BreaksFine ==
    ASSUME net \in Networks, net.tree, Fine(chat), NEW n \in Nodes, NEW m \in Nodes,
           Breaks(n, m)
    PROVE  Fine(chat')
<1> DEFINE N == chat[n]
           R == chat[m]
           c == << "out", m >>
           p == PeerOf(n, c)
           D == Broken(N.circuit[c])
           E == Broken(R.circuit[p])
           M == [N EXCEPT !.circuit[c] = D]
           S == [R EXCEPT !.circuit[p] = E]
<1>1. /\ N.circuit[c].session = "open"
      /\ chat' = [chat EXCEPT ![n].circuit[c] = Broken(@), ![m].circuit[p] = Broken(@)]
  BY DEF Breaks
<1>2. c \in Circuits /\ c[2] = m
  BY DEF Circuits
<1>3. /\ NodeOK(n, N) /\ p \in Circuits /\ p[2] = n /\ NodeOK(m, R) /\ DOMAIN chat = Nodes
      /\ PeerOf(m, p) = c
  <2> HIDE DEF c
  <2> QED BY <1>2, FineIs
<1>4. m # n
  <2> HIDE DEF c
  <2> QED BY <1>1, <1>2, SessionTo
<1>5. chat' = [chat EXCEPT ![n] = M, ![m] = S]
  <2> HIDE DEF c, p
  <2> QED BY <1>1, <1>3, <1>4
<1>6. /\ DOMAIN chat' = Nodes /\ chat'[n] = M /\ chat'[m] = S
      /\ \A k \in Nodes : k # n /\ k # m => chat'[k] = chat[k]
  <2> HIDE DEF M, S
  <2> QED BY <1>3, <1>4, <1>5
<1> HIDE DEF c, N, R
<1>7. /\ Resession(n, N.circuit[c], c, D) /\ D.tx = << >> /\ D.session \in {"free", "lost"}
  BY <1>2, <1>3, BrokenIs
<1>8. /\ Resession(m, R.circuit[p], p, E) /\ E.tx = << >> /\ E.session \in {"free", "lost"}
  BY <1>3, BrokenIs
<1> HIDE DEF D, E, p
<1>9. Alone(n, N, c, M) /\ M.circuit[c] = D
  <2>1. M = [N EXCEPT !.circuit[c] = D]
    OBVIOUS
  <2> HIDE DEF M
  <2>2. AloneAt(n, N, c, D, M)
    BY <1>2, <1>3, <1>7, <2>1, CircuitAlone
  <2> QED BY <2>2 DEF AloneAt
<1>10. Alone(m, R, p, S) /\ S.circuit[p] = E
  <2>1. S = [R EXCEPT !.circuit[p] = E]
    OBVIOUS
  <2> HIDE DEF S
  <2>2. AloneAt(m, R, p, E, S)
    BY <1>3, <1>8, <2>1, CircuitAlone
  <2> QED BY <2>2 DEF AloneAt
<1> HIDE DEF M, S
<1>11. Way(n, M, c, m, S, p)
  BY <1>8, <1>10, WayNone
<1>12. Way(m, S, p, n, M, c)
  BY <1>7, <1>9, WayNone
<1> DEFINE ch2 == chat'
<1>13. Between(ch2, n, c)
  BY <1>2, <1>6, <1>7, <1>9, <1>11 DEF Between, p
<1>14. Between(ch2, m, p)
  BY <1>3, <1>6, <1>8, <1>10, <1>12 DEF Between
<1>15. /\ DOMAIN ch2 = Nodes /\ Alone(n, chat[n], c, ch2[n]) /\ Alone(m, chat[m], p, ch2[m])
       /\ \A k \in Nodes : k # n /\ k # m => ch2[k] = chat[k]
  BY <1>6, <1>9, <1>10 DEF N, R
<1> HIDE DEF ch2
<1>16. c \in Circuits /\ m = c[2] /\ p = PeerOf(n, c) /\ m # n
  BY <1>2, <1>4 DEF p
<1>17. Fine(ch2)
  BY <1>13, <1>14, <1>15, <1>16, EndsFine
<1> QED BY <1>17 DEF ch2

\* Tells is about who is there and what the circuit is.
LEMMA TellsAfter ==
    ASSUME NEW n, NEW N, NEW K, NEW M, NEW p, Tells(n, N, K, p),
           M.user = K.user, M.circuit[p] = K.circuit[p]
    PROVE  Tells(n, N, M, p)
<1>1. PICK s \in Seq(Lines) : Sends(n, N, K, p, s)
  BY DEF Tells
<1>2. /\ \A call, x : user_find(M, call, x) = user_find(K, call, x)
      /\ Linked(M, p) = Linked(K, p)
  BY DEF user_find, Linked
<1>3. Sends(n, N, M, p, s)
  BY <1>1, <1>2 DEF Sends
<1> QED BY <1>1, <1>3 DEF Tells

\* n, which was N, is M now that its end of circuit c is over.
OverHere(n, N, c, last, M) ==
    /\ Alone(n, N, c, M) /\ Users(M, c) = {}
    /\ M.circuit[c].session = IF last THEN "free" ELSE "shut"
    /\ M.circuit[c].tx = IF last THEN << >> ELSE N.circuit[c].tx

\* m, which was R, is S when the other end of its circuit p is over.
OverThere(m, R, p, S) ==
    /\ Alone(m, R, p, S) /\ S.user = R.user /\ S.circuit[p].tx = << >>
    /\ S.circuit[p].session = IF R.circuit[p].session \in {"shut", "free"} THEN "free"
                              ELSE R.circuit[p].session

\* K is what ChatDisconnected leaves of n.
LEMMA EndedHere ==
    ASSUME net \in Networks, net.tree, NEW n \in Nodes, NEW N, NodeOK(n, N), NEW c \in Circuits,
           N.circuit[c].session # "free", NEW K, Parts(n, N, c, K), NEW last \in BOOLEAN,
           NEW D, D = [K.circuit[c] EXCEPT !.session = IF last THEN "free" ELSE "shut",
                                           !.tx = IF last THEN << >> ELSE @],
           NEW M, M = [K EXCEPT !.circuit[c] = D]
    PROVE  OverHere(n, N, c, last, M)
<1>1. /\ NodeOK(n, K) /\ Users(K, c) = {} /\ K.circuit[c].rtcflags = "nil"
      /\ K.circuit[c].tx = N.circuit[c].tx
      /\ \A d \in Circuits : K.circuit[d].session = N.circuit[d].session
      /\ \A p \in Circuits \ {c} : Tells(n, N, K, p)
      /\ \A u \in K.user : u \in N.user
  BY DEF Parts
<1>2. NodeType(K) /\ K.circuit[c] \in CircuitRecs /\ K.circuit[c].tx \in Seq(Lines)
  <2>1. NodeType(K)
    BY <1>1 DEF NodeOK
  <2> QED BY <2>1, CircuitIs
<1>3. /\ D \in CircuitRecs /\ D.hnode = K.circuit[c].hnode /\ D.refcnt = K.circuit[c].refcnt
      /\ D.rtcflags = "nil" /\ D.session = (IF last THEN "free" ELSE "shut")
      /\ D.tx = IF last THEN << >> ELSE N.circuit[c].tx
  <2>1. << >> \in Seq(Lines)
    OBVIOUS
  <2> QED BY <1>1, <1>2, <2>1 DEF CircuitRecs
<1>4. Adjacent(n, c[2])
  <2>1. SessionOK(n, N.circuit[c], c)
    BY DEF NodeOK, CircuitOK
  <2> QED BY <2>1 DEF SessionOK
<1>5. SessionOK(n, D, c)
  BY <1>3, <1>4 DEF SessionOK
<1>6. Resession(n, K.circuit[c], c, D)
  BY <1>1, <1>3, <1>5 DEF Resession
<1>7. AloneAt(n, K, c, D, M)
  BY <1>1, <1>6, CircuitAlone
<1>8. Turns(K, c, D, M)
  BY <1>2, <1>3, TurnsIs
<1>9. /\ NodeOK(n, M) /\ M.user = K.user /\ M.circuit[c] = D
      /\ \A q \in Circuits : q # c => M.circuit[q] = K.circuit[q]
  BY <1>7, <1>8 DEF AloneAt, Alone, Turns
<1>10. ASSUME NEW q \in Circuits, q # c
       PROVE  Tells(n, N, M, q) /\ M.circuit[q].session = N.circuit[q].session
  <2>1. M.circuit[q] = K.circuit[q] /\ Tells(n, N, K, q)
    BY <1>1, <1>9, <1>10
  <2>2. Tells(n, N, M, q)
    BY <1>9, <2>1, TellsAfter
  <2> QED BY <1>1, <2>1, <2>2
<1>11. M.user \subseteq N.user
  BY <1>1, <1>9
<1>12. Alone(n, N, c, M)
  BY <1>9, <1>10, <1>11 DEF Alone
<1>13. Users(M, c) = {}
  BY <1>1, <1>9 DEF Users
<1> QED BY <1>3, <1>9, <1>12, <1>13 DEF OverHere

\* The other end.
LEMMA EndedThere ==
    ASSUME net \in Networks, net.tree, NEW m \in Nodes, NEW R, NodeOK(m, R), NEW p \in Circuits,
           NEW last, last = (R.circuit[p].session \in {"shut", "free"}),
           NEW E, E = Finished(R.circuit[p], last),
           NEW S, S = [R EXCEPT !.circuit[p] = E]
    PROVE  OverThere(m, R, p, S)
<1>1. R.circuit[p] \in CircuitRecs /\ SessionOK(m, R.circuit[p], p)
  <2>1. NodeType(R) /\ CircuitOK(m, R, p)
    BY DEF NodeOK
  <2> QED BY <2>1, CircuitIs DEF CircuitOK
<1>2. << >> \in Seq(Lines)
  OBVIOUS
<1>3. /\ E \in CircuitRecs /\ E.tx = << >> /\ E.hnode = R.circuit[p].hnode
      /\ E.refcnt = R.circuit[p].refcnt /\ E.rtcflags = R.circuit[p].rtcflags
      /\ E.session = IF R.circuit[p].session \in {"shut", "free"} THEN "free"
                     ELSE R.circuit[p].session
  BY <1>1, <1>2 DEF CircuitRecs, Finished
<1>4. SessionOK(m, E, p)
  BY <1>1, <1>3 DEF SessionOK
<1>5. Resession(m, R.circuit[p], p, E)
  BY <1>3, <1>4 DEF Resession
<1>6. AloneAt(m, R, p, E, S)
  BY <1>5, CircuitAlone
<1> QED BY <1>3, <1>6 DEF OverThere, AloneAt

\* All stays fine when a session ends.
LEMMA EndedFine ==
    ASSUME net \in Networks, net.tree, Fine(chat), NEW n \in Nodes, NEW c \in Circuits,
           Ended(n, c)
    PROVE  Fine(chat')
<1> DEFINE N == chat[n]
           m == c[2]
           R == chat[m]
           p == PeerOf(n, c)
           last == R.circuit[p].session \in {"shut", "free"}
           K == ChatDisconnected(N, n, c)
           X == [K EXCEPT !.circuit[c].session = IF last THEN "free" ELSE "shut",
                          !.circuit[c].tx = IF last THEN << >> ELSE @]
           D == [K.circuit[c] EXCEPT !.session = IF last THEN "free" ELSE "shut",
                                     !.tx = IF last THEN << >> ELSE @]
           E == Finished(R.circuit[p], last)
           M == [K EXCEPT !.circuit[c] = D]
           S == [R EXCEPT !.circuit[p] = E]
<1>1. /\ N.circuit[c].session \in {"closing", "lost", "open"}
      /\ chat' = [chat EXCEPT
           ![n] = X, ![m].circuit[p] = Finished(@, last)]
  BY DEF Ended, Over
<1>2. /\ NodeOK(n, N) /\ m \in Nodes /\ p \in Circuits /\ p[2] = n /\ NodeOK(m, R)
      /\ DOMAIN chat = Nodes /\ PeerOf(m, p) = c
  BY FineIs
<1>3. Adjacent(n, m) /\ m # n
  <2> HIDE DEF m, N
  <2>1. chat[n].circuit[c].session # "free" /\ m = c[2]
    BY <1>1 DEF m, N
  <2> QED BY <2>1, SessionTo
<1>4. Parts(n, N, c, K)
  BY <1>2, PartsIs
<1>5. K.circuit[c] \in CircuitRecs /\ K.circuit \in [Circuits -> CircuitRecs]
  <2>1. NodeType(K)
    BY <1>4 DEF Parts, NodeOK
  <2> HIDE DEF K
  <2> QED BY <2>1, CircuitIs
<1>6. chat' = [chat EXCEPT ![n] = M, ![m] = S]
  <2>1. K = [node |-> K.node, user |-> K.user, link |-> K.link,
             RunningConnectScript |-> K.RunningConnectScript, circuit |-> K.circuit,
             DupInfo |-> K.DupInfo, heard |-> K.heard]
    BY <1>4 DEF Parts, NodeOK, NodeType
  <2>2. X = M
    <3> HIDE DEF K, last
    <3> QED BY <1>5, <2>1
  <2> HIDE DEF M, E, X, p, m, last
  <2>3. chat' = [chat EXCEPT ![n] = X, ![m] = [R EXCEPT !.circuit[p] = E]]
    BY <1>1, <1>2, <1>3 DEF E
  <2> QED BY <2>2, <2>3
<1>7. /\ DOMAIN chat' = Nodes /\ chat'[n] = M /\ chat'[m] = S
      /\ \A k \in Nodes : k # n /\ k # m => chat'[k] = chat[k]
  <2> HIDE DEF M, S
  <2> QED BY <1>2, <1>3, <1>6
<1>8. OverHere(n, N, c, last, M)
  <2>1. N.circuit[c].session # "free"
    BY <1>1
  <2>2. last \in BOOLEAN
    OBVIOUS
  <2>3. D = [K.circuit[c] EXCEPT !.session = IF last THEN "free" ELSE "shut",
                                 !.tx = IF last THEN << >> ELSE @]
        /\ M = [K EXCEPT !.circuit[c] = D]
    OBVIOUS
  <2> HIDE DEF K, last, N, D, M
  <2> QED BY <1>2, <1>4, <2>1, <2>2, <2>3, EndedHere
<1>9. OverThere(m, R, p, S)
  <2>1. E = Finished(R.circuit[p], last) /\ S = [R EXCEPT !.circuit[p] = E]
    OBVIOUS
  <2>2. last = (R.circuit[p].session \in {"shut", "free"})
    OBVIOUS
  <2> HIDE DEF last, E, S, R, p, m
  <2> QED BY <1>2, <2>1, <2>2, EndedThere
<1> HIDE DEF M, S, E, D, K
<1>10. /\ Alone(n, N, c, M) /\ Users(M, c) = {}
       /\ M.circuit[c].session = IF last THEN "free" ELSE "shut"
       /\ M.circuit[c].tx = IF last THEN << >> ELSE N.circuit[c].tx
  BY <1>8 DEF OverHere
<1>11. /\ Alone(m, R, p, S) /\ S.user = R.user /\ S.circuit[p].tx = << >>
       /\ S.circuit[p].session = IF last THEN "free" ELSE R.circuit[p].session
  BY <1>9 DEF OverThere
<1>12. Way(n, M, c, m, S, p)
  <2>1. DOMAIN << >> = {} /\ \A call, x : ~\E u \in Users(M, c) : u.call = call /\ u.at = x
    BY <1>10, ConcatNone
  <2> QED BY <1>10, <1>11, <2>1 DEF Way
<1> DEFINE ch2 == chat'
<1>13. Way(m, ch2[m], p, n, ch2[n], c)
  <2>1. CASE last
    <3>1. M.circuit[c].tx = << >> /\ M.circuit[c].session # "open"
      BY <1>10, <2>1
    <3>2. Way(m, S, p, n, M, c)
      BY <3>1, WayNone
    <3> QED BY <1>7, <3>2
  <2>2. CASE ~last
    <3>1. M.circuit[c].tx = N.circuit[c].tx /\ M.circuit[c].session # "open" /\ NodeType(N)
      BY <1>2, <1>10, <2>2 DEF NodeOK
    <3>2. Tells(n, N, M, c)
      BY <3>1, TellsClosed
    <3>3. Fewer(R, S, p)
      BY <1>11, FewerSame
    <3>4. Tells(n, chat[n], ch2[n], c) /\ Fewer(chat[m], ch2[m], p)
      BY <1>7, <3>2, <3>3
    <3>5. Tells(p[2], chat[p[2]], ch2[p[2]], PeerOf(m, p))
      BY <1>2, <3>4
    <3> HIDE DEF ch2, p, m
    <3>6. Way(m, ch2[m], p, p[2], ch2[p[2]], PeerOf(m, p))
      BY <1>2, <3>4, <3>5, WayKeeps DEF R
    <3> QED BY <1>2, <3>6
  <2> QED BY <2>1, <2>2
<1>14. Between(ch2, n, c)
  <2>1. ch2[n].circuit[c].session # "calling"
    BY <1>7, <1>10
  <2> QED BY <1>7, <1>12, <2>1 DEF Between
<1>15. Between(ch2, m, p)
  <2>1. ch2[m].circuit[p].session # "calling"
    <3>1. SUFFICES ASSUME ch2[m].circuit[p].session = "calling"
                   PROVE  FALSE
      OBVIOUS
    <3>2. R.circuit[p].session = "calling"
      BY <1>7, <1>11, <3>1
    <3>3. Between(chat, m, p)
      BY <1>2, FineIs
    <3>4. chat[n].circuit[c].session = "free"
      BY <1>2, <3>2, <3>3 DEF Between
    <3> QED BY <1>1, <3>4
  <2> QED BY <1>2, <1>13, <2>1 DEF Between
<1>16. /\ DOMAIN ch2 = Nodes /\ Alone(n, chat[n], c, ch2[n]) /\ Alone(m, chat[m], p, ch2[m])
       /\ \A k \in Nodes : k # n /\ k # m => ch2[k] = chat[k]
  BY <1>7, <1>10, <1>11
<1>17. m = c[2] /\ p = PeerOf(n, c)
  OBVIOUS
<1> HIDE DEF ch2, m, p
<1>18. Fine(ch2)
  BY <1>3, <1>14, <1>15, <1>16, <1>17, EndsFine
<1> QED BY <1>18 DEF ch2

(***************************************************************************)
(* A node that goes down, and the start.                                   *)
(***************************************************************************)
\* A node with nothing.
Fresh(n, N) == /\ NodeOK(n, N)
               /\ \A c \in Circuits : N.circuit[c].session = "free" /\ N.circuit[c].tx = << >>

\* What a node starts with.
LEMMA NewNodeOK ==
    ASSUME NEW n \in Nodes, NEW h, NEW N,
           N = NewNode \/ N = [NewNode EXCEPT !.heard = h]
    PROVE  Fresh(n, N)
<1>1. /\ NoCircuit \in CircuitRecs /\ NoCircuit.rtcflags = "nil" /\ NoCircuit.session = "free"
      /\ NoCircuit.refcnt = 0 /\ NoCircuit.tx = << >> /\ \A x \in Nodes : NoCircuit.hnode[x] = 0
  <2>1. << >> \in Seq(Lines)
    OBVIOUS
  <2> QED BY <2>1 DEF NoCircuit, CircuitRecs
<1>2. /\ N.node = [x \in Nodes |-> 0] /\ N.user = {} /\ N.link = [m \in Nodes |-> "none"]
      /\ N.circuit = [c \in Circuits |-> NoCircuit]
      /\ N = [node |-> N.node, user |-> N.user, link |-> N.link,
              RunningConnectScript |-> N.RunningConnectScript, circuit |-> N.circuit,
              DupInfo |-> N.DupInfo, heard |-> N.heard]
  <2> HIDE DEF NoCircuit
  <2>1. CASE N = NewNode
    BY <2>1 DEF NewNode
  <2>2. CASE N = [NewNode EXCEPT !.heard = h]
    BY <2>2 DEF NewNode
  <2> QED BY <2>1, <2>2
<1>3. \A c \in Circuits : N.circuit[c] = NoCircuit
  BY <1>2
<1>4. IsFiniteSet({}) /\ Cardinality({}) = 0
  BY FS_EmptySet
<1>5. NodeType(N)
  <2>1. N.circuit \in [Circuits -> CircuitRecs]
    BY <1>1, <1>2
  <2>2. N.node \in [Nodes -> Nat]
        /\ N.link \in [Nodes -> {"none", "linkini", "linked", "failed"}]
    BY <1>2
  <2> QED BY <1>2, <1>4, <2>1, <2>2 DEF NodeType
<1>6. \A c \in Circuits : ~Linked(N, c)
  BY <1>1, <1>3 DEF Linked
<1>7. \A c : Users(N, c) = {} /\ \A x : Guests(N, c, x) = {}
  BY <1>2 DEF Users, Guests
<1>8. ASSUME NEW c \in Circuits
      PROVE  CircuitOK(n, N, c)
  <2>1. SessionOK(n, N.circuit[c], c)
    BY <1>1, <1>3 DEF SessionOK
  <2>2. /\ N.circuit[c].hnode = NoCircuit.hnode /\ N.circuit[c].refcnt = 0
        /\ \A x \in Nodes : N.circuit[c].hnode[x] = 0
    BY <1>1, <1>3
  <2> QED BY <1>4, <1>6, <1>7, <2>1, <2>2 DEF CircuitOK
<1>9. N.node[n] = Cardinality(Users(N, Local)) /\ \A x \in Nodes : N.node[x] = 0
  BY <1>2, <1>4, <1>7
<1>10. NodeOK(n, N)
  BY <1>2, <1>5, <1>6, <1>8, <1>9 DEF NodeOK
<1> QED BY <1>1, <1>3, <1>10 DEF Fresh

\* What becomes of a node when another has gone down.
Deserted(n, N, M) ==
    /\ Calm(N, M) /\ M.user = N.user
    /\ \A c \in Circuits : c[2] = n => M.circuit[c].session # "open" /\ M.circuit[c].session # "calling"
                                       /\ M.circuit[c].tx = << >>
    /\ \A c \in Circuits : c[2] # n => M.circuit[c] = N.circuit[c]

\* The neighbours of a node that goes down stay as they should be.
LEMMA DesertedIs ==
    ASSUME net \in Networks, net.tree, NEW n, NEW k, NEW N, NodeOK(k, N), NEW M,
           M = [N EXCEPT !.circuit = [c \in Circuits |-> IF c[2] = n THEN Broken(@[c]) ELSE @[c]]]
    PROVE  NodeOK(k, M) /\ Deserted(n, N, M)
<1> DEFINE f == [c \in Circuits |-> IF c[2] = n THEN Broken(N.circuit[c]) ELSE N.circuit[c]]
<1>1. NodeType(N) /\ \A c \in Circuits : SessionOK(k, N.circuit[c], c)
  BY DEF NodeOK, CircuitOK
<1>2. ASSUME NEW c \in Circuits
      PROVE  /\ f[c] \in CircuitRecs /\ f[c].hnode = N.circuit[c].hnode
             /\ f[c].refcnt = N.circuit[c].refcnt /\ f[c].rtcflags = N.circuit[c].rtcflags
             /\ SessionOK(k, f[c], c)
             /\ c[2] = n => f[c].session \in {"free", "lost"} /\ f[c].tx = << >>
             /\ c[2] # n => f[c] = N.circuit[c]
             /\ N.circuit[c].session = "free" => f[c].session = "free"
  <2>1. CASE c[2] = n
    <3>1. f[c] = Broken(N.circuit[c])
      BY <2>1
    <3> DEFINE D == f[c]
    <3> HIDE DEF D
    <3>2. /\ Resession(k, N.circuit[c], c, D) /\ D.tx = << >>
          /\ D.session \in {"free", "lost"} /\ D.rtcflags = N.circuit[c].rtcflags
          /\ N.circuit[c].session = "free" => D.session = "free"
      BY <3>1, BrokenIs DEF D
    <3> QED BY <2>1, <3>2 DEF Resession, D
  <2>2. CASE c[2] # n
    <3>1. f[c] = N.circuit[c] /\ N.circuit[c] \in CircuitRecs
      BY <1>1, <2>2, CircuitIs
    <3> QED BY <1>1, <2>2, <3>1
  <2> QED BY <2>1, <2>2
<1>3. f \in [Circuits -> CircuitRecs]
  BY <1>2
<1>4. M = [N EXCEPT !.circuit = f]
  OBVIOUS
<1> HIDE DEF f
<1>5. NodeType(M) /\ M.circuit = f /\ M.node = N.node /\ M.user = N.user
  <2>1. /\ NodeType([N EXCEPT !.circuit = f]) /\ [N EXCEPT !.circuit = f].circuit = f
        /\ SameButCircuits(N, [N EXCEPT !.circuit = f])
    BY <1>1, <1>3, CircuitsBecome
  <2> QED BY <1>4, <2>1 DEF SameButCircuits
<1>6. \A c \in Circuits : /\ M.circuit[c].hnode = N.circuit[c].hnode
                          /\ M.circuit[c].refcnt = N.circuit[c].refcnt
                          /\ Linked(M, c) = Linked(N, c)
                          /\ SessionOK(k, M.circuit[c], c)
  BY <1>2, <1>5 DEF Linked
<1>7. NodeOK(k, M)
  BY <1>5, <1>6, OnlyFlags
<1>8. ASSUME NEW c \in Circuits
      PROVE  /\ M.circuit[c].session = "calling" => N.circuit[c].session = "calling"
             /\ N.circuit[c].session = "free" => M.circuit[c].session = "free"
             /\ c[2] = n => /\ M.circuit[c].session # "open" /\ M.circuit[c].session # "calling"
                            /\ M.circuit[c].tx = << >>
             /\ c[2] # n => M.circuit[c] = N.circuit[c]
  BY <1>2, <1>5
<1> QED BY <1>5, <1>7, <1>8 DEF Deserted, Calm

\* All stays fine when a node goes down.
LEMMA CrashFine ==
    ASSUME net \in Networks, net.tree, Fine(chat), NEW n \in Nodes, Crash(n)
    PROVE  Fine(chat')
<1> DEFINE N == [NewNode EXCEPT !.heard = chat[n].heard]
           M(k) == [chat[k] EXCEPT !.circuit = [c \in Circuits |->
                        IF c[2] = n THEN Broken(@[c]) ELSE @[c]]]
           ch2 == chat'
<1>1. ch2 = [k \in Nodes |-> IF k = n THEN N ELSE M(k)]
  BY DEF Crash
<1>2. \A k \in Nodes : NodeOK(k, chat[k])
  BY DEF Fine
<1>3. /\ NodeOK(n, N)
      /\ \A c \in Circuits : N.circuit[c].session = "free" /\ N.circuit[c].tx = << >>
  <2> DEFINE h == chat[n].heard
  <2>1. N = [NewNode EXCEPT !.heard = h]
    OBVIOUS
  <2> HIDE DEF h, N
  <2>2. Fresh(n, N)
    BY <2>1, NewNodeOK
  <2> QED BY <2>2 DEF Fresh
<1>4. \A k \in Nodes : NodeOK(k, M(k)) /\ Deserted(n, chat[k], M(k))
  BY <1>2, DesertedIs
<1> HIDE DEF N, M
<1>5. DOMAIN ch2 = Nodes /\ ch2[n] = N /\ \A k \in Nodes : k # n => ch2[k] = M(k)
  BY <1>1
<1> HIDE DEF ch2
<1>6. /\ NodeOK(n, ch2[n])
      /\ \A c \in Circuits : ch2[n].circuit[c].session = "free" /\ ch2[n].circuit[c].tx = << >>
  BY <1>3, <1>5
<1>7. \A k \in Nodes : k # n => NodeOK(k, ch2[k]) /\ Deserted(n, chat[k], ch2[k])
  BY <1>4, <1>5
<1>8. \A k \in Nodes : NodeOK(k, ch2[k])
  BY <1>6, <1>7
<1>9. ASSUME NEW k \in Nodes, NEW d \in Circuits
      PROVE  Between(ch2, k, d)
  <2> DEFINE l == d[2]
             q == PeerOf(k, d)
  <2>1. l \in Nodes /\ q \in Circuits /\ q[2] = k
    BY PeerIs
  <2>2. CASE k = n \/ l = n
    <3>1. ch2[l].circuit[q].tx = << >> /\ ch2[l].circuit[q].session # "open"
      <4>1. CASE l = n
        BY <1>6, <2>1, <4>1
      <4>2. CASE l # n
        <5>1. Deserted(n, chat[l], ch2[l]) /\ q[2] = n
          BY <1>7, <2>1, <2>2, <4>2
        <5> HIDE DEF l, q
        <5> QED BY <2>1, <5>1 DEF Deserted
      <4> QED BY <4>1, <4>2
    <3>2. ch2[k].circuit[d].session # "calling"
      <4>1. CASE k = n
        BY <1>6, <4>1
      <4>2. CASE k # n
        <5>1. Deserted(n, chat[k], ch2[k]) /\ d[2] = n
          BY <1>7, <2>2, <4>2
        <5> QED BY <5>1 DEF Deserted
      <4> QED BY <4>1, <4>2
    <3>3. Way(k, ch2[k], d, l, ch2[l], q)
      <4> HIDE DEF l, q
      <4> QED BY <3>1, WayNone
    <3> QED BY <3>2, <3>3 DEF Between
  <2>3. CASE k # n /\ l # n
    <3>1. Deserted(n, chat[k], ch2[k]) /\ Deserted(n, chat[l], ch2[l])
      BY <1>7, <2>1, <2>3
    <3>2. Calm(chat[k], ch2[k]) /\ ch2[k].user = chat[k].user
      BY <3>1 DEF Deserted
    <3> HIDE DEF l, q
    <3>3. /\ Calm(chat[l], ch2[l]) /\ ch2[l].user = chat[l].user
          /\ ch2[l].circuit[q] = chat[l].circuit[q]
      BY <2>1, <2>3, <3>1 DEF Deserted
    <3>4. Fewer(chat[k], ch2[k], d)
      BY <3>2, FewerSame
    <3>5. Tells(l, chat[l], ch2[l], q)
      <4>1. NodeType(chat[l])
        BY <1>2, <2>1 DEF NodeOK
      <4>2. Linked(ch2[l], q) = Linked(chat[l], q)
        BY <3>3 DEF Linked
      <4>3. \A call, x : user_find(chat[l], call, x) => user_find(ch2[l], call, x)
        BY <3>3 DEF user_find
      <4> QED BY <2>1, <3>3, <4>1, <4>2, <4>3, TellsNone
    <3> QED BY <3>2, <3>3, <3>4, <3>5, BetweenKeeps DEF l, q
  <2> QED BY <2>2, <2>3
<1>10. Fine(ch2)
  BY <1>5, <1>8, <1>9 DEF Fine
<1> QED BY <1>10 DEF ch2

\* Nodes with nothing are as they should be.
LEMMA NewNodesFine ==
    ASSUME NEW ch, ch = [n \in Nodes |-> NewNode]
    PROVE  Fine(ch)
<1> DEFINE N == NewNode
<1>1. N = NewNode
  OBVIOUS
<1>2. /\ \A n \in Nodes : NodeOK(n, N)
      /\ \A n \in Nodes, c \in Circuits :
             N.circuit[c].session = "free" /\ N.circuit[c].tx = << >>
  <2> HIDE DEF N
  <2>1. \A n \in Nodes : Fresh(n, N)
    BY <1>1, NewNodeOK
  <2> QED BY <2>1 DEF Fresh
<1>3. DOMAIN ch = Nodes /\ \A n \in Nodes : ch[n] = N
  OBVIOUS
<1> HIDE DEF N
<1>4. ASSUME NEW n \in Nodes, NEW c \in Circuits
      PROVE  Between(ch, n, c)
  <2> DEFINE m == c[2]
             p == PeerOf(n, c)
  <2>1. m \in Nodes /\ p \in Circuits
    BY PeerIs
  <2> HIDE DEF m, p
  <2>2. ch[m].circuit[p].tx = << >> /\ ch[m].circuit[p].session # "open"
    BY <1>2, <1>3, <2>1
  <2>3. Way(n, ch[n], c, m, ch[m], p)
    BY <2>2, WayNone
  <2>4. ch[n].circuit[c].session # "calling"
    BY <1>2, <1>3
  <2> QED BY <2>3, <2>4 DEF Between, m, p
<1> QED BY <1>2, <1>3, <1>4 DEF Fine

(***************************************************************************)
(* The invariant.                                                          *)
(***************************************************************************)
\* The bound of an event is used up by one.
LEMMA SpendIs ==
    ASSUME LeftOK(left), NEW what, what # "quick", what # "says", Spend(what)
    PROVE  LeftOK(left')
BY DEF LeftOK, Spend

\* What is left to say stays so.
LEMMA SaysLeft ==
    ASSUME LeftOK(left), NEW n, Say(n)
    PROVE  LeftOK(left')
<1>1. left.says # << >> /\ left' = [left EXCEPT !.says = Tail(@)] /\ left.says \in Seq(Sayings)
  BY DEF Say, LeftOK
<1>2. Tail(left.says) \in Seq(Sayings)
  BY <1>1
<1> QED BY <1>1, <1>2 DEF LeftOK

\* The actions about two nodes.
LEMMA PairsKeep ==
    ASSUME net \in Networks, net.tree, Fine(chat), LeftOK(left), NEW n \in Nodes, NEW m \in Nodes,
           MakeLink(n, m) \/ Reaches(n, m) \/ ConnectFails(n, m) \/ Breaks(n, m)
    PROVE  Fine(chat') /\ LeftOK(left') /\ net' = net
<1>1. CASE MakeLink(n, m)
  <2>1. net' = net /\ (left' = left \/ Spend("crossings"))
    BY <1>1 DEF MakeLink
  <2>2. LeftOK(left')
    BY <2>1, SpendIs
  <2> QED BY <1>1, <2>1, <2>2, MakeLinkFine
<1>2. CASE Reaches(n, m)
  <2>1. net' = net /\ left' = left
    BY <1>2 DEF Reaches
  <2> QED BY <1>2, <2>1, ReachesFine
<1>3. CASE ConnectFails(n, m)
  <2>1. net' = net /\ Spend("fails")
    BY <1>3 DEF ConnectFails
  <2>2. LeftOK(left')
    BY <2>1, SpendIs
  <2> QED BY <1>3, <2>1, <2>2, ConnectFailsFine
<1>4. CASE Breaks(n, m)
  <2>1. net' = net /\ Spend("breaks")
    BY <1>4 DEF Breaks
  <2>2. LeftOK(left')
    BY <2>1, SpendIs
  <2> QED BY <1>4, <2>1, <2>2, BreaksFine
<1> QED BY <1>1, <1>2, <1>3, <1>4

\* The actions about a circuit.
LEMMA CircuitsKeep ==
    ASSUME net \in Networks, net.tree, Fine(chat), LeftOK(left), NEW n \in Nodes,
           NEW c \in Circuits,
           HearRTL(n, c) \/ HearOK(n, c) \/ HearLine(n, c) \/ TooSoon(n, c) \/ Ended(n, c)
    PROVE  Fine(chat') /\ LeftOK(left') /\ net' = net
<1>1. CASE HearRTL(n, c)
  <2>1. net' = net /\ left' = left
    BY <1>1 DEF HearRTL
  <2> QED BY <1>1, <2>1, HearRTLFine
<1>2. CASE HearOK(n, c)
  <2>1. net' = net /\ left' = left
    BY <1>2 DEF HearOK
  <2> QED BY <1>2, <2>1, HearOKFine
<1>3. CASE HearLine(n, c)
  <2>1. net' = net /\ left' = left
    BY <1>3 DEF HearLine
  <2> QED BY <1>3, <2>1, HearLineFine
<1>4. CASE TooSoon(n, c)
  <2>1. left.quick > 0
    BY <1>4 DEF TooSoon, Spend
  <2> QED BY <2>1 DEF LeftOK
<1>5. CASE Ended(n, c)
  <2>1. net' = net /\ left' = left
    BY <1>5 DEF Ended
  <2> QED BY <1>5, <2>1, EndedFine
<1> QED BY <1>1, <1>2, <1>3, <1>4, <1>5

\* The other actions.
LEMMA NodesKeep ==
    ASSUME net \in Networks, net.tree, Fine(chat), LeftOK(left), NEW n \in Nodes,
           ScriptTimesOut(n) \/ NodeClose(n) \/ Crash(n) \/ Logout(n) \/ Say(n)
    PROVE  Fine(chat') /\ LeftOK(left') /\ net' = net
<1>1. CASE ScriptTimesOut(n)
  <2>1. net' = net /\ (left' = left \/ Spend("fails"))
    BY <1>1 DEF ScriptTimesOut
  <2>2. LeftOK(left')
    BY <2>1, SpendIs
  <2> QED BY <1>1, <2>1, <2>2, ScriptTimesOutFine
<1>2. CASE NodeClose(n)
  <2>1. net' = net /\ (left' = left \/ Spend("ticks"))
    BY <1>2 DEF NodeClose
  <2>2. LeftOK(left')
    BY <2>1, SpendIs
  <2> QED BY <1>2, <2>1, <2>2, NodeCloseFine
<1>3. CASE Crash(n)
  <2>1. net' = net /\ Spend("crashes")
    BY <1>3 DEF Crash
  <2>2. LeftOK(left')
    BY <2>1, SpendIs
  <2> QED BY <1>3, <2>1, <2>2, CrashFine
<1>4. CASE Logout(n)
  <2>1. net' = net /\ Spend("logouts")
    BY <1>4 DEF Logout
  <2>2. LeftOK(left')
    BY <2>1, SpendIs
  <2> QED BY <1>4, <2>1, <2>2, LogoutFine
<1>5. CASE Say(n)
  <2>1. net' = net
    BY <1>5 DEF Say
  <2>2. LeftOK(left') /\ left.says \in Seq(Sayings)
    BY <1>5, SaysLeft DEF LeftOK
  <2> QED BY <1>5, <2>1, <2>2, SayFine
<1> QED BY <1>1, <1>2, <1>3, <1>4, <1>5

\* A step keeps what is fine.
LEMMA StepKeeps ==
    ASSUME net \in Networks, net.tree, TreeInv, Next
    PROVE  Fine(chat') /\ LeftOK(left')
<1>1. Fine(chat) /\ LeftOK(left)
  BY DEF TreeInv
<1>2. CASE \E n, m \in Nodes : MakeLink(n, m) \/ Reaches(n, m) \/ ConnectFails(n, m)
                               \/ Breaks(n, m)
  BY <1>1, <1>2, PairsKeep
<1>3. CASE \E n \in Nodes, c \in Circuits :
               HearRTL(n, c) \/ HearOK(n, c) \/ HearLine(n, c) \/ TooSoon(n, c) \/ Ended(n, c)
  BY <1>1, <1>3, CircuitsKeep
<1>4. CASE \E n \in Nodes : ScriptTimesOut(n) \/ NodeClose(n) \/ Crash(n) \/ Logout(n) \/ Say(n)
  BY <1>1, <1>4, NodesKeep
<1>5. CASE \E n \in Nodes, call \in Calls : Login(n, call)
  <2>1. PICK n \in Nodes, call \in Calls : Login(n, call)
    BY <1>5
  <2>2. Spend("logins")
    BY <2>1 DEF Login
  <2>3. LeftOK(left')
    BY <1>1, <2>2, SpendIs
  <2> QED BY <1>1, <2>1, <2>3, LoginFine
<1>6. CASE \E n \in Nodes, topic \in Topics : ChangeTopic(n, topic)
  <2>1. PICK n \in Nodes, topic \in Topics : ChangeTopic(n, topic)
    BY <1>6
  <2>2. Spend("topics")
    BY <2>1 DEF ChangeTopic
  <2>3. LeftOK(left')
    BY <1>1, <2>2, SpendIs
  <2> QED BY <1>1, <2>1, <2>3, ChangeTopicFine
<1> QED BY <1>2, <1>3, <1>4, <1>5, <1>6 DEF Next

\* No step changes the network.
LEMMA NetStays ==
    ASSUME [Next]_vars
    PROVE  net' = net
<1>1. CASE UNCHANGED vars
  BY <1>1 DEF vars
<1>2. CASE Next
  <2>1. ASSUME NEW n \in Nodes, NEW m \in Nodes,
               MakeLink(n, m) \/ Reaches(n, m) \/ ConnectFails(n, m) \/ Breaks(n, m)
        PROVE  net' = net
    <3>1. CASE MakeLink(n, m)
      BY <3>1 DEF MakeLink
    <3>2. CASE Reaches(n, m)
      BY <3>2 DEF Reaches
    <3>3. CASE ConnectFails(n, m)
      BY <3>3 DEF ConnectFails
    <3>4. CASE Breaks(n, m)
      BY <3>4 DEF Breaks
    <3> QED BY <2>1, <3>1, <3>2, <3>3, <3>4
  <2>2. ASSUME NEW n \in Nodes, NEW c \in Circuits,
               HearRTL(n, c) \/ HearOK(n, c) \/ HearLine(n, c) \/ TooSoon(n, c) \/ Ended(n, c)
        PROVE  net' = net
    <3>1. CASE HearRTL(n, c)
      BY <3>1 DEF HearRTL
    <3>2. CASE HearOK(n, c)
      BY <3>2 DEF HearOK
    <3>3. CASE HearLine(n, c)
      BY <3>3 DEF HearLine
    <3>4. CASE TooSoon(n, c)
      BY <3>4 DEF TooSoon
    <3>5. CASE Ended(n, c)
      BY <3>5 DEF Ended
    <3> QED BY <2>2, <3>1, <3>2, <3>3, <3>4, <3>5
  <2>3. \A n \in Nodes : ScriptTimesOut(n) \/ NodeClose(n) \/ Crash(n) \/ Logout(n) \/ Say(n)
                => net' = net
    BY DEF ScriptTimesOut, NodeClose, Crash, Logout, Say
  <2>4. \A n \in Nodes, call \in Calls : Login(n, call) => net' = net
    BY DEF Login
  <2>5. \A n \in Nodes, topic \in Topics : ChangeTopic(n, topic) => net' = net
    BY DEF ChangeTopic
  <2> QED BY <1>2, <2>1, <2>2, <2>3, <2>4, <2>5 DEF Next
<1> QED BY <1>1, <1>2

\* What is fine in a network is so as long as the network is the same.
LEMMA FineStays ==
    ASSUME net' = net, Fine(chat')
    PROVE  Fine(chat)'
<1>1. \A n, m : Adjacent(n, m)' <=> Adjacent(n, m)
  BY DEF Adjacent
<1>2. \A n, m : Behind(n, m)' = Behind(n, m)
  BY DEF Behind
<1>3. ASSUME NEW n, NEW C, NEW c, SessionOK(n, C, c)
      PROVE  SessionOK(n, C, c)'
  BY <1>1, <1>3 DEF SessionOK
<1>4. ASSUME NEW n, NEW N, NEW c, CircuitOK(n, N, c)
      PROVE  CircuitOK(n, N, c)'
  BY <1>2, <1>3, <1>4 DEF CircuitOK
<1>5. ASSUME NEW n, NEW N, NodeOK(n, N)
      PROVE  NodeOK(n, N)'
  BY <1>4, <1>5 DEF NodeOK
<1>6. ASSUME NEW n, NEW m, NEW L, FromSide(n, m, L)
      PROVE  FromSide(n, m, L)'
  BY <1>2, <1>6 DEF FromSide
<1>7. ASSUME NEW n, NEW R, NEW c, NEW m, NEW N, NEW p, Way(n, R, c, m, N, p)
      PROVE  Way(n, R, c, m, N, p)'
  BY <1>6, <1>7 DEF Way
<1>8. \A n \in Nodes : NodeOK(n, chat[n])'
  BY <1>5 DEF Fine
<1>9. \A n \in Nodes, c \in Circuits : Between(chat, n, c)'
  BY <1>7 DEF Fine, Between
<1> QED BY <1>8, <1>9 DEF Fine

(***************************************************************************)
(* The start.                                                              *)
(***************************************************************************)
\* In a network without loops every node starts with nobody on it (AtStart).
LEMMA StartIs ==
    ASSUME net \in Networks, net.tree, NEW n
    PROVE  AtStart(n) = NewNode
<1> DEFINE S == {call \in Calls : << n, call >> \in net.here}
           SRec(g) == [x \in SUBSET S |->
               IF x = {} THEN NewNode ELSE rtloginu(g[x \ {AnyOf(x)}], n, AnyOf(x))]
           users == (CHOOSE g : g = SRec(g))[S]
           T == {c \in Circuits : (IF c[1] = "out" THEN << n, c[2] >>
                                   ELSE << c[2], n >>) \in net.up}
           TRec(g) == [x \in SUBSET T |->
               IF x = {} THEN users ELSE LinkedAlready(g[x \ {AnyOf(x)}], n, AnyOf(x))]
<1>1. net.here = {} /\ net.up = {}
  BY NetworkAssumption
<1>2. S = {} /\ T = {}
  BY <1>1
<1>3. AtStart(n) = (CHOOSE g : g = TRec(g))[T]
  BY DEF AtStart, FoldSet, MapThenFoldSet, AnyOf
<1>4. users = NewNode
  <2> DEFINE f == [x \in SUBSET S |-> NewNode]
             i == CHOOSE g : g = SRec(g)
  <2>1. f = SRec(f)
    <3>1. \A x \in SUBSET S : x = {}
      BY <1>2
    <3> HIDE DEF S
    <3> QED BY <3>1
  <2>2. i = SRec(i)
    BY <2>1
  <2>3. i[S] = NewNode
    <3> HIDE DEF i
    <3>1. i[S] = IF S = {} THEN NewNode ELSE rtloginu(i[S \ {AnyOf(S)}], n, AnyOf(S))
      <4> HIDE DEF S
      <4> QED BY <2>2
    <3> QED BY <3>1, <1>2
  <2> QED BY <2>3
<1>5. (CHOOSE g : g = TRec(g))[T] = users
  <2> HIDE DEF users
  <2> DEFINE f == [x \in SUBSET T |-> users]
             i == CHOOSE g : g = TRec(g)
  <2>1. f = TRec(f)
    <3>1. \A x \in SUBSET T : x = {}
      BY <1>2
    <3> HIDE DEF T
    <3> QED BY <3>1
  <2>2. i = TRec(i)
    BY <2>1
  <2>3. i[T] = users
    <3> HIDE DEF i
    <3>1. i[T] = IF T = {} THEN users ELSE LinkedAlready(i[T \ {AnyOf(T)}], n, AnyOf(T))
      <4> HIDE DEF T
      <4> QED BY <2>2
    <3> QED BY <3>1, <1>2
  <2> QED BY <2>3
<1> QED
  <2> HIDE DEF users, T, TRec
  <2> QED BY <1>3, <1>4, <1>5

\* The invariant holds at the start.
LEMMA InitFine ==
    ASSUME Init
    PROVE  IInv
<1>1. net \in Networks /\ left = net.max /\ chat = [n \in Nodes |-> AtStart(n)]
  BY DEF Init
<1>2. ASSUME Exact
      PROVE  TreeInv
  <2>1. net.tree /\ net.max.quick = 0
    BY <1>2 DEF Exact
  <2>2. \A n : AtStart(n) = NewNode
    BY <1>1, <2>1, StartIs
  <2>3. chat = [n \in Nodes |-> NewNode]
    BY <1>1, <2>2
  <2>4. Fine(chat)
    BY <2>3, NewNodesFine
  <2>5. LeftOK(left)
    BY <1>1, <2>1, NetworkAssumption DEF LeftOK, Sayings, Texts
  <2> QED BY <2>4, <2>5 DEF TreeInv
<1> QED BY <1>1, <1>2 DEF IInv

\* And every step keeps it.
LEMMA NextFine ==
    ASSUME IInv, [Next]_vars
    PROVE  IInv'
<1>1. net' = net /\ net \in Networks
  BY NetStays DEF IInv
<1>2. Exact' <=> Exact
  BY <1>1 DEF Exact
<1>3. ASSUME Exact
      PROVE  TreeInv'
  <2>1. net.tree /\ TreeInv
    BY <1>3 DEF IInv, Exact
  <2>2. Fine(chat') /\ LeftOK(left')
    <3>1. CASE UNCHANGED vars
      BY <2>1, <3>1 DEF vars, TreeInv
    <3>2. CASE Next
      BY <1>1, <2>1, <3>2, StepKeeps
    <3> QED BY <3>1, <3>2
  <2>3. Fine(chat)'
    BY <1>1, <2>2, FineStays
  <2>4. LeftOK(left)'
    BY <2>2 DEF LeftOK
  <2> QED BY <2>3, <2>4 DEF TreeInv
<1> QED BY <1>1, <1>2, <1>3 DEF IInv

(***************************************************************************)
(* The invariant says that the counts are right.                           *)
(***************************************************************************)
LEMMA CircuitsFinite == IsFiniteSet(Circuits)
<1>1. IsFiniteSet({"out"})
  BY FS_Singleton
<1>2. IsFiniteSet({"out"} \cup {"in"})
  BY <1>1, FS_AddElement
<1>3. {"out", "in"} = {"out"} \cup {"in"}
  OBVIOUS
<1> QED BY <1>2, <1>3, TopicAssumption, FS_Product DEF Circuits

\* At most one circuit reaches a node, and its count is the sum of all.
LEMMA LinkRefsIs ==
    ASSUME NEW N, NEW x, NEW c \in Circuits, N.circuit[c].hnode[x] \in Nat,
           \A d \in Circuits : d # c => N.circuit[d].hnode[x] = 0
    PROVE  LinkRefs(N, x) = N.circuit[c].hnode[x]
<1> DEFINE h == N.circuit[c].hnode[x]
           Rec(g) == [s \in SUBSET Circuits |->
               IF s = {} THEN 0 ELSE N.circuit[AnyOf(s)].hnode[x] + g[s \ {AnyOf(s)}]]
           iter == CHOOSE g : g = Rec(g)
           f == [s \in SUBSET Circuits |-> IF c \in s THEN h ELSE 0]
<1>1. LinkRefs(N, x) = iter[Circuits]
  BY DEF LinkRefs, MapThenSumSet, MapThenFoldSet, AnyOf
<1>2. f = Rec(f)
  <2>1. ASSUME NEW s \in SUBSET Circuits, s # {}
        PROVE  f[s] = N.circuit[AnyOf(s)].hnode[x] + f[s \ {AnyOf(s)}]
    <3>1. AnyOf(s) \in s /\ s \ {AnyOf(s)} \in SUBSET Circuits
      BY <2>1 DEF AnyOf
    <3>2. CASE AnyOf(s) = c
      BY <3>1, <3>2
    <3>3. CASE AnyOf(s) # c
      <4>1. N.circuit[AnyOf(s)].hnode[x] = 0
        BY <3>1, <3>3
      <4>2. f[s] = f[s \ {AnyOf(s)}] /\ f[s] \in Nat
        BY <3>1, <3>3
      <4> HIDE DEF f
      <4> QED BY <4>1, <4>2
    <3> QED BY <3>2, <3>3
  <2>2. f[{}] = 0
    OBVIOUS
  <2> HIDE DEF h
  <2> QED BY <2>1, <2>2
<1>3. iter = Rec(iter)
  BY <1>2
<1> DEFINE St == {1}
           ok == [s \in SUBSET Circuits |-> IF iter[s] = f[s] THEN 1 ELSE 0]
<1>4. ok[{}] \in St
  <2>1. iter[{}] = 0
    <3> HIDE DEF iter
    <3> QED BY <1>3
  <2> HIDE DEF iter
  <2> QED BY <2>1
<1>5. ASSUME NEW s \in SUBSET Circuits, s # {}, ok[s \ {AnyOf(s)}] \in St
      PROVE  ok[s] \in St
  <2>1. iter[s \ {AnyOf(s)}] = f[s \ {AnyOf(s)}]
    <3> HIDE DEF iter, f
    <3> QED BY <1>5
  <2>2. iter[s] = N.circuit[AnyOf(s)].hnode[x] + iter[s \ {AnyOf(s)}]
    <3> HIDE DEF iter
    <3> QED BY <1>3, <1>5
  <2>3. f[s] = N.circuit[AnyOf(s)].hnode[x] + f[s \ {AnyOf(s)}]
    <3> HIDE DEF f
    <3> QED BY <1>2, <1>5
  <2> HIDE DEF iter, f
  <2> QED BY <2>1, <2>2, <2>3
<1>6. ok[Circuits] \in St
  <2> HIDE DEF ok, St
  <2> QED BY <1>4, <1>5, CircuitsFinite, SetFoldKeeps
<1>7. iter[Circuits] = f[Circuits]
  <2> HIDE DEF iter, f
  <2> QED BY <1>6
<1> HIDE DEF iter
<1> QED BY <1>1, <1>7

\* A node that no circuit reaches.
LEMMA LinkRefsNone ==
    ASSUME NEW N, NEW x \in Nodes, \A d \in Circuits : N.circuit[d].hnode[x] = 0
    PROVE  LinkRefs(N, x) = 0
<1>1. << "out", x >> \in Circuits
  BY DEF Circuits
<1> QED BY <1>1, LinkRefsIs

\* The count of a node is right.
LEMMA NodeCount ==
    ASSUME net \in Networks, net.tree, NEW n \in Nodes, NEW N, NodeOK(n, N), NEW x \in Nodes
    PROVE  N.node[x] = Cardinality({u \in Users(N, Local) : u.at = x}) + LinkRefs(N, x)
<1> DEFINE here == {u \in Users(N, Local) : u.at = x}
<1>1. N.node[x] \in Nat
  BY DEF NodeOK, NodeType
<1>2. \A c \in Circuits : N.circuit[c].hnode[x] \in Nat
  BY CircuitIs DEF NodeOK
<1>3. \A u \in Users(N, Local) : u.at = n
  BY UserIs DEF Users
<1>4. CASE x = n
  <2>1. here = Users(N, Local)
    BY <1>3, <1>4
  <2>2. N.node[x] = Cardinality(here)
    BY <1>4, <2>1 DEF NodeOK
  <2>3. ASSUME NEW d \in Circuits
        PROVE  N.circuit[d].hnode[x] = 0
    <3>1. N.circuit[d].hnode[x] > 0 => Linked(N, d) /\ x \in Behind(n, d[2])
      BY LinkedIs
    <3>2. Linked(N, d) /\ x \in Behind(n, d[2]) => x # n
      BY ReachedOnce
    <3> QED BY <1>2, <1>4, <3>1, <3>2
  <2>4. LinkRefs(N, x) = 0
    BY <2>3, LinkRefsNone
  <2>5. N.node[x] = Cardinality(here) + LinkRefs(N, x)
    <3> HIDE DEF here
    <3> QED BY <1>1, <2>2, <2>4
  <2> QED BY <2>5
<1>5. CASE x # n
  <2>1. here = {}
    BY <1>3, <1>5
  <2>2. Cardinality(here) = 0
    <3> HIDE DEF here
    <3> QED BY <2>1, FS_EmptySet
  <2>3. N.node[x] = LinkRefs(N, x)
    <3>1. CASE N.node[x] = 0
      <4>1. \A c \in Circuits : N.circuit[c].hnode[x] = 0
        BY <3>1, NobodyThere
      <4> QED BY <3>1, <4>1, LinkRefsNone
    <3>2. CASE N.node[x] > 0
      <4>1. PICK c \in Circuits : N.circuit[c].hnode[x] > 0
        BY <1>5, <3>2 DEF NodeOK
      <4>2. Linked(N, c) /\ x \in Behind(n, c[2]) /\ N.node[x] = N.circuit[c].hnode[x]
        BY <4>1, LinkedIs
      <4>3. \A d \in Circuits : N.circuit[d].hnode[x] > 0 => d = c
        BY <4>2, ReachedOnce
      <4>4. \A d \in Circuits : d # c => N.circuit[d].hnode[x] = 0
        BY <1>2, <4>3
      <4>5. LinkRefs(N, x) = N.circuit[c].hnode[x]
        BY <1>2, <4>4, LinkRefsIs
      <4> QED BY <4>2, <4>5
    <3> QED BY <1>1, <3>1, <3>2
  <2>4. N.node[x] = Cardinality(here) + LinkRefs(N, x)
    <3> HIDE DEF here
    <3> QED BY <1>1, <2>2, <2>3
  <2> QED BY <2>4
<1> QED BY <1>4, <1>5

\* And so are the counts of a circuit.
LEMMA CircuitCount ==
    ASSUME NEW n, NEW N, NodeOK(n, N), NEW x \in Nodes, NEW c \in Circuits
    PROVE  LET at == Cardinality({u \in Users(N, c) : u.at = x})
           IN  /\ N.circuit[c].refcnt = Cardinality(Users(N, c))
               /\ N.circuit[c].hnode[x] \in IF at = 0 THEN {0, 1} ELSE {at + 1}
<1>1. CircuitOK(n, N, c) /\ IsFiniteSet(N.user)
  BY DEF NodeOK, NodeType
<1>2. {u \in Users(N, c) : u.at = x} = Guests(N, c, x)
  BY DEF Users, Guests
<1>3. IsFiniteSet(Guests(N, c, x))
  <2>1. Guests(N, c, x) \subseteq N.user
    BY DEF Guests
  <2> QED BY <1>1, <2>1, FS_Subset
<1>4. Cardinality(Guests(N, c, x)) = 0 <=> Guests(N, c, x) = {}
  BY <1>3, FS_EmptySet
<1>5. N.circuit[c].hnode[x] \in IF Guests(N, c, x) = {} THEN {0, 1}
                                ELSE {Cardinality(Guests(N, c, x)) + 1}
  BY <1>1 DEF CircuitOK
<1>6. N.circuit[c].refcnt = Cardinality(Users(N, c))
  BY <1>1 DEF CircuitOK
<1> QED BY <1>2, <1>4, <1>5, <1>6

\* The invariant says that the counts agree.
LEMMA InvCounts ==
    ASSUME IInv
    PROVE  CountsAgree
<1> SUFFICES ASSUME Exact, NEW n \in Nodes, NEW x \in Nodes
             PROVE  /\ chat[n].node[x] =
                         Cardinality({u \in Users(chat[n], Local) : u.at = x}) + LinkRefs(chat[n], x)
                    /\ \A c \in Circuits :
                         /\ chat[n].circuit[c].refcnt = Cardinality(Users(chat[n], c))
                         /\ chat[n].circuit[c].hnode[x] \in
                              IF Cardinality({u \in Users(chat[n], c) : u.at = x}) = 0 THEN {0, 1}
                              ELSE {Cardinality({u \in Users(chat[n], c) : u.at = x}) + 1}
  BY DEF CountsAgree
<1>1. net \in Networks /\ net.tree /\ NodeOK(n, chat[n])
  BY DEF IInv, TreeInv, Fine, Exact
<1>2. chat[n].node[x] =
         Cardinality({u \in Users(chat[n], Local) : u.at = x}) + LinkRefs(chat[n], x)
  BY <1>1, NodeCount
<1>3. ASSUME NEW c \in Circuits
      PROVE  LET at == Cardinality({u \in Users(chat[n], c) : u.at = x})
             IN  /\ chat[n].circuit[c].refcnt = Cardinality(Users(chat[n], c))
                 /\ chat[n].circuit[c].hnode[x] \in IF at = 0 THEN {0, 1} ELSE {at + 1}
  BY <1>1, CircuitCount
<1> QED BY <1>2, <1>3

\* In a network without loops the reference counts of the nodes, the circuits and
\* what these reach are exact, whatever links came up, broke or were closed and
\* whichever nodes went down, in any order (HanksRT.c: node_inc, node_dec, cn_inc,
\* cn_dec, refcnt in chkctl and link_drop).
THEOREM CountsRight == Spec => []CountsAgree
<1>1. Init => IInv
  BY InitFine
<1>2. IInv /\ [Next]_vars => IInv'
  BY NextFine
<1>3. IInv => CountsAgree
  BY InvCounts
<1> QED BY <1>1, <1>2, <1>3, PTL DEF Spec
=============================================================================
