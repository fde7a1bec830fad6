--------------------------- MODULE L3RoutesProofs ---------------------------
(***************************************************************************)
(* That the tables of L3Routes stay in order, whatever the network: the    *)
(* routes of a destination are ranked and each is by way of another        *)
(* neighbour, and nothing points to a neighbour that is deleted.  Both     *)
(* are properties of the tables of one node; each routine keeps them.      *)
(***************************************************************************)
EXTENDS L3Routes, FoldProofs, SequenceTheorems

\* What an entry of DESTS is.
Dests == [NRROUTE : Seq(Entries), DEST_ROUTE : 0..255, DEST_Q : Seq(Messages)]
DestOK(D) == /\ D \in Dests /\ Ranked(D.NRROUTE)
             /\ D.NRROUTE = << >> => D = NoDest

\* What one node keeps.
Routes == [used : BOOLEAN, LINK : BOOLEAN]
Links  == [L2STATE : {0, 2, 4, 5}, NEIGHBOUR : BOOLEAN, crosslink : BOOLEAN,
           TX_Q : Seq(Messages)]
Tables == [dest : [Nodes -> Dests], ROUTE : [Nodes -> Routes], LINK : [Nodes -> Links]]

\* The neighbours of s.
Vias(s) == {s[i].via : i \in DOMAIN s}

\* Every neighbour by way of which there is a route exists, and so does every one
\* that has a link; a link that will tell level 3 of its end is known there.
Rooted(dest, R) == \A d, m \in Nodes : m \in Vias(dest[d].NRROUTE) => R[m].used
Linked(R, L) == \A m \in Nodes : /\ R[m].LINK => R[m].used
                                 /\ L[m].NEIGHBOUR => R[m].LINK

NodeOK(N) == /\ N \in Tables /\ \A d \in Nodes : DestOK(N.dest[d])
             /\ Rooted(N.dest, N.ROUTE) /\ Linked(N.ROUTE, N.LINK)

AllOK(f) == f \in [Nodes -> Tables] /\ \A n \in Nodes : NodeOK(f[n])

\* The inductive invariant: every node's tables are in order.
IInv == up \subseteq net.nodes /\ due \subseteq up /\ AllOK(node)

-----------------------------------------------------------------------------
(* The routes of a destination.                                            *)

\* The fields of an entry.
LEMMA EntryFacts ==
    ASSUME NEW s \in Seq(Entries)
    PROVE  /\ DOMAIN s = 1..Len(s) /\ Len(s) \in Nat
           /\ \A i \in DOMAIN s : /\ s[i] \in Entries /\ s[i].via \in Nodes
                                  /\ s[i].quality \in 0..255 /\ s[i].quality \in Int
                                  /\ s[i].obs \in 0..255 /\ s[i].obs \in Int
<1>1. \A e \in Entries : /\ e.via \in Nodes /\ e.quality \in 0..255 /\ e.obs \in 0..255
                         /\ e.quality \in Int /\ e.obs \in Int
  <2>1. \A e \in Entries : e.via \in Nodes /\ e.quality \in 0..255 /\ e.obs \in 0..255
    BY DEF Entries
  <2>2. \A q \in 0..255 : q \in Int
    OBVIOUS
  <2> QED BY <2>1, <2>2
<1>2. DOMAIN s = 1..Len(s) /\ Len(s) \in Nat /\ \A i \in DOMAIN s : s[i] \in Entries
  OBVIOUS
<1> QED
  BY <1>1, <1>2

LEMMA ViaFacts ==
    ASSUME NEW s \in Seq(Entries), NEW m
    PROVE  /\ Via(s, m) \subseteq DOMAIN s
           /\ DOMAIN s = 1..Len(s) /\ Len(s) \in Nat
           /\ Via(s, m) # {} => Min(Via(s, m)) \in Via(s, m)
<1>1. DOMAIN s = 1..Len(s) /\ Len(s) \in Nat
  OBVIOUS
<1>2. Via(s, m) \subseteq DOMAIN s /\ Via(s, m) \in SUBSET Nat
  BY <1>1 DEF Via
<1> QED
  BY <1>1, <1>2, MinIsLeast

\* The entries of a destination, in any order, each by way of another neighbour.
Distinct(s) == /\ s \in Seq(Entries) /\ Len(s) <= 3
               /\ \A i, j \in DOMAIN s : i # j => s[i].via # s[j].via

LEMMA SwapKeeps ==
    ASSUME NEW s, Distinct(s), NEW i \in {1, 2}
    PROVE  /\ Distinct(Swap(s, i)) /\ Len(Swap(s, i)) = Len(s)
           /\ Vias(Swap(s, i)) = Vias(s)
           /\ Swap(s, i) = IF i + 1 \in DOMAIN s /\ s[i + 1].quality > s[i].quality
                           THEN [s EXCEPT ![i] = s[i + 1], ![i + 1] = s[i]] ELSE s
<1>1. DOMAIN s = 1..Len(s) /\ Len(s) \in Nat
  BY DEF Distinct
<1>2. CASE i + 1 \in DOMAIN s /\ s[i + 1].quality > s[i].quality
  <2> DEFINE t == [s EXCEPT ![i] = s[i + 1], ![i + 1] = s[i]]
  <2>1. Swap(s, i) = t
    BY <1>2 DEF Swap
  <2>2. i \in DOMAIN s /\ i + 1 \in DOMAIN s
    BY <1>1, <1>2
  <2>3. t \in Seq(Entries) /\ Len(t) = Len(s)
    BY <2>2, <1>1 DEF Distinct
  <2>4. \A k \in DOMAIN s : t[k] = IF k = i THEN s[i + 1] ELSE IF k = i + 1 THEN s[i] ELSE s[k]
    BY <2>2, <1>1
  <2>5. Distinct(t)
    BY <2>2, <2>3, <2>4, <1>1 DEF Distinct
  <2>6. Vias(t) = Vias(s)
    <3>1. DOMAIN t = DOMAIN s
      OBVIOUS
    <3>2. ASSUME NEW v \in Vias(s) PROVE v \in Vias(t)
      <4>1. PICK k \in DOMAIN s : v = s[k].via
        BY DEF Vias
      <4>2. CASE k = i
        BY <4>1, <4>2, <2>2, <2>4, <3>1, <1>1 DEF Vias
      <4>3. CASE k = i + 1
        BY <4>1, <4>3, <2>2, <2>4, <3>1, <1>1 DEF Vias
      <4>4. CASE k # i /\ k # i + 1
        BY <4>1, <4>4, <2>4, <3>1 DEF Vias
      <4> QED BY <4>2, <4>3, <4>4
    <3>3. ASSUME NEW v \in Vias(t) PROVE v \in Vias(s)
      BY <2>2, <2>4, <3>1 DEF Vias
    <3> QED BY <3>2, <3>3
  <2> QED
    BY <2>1, <2>3, <2>5, <2>6, <1>2
<1>3. CASE ~ (i + 1 \in DOMAIN s /\ s[i + 1].quality > s[i].quality)
  <2>1. Swap(s, i) = s
    BY <1>3 DEF Swap
  <2> QED BY <2>1, <1>3
<1> QED BY <1>2, <1>3

\* Three swaps sort three entries.
LEMMA SortedRanks ==
    ASSUME NEW s, Distinct(s)
    PROVE  Ranked(Sorted(s)) /\ Len(Sorted(s)) = Len(s) /\ Vias(Sorted(s)) = Vias(s)
<1> DEFINE t == Swap(s, 1)
           u == Swap(t, 2)
           w == Swap(u, 1)
<1>1. /\ Distinct(t) /\ Len(t) = Len(s) /\ Vias(t) = Vias(s)
      /\ t = IF 2 \in DOMAIN s /\ s[2].quality > s[1].quality
             THEN [s EXCEPT ![1] = s[2], ![2] = s[1]] ELSE s
  BY SwapKeeps
<1>2. /\ Distinct(u) /\ Len(u) = Len(t) /\ Vias(u) = Vias(t)
      /\ u = IF 3 \in DOMAIN t /\ t[3].quality > t[2].quality
             THEN [t EXCEPT ![2] = t[3], ![3] = t[2]] ELSE t
  <2>1. Distinct(t)
    BY <1>1
  <2> HIDE DEF t
  <2>2. /\ Distinct(Swap(t, 2)) /\ Len(Swap(t, 2)) = Len(t) /\ Vias(Swap(t, 2)) = Vias(t)
        /\ Swap(t, 2) = IF 2 + 1 \in DOMAIN t /\ t[2 + 1].quality > t[2].quality
                        THEN [t EXCEPT ![2] = t[2 + 1], ![2 + 1] = t[2]] ELSE t
    <3> HIDE DEF u
    <3> QED BY <2>1, 2 \in {1, 2}, SwapKeeps
  <2> QED BY <2>2
<1>3. /\ Distinct(w) /\ Len(w) = Len(u) /\ Vias(w) = Vias(u)
      /\ w = IF 2 \in DOMAIN u /\ u[2].quality > u[1].quality
             THEN [u EXCEPT ![1] = u[2], ![2] = u[1]] ELSE u
  <2>1. Distinct(u)
    BY <1>2
  <2> HIDE DEF t, u
  <2>2. /\ Distinct(Swap(u, 1)) /\ Len(Swap(u, 1)) = Len(u) /\ Vias(Swap(u, 1)) = Vias(u)
        /\ Swap(u, 1) = IF 1 + 1 \in DOMAIN u /\ u[1 + 1].quality > u[1].quality
                        THEN [u EXCEPT ![1] = u[1 + 1], ![1 + 1] = u[1]] ELSE u
    <3> HIDE DEF w
    <3> QED BY <2>1, 1 \in {1, 2}, SwapKeeps
  <2> QED BY <2>2
<1>4. Sorted(s) = w
  BY DEF Sorted
<1> HIDE DEF t, u, w
<1>5. /\ Len(w) \in Nat /\ DOMAIN w = 1..Len(w) /\ Len(w) <= 3
      /\ DOMAIN s = DOMAIN w /\ DOMAIN t = DOMAIN w /\ DOMAIN u = DOMAIN w
  <2>1. Len(w) \in Nat /\ DOMAIN w = 1..Len(w) /\ Len(w) <= 3 /\ Len(w) = Len(s)
    <3>1. Len(w) = Len(s) /\ Distinct(w)
      BY <1>1, <1>2, <1>3
    <3> QED BY <3>1 DEF Distinct
  <2>2. DOMAIN s = 1..Len(s) /\ DOMAIN t = 1..Len(t) /\ DOMAIN u = 1..Len(u)
    BY <1>1, <1>2 DEF Distinct
  <2> QED
    BY <1>1, <1>2, <1>3, <2>1, <2>2
<1>6. \A i \in DOMAIN w : /\ s[i].quality \in Int /\ t[i].quality \in Int
                          /\ u[i].quality \in Int /\ w[i].quality \in Int
  <2>1. s \in Seq(Entries) /\ t \in Seq(Entries) /\ u \in Seq(Entries) /\ w \in Seq(Entries)
    BY <1>1, <1>2, <1>3 DEF Distinct
  <2>2. ASSUME NEW x \in Seq(Entries) PROVE \A i \in DOMAIN x : x[i].quality \in Int
    BY EntryFacts
  <2> QED
    BY <1>5, <2>1, <2>2
<1>7. 2 \in DOMAIN w => w[1].quality >= w[2].quality
  <2>1. ASSUME 2 \in DOMAIN w PROVE 1 \in DOMAIN w
    BY <2>1, <1>5
  <2> QED
    BY <1>3, <1>5, <1>6, <2>1
<1>8. 3 \in DOMAIN w => w[2].quality >= w[3].quality
  <2> SUFFICES ASSUME 3 \in DOMAIN w PROVE w[2].quality >= w[3].quality
    OBVIOUS
  <2>1. 2 \in DOMAIN w /\ 1 \in DOMAIN w
    BY <1>5
  <2>2. t[1].quality >= t[2].quality
    BY <1>1, <1>5, <1>6, <2>1
  <2>3. /\ u[3].quality <= u[2].quality /\ u[1].quality >= u[3].quality
    BY <1>2, <1>5, <1>6, <2>1, <2>2
  <2> QED
    BY <1>3, <1>5, <1>6, <2>1, <2>3
<1>9. \A i, j \in DOMAIN w : i < j => w[i].quality >= w[j].quality
  <2> SUFFICES ASSUME NEW i \in DOMAIN w, NEW j \in DOMAIN w, i < j
               PROVE  w[i].quality >= w[j].quality
    OBVIOUS
  <2>1. (i = 1 /\ j = 2) \/ (i = 1 /\ j = 3) \/ (i = 2 /\ j = 3)
    BY <1>5
  <2>2. 3 \in DOMAIN w => 2 \in DOMAIN w
    BY <1>5
  <2> QED
    BY <1>6, <1>7, <1>8, <2>1, <2>2
<1>10. w \in Seq(Entries) /\ \A i, j \in DOMAIN w : i < j => w[i].via # w[j].via
  <2>1. Distinct(w)
    BY <1>3
  <2>2. \A i, j \in DOMAIN w : i < j => i # j
    BY <1>5
  <2> QED
    BY <2>1, <2>2 DEF Distinct
<1>11. Ranked(w)
  BY <1>5, <1>9, <1>10 DEF Ranked
<1>12. Len(w) = Len(s) /\ Vias(w) = Vias(s)
  BY <1>1, <1>2, <1>3
<1> QED
  BY <1>4, <1>11, <1>12

-----------------------------------------------------------------------------
(* A route is learnt, grows old, or fails.                                 *)

\* w is s with another neighbour in slot i.
Differs(w, s, i, m) == /\ w \in Seq(Entries) /\ Len(w) = Len(s) /\ DOMAIN w = DOMAIN s
                       /\ \A k \in DOMAIN s : w[k].via = IF k = i THEN m ELSE s[k].via

LEMMA WrittenIs ==
    ASSUME NEW s \in Seq(Entries), NEW i \in DOMAIN s, NEW m \in Nodes,
           NEW Qual \in 0..255
    PROVE  Differs(Written(s, i, m, Qual), s, i, m)
<1> DEFINE e == [via |-> m, quality |-> IF Qual # 0 THEN Qual ELSE s[i].quality,
                 obs |-> IF s[i].obs >= LOCKED THEN s[i].obs ELSE OBSINIT]
           t == [s EXCEPT ![i] = e]
<1>1. s[i].quality \in 0..255 /\ s[i].obs \in 0..255
  BY EntryFacts
<1>2. e \in Entries
  BY <1>1, ObsAssumption DEF Entries
<1>3. Written(s, i, m, Qual) = t
  BY DEF Written
<1>4. e.via = m
  OBVIOUS
<1> HIDE DEF e
<1>5. t \in Seq(Entries) /\ Len(t) = Len(s) /\ DOMAIN t = DOMAIN s
  BY <1>2
<1>6. \A k \in DOMAIN s : t[k] = IF k = i THEN e ELSE s[k]
  OBVIOUS
<1> QED
  <2> HIDE DEF t
  <2> QED BY <1>3, <1>4, <1>5, <1>6 DEF Differs

LEMMA MovedDownIs ==
    ASSUME NEW s \in Seq(Entries), Len(s) <= 3, NEW i \in DOMAIN s
    PROVE  /\ MovedDown(s, i) \in Seq(Entries)
           /\ Len(MovedDown(s, i)) \in {Len(s), Len(s) + 1}
           /\ Len(MovedDown(s, i)) <= 3
           /\ \A k \in DOMAIN MovedDown(s, i) :
                /\ k <= i => k \in DOMAIN s /\ MovedDown(s, i)[k] = s[k]
                /\ k > i  => k - 1 \in DOMAIN s /\ MovedDown(s, i)[k] = s[k - 1]
<1>1. Len(s) \in Nat /\ DOMAIN s = 1..Len(s) /\ i \in 1..Len(s)
  OBVIOUS
<1> DEFINE n == Min({3, Len(s) + 1})
           u == SubSeq(s, 1, i) \o SubSeq(s, i, Len(s))
<1>2. n \in {Len(s), Len(s) + 1} /\ n <= 3 /\ n >= i
  <2>1. n \in {3, Len(s) + 1} /\ n <= 3 /\ n <= Len(s) + 1
    <3>1. {3, Len(s) + 1} \in SUBSET Nat /\ {3, Len(s) + 1} # {}
      BY <1>1
    <3>2. /\ Min({3, Len(s) + 1}) \in {3, Len(s) + 1}
          /\ \A y \in {3, Len(s) + 1} : Min({3, Len(s) + 1}) <= y
      <4> DEFINE T == {3, Len(s) + 1}
      <4> HIDE DEF T
      <4>1. T # {} /\ T \in SUBSET Nat
        BY <3>1 DEF T
      <4>2. Min(T) \in T /\ \A y \in T : Min(T) <= y
        BY <4>1, MinIsLeast
      <4> QED BY <4>2 DEF T
    <3> QED BY <3>2
  <2> QED BY <2>1, <1>1
<1>3. /\ u \in Seq(Entries) /\ Len(u) = Len(s) + 1
      /\ \A k \in 1..(Len(s) + 1) : u[k] = IF k <= i THEN s[k] ELSE s[k - 1]
  BY <1>1
<1>4. MovedDown(s, i) = SubSeq(u, 1, n)
  BY DEF MovedDown
<1> HIDE DEF u, n
<1>5. /\ SubSeq(u, 1, n) \in Seq(Entries) /\ Len(SubSeq(u, 1, n)) = n
      /\ \A k \in 1..n : SubSeq(u, 1, n)[k] = u[k]
  BY <1>1, <1>2, <1>3
<1> QED
  BY <1>1, <1>2, <1>3, <1>4, <1>5

\* What is ranked is distinct, and what has been sorted is in order.
LEMMA RankedFacts ==
    ASSUME NEW s, Ranked(s)
    PROVE  Distinct(s)
<1>1. s \in Seq(Entries) /\ Len(s) <= 3 /\ DOMAIN s = 1..Len(s) /\ Len(s) \in Nat
  BY DEF Ranked
<1>2. \A i, j \in DOMAIN s : i # j => i < j \/ j < i
  BY <1>1
<1> QED
  BY <1>1, <1>2 DEF Ranked, Distinct

LEMMA PROCROUTESKeeps ==
    ASSUME NEW D, DestOK(D), NEW m \in Nodes, NEW Qual \in 0..255
    PROVE  /\ DestOK(PROCROUTES(D, m, Qual))
           /\ PROCROUTES(D, m, Qual).NRROUTE # << >>
           /\ Vias(PROCROUTES(D, m, Qual).NRROUTE) \subseteq Vias(D.NRROUTE) \cup {m}
<1> DEFINE s == D.NRROUTE
           worse == {i \in DOMAIN s : s[i].quality < Qual}
           Gets(t, i) == [D EXCEPT !.NRROUTE = Sorted(Written(t, i, m, Qual)),
                                   !.DEST_ROUTE = 0]
<1>0. /\ D \in Dests /\ s \in Seq(Entries) /\ Len(s) <= 3 /\ Len(s) \in Nat
      /\ DOMAIN s = 1..Len(s) /\ Distinct(s)
  BY RankedFacts DEF DestOK, Ranked
<1>1. ASSUME NEW t \in Seq(Entries), NEW i \in DOMAIN t, Len(t) <= 3,
             \A k \in DOMAIN t \ {i} : t[k].via # m /\ t[k].via \in Vias(s),
             \A j, k \in DOMAIN t \ {i} : j # k => t[j].via # t[k].via
      PROVE  /\ DestOK(Gets(t, i)) /\ Gets(t, i).NRROUTE # << >>
             /\ Vias(Gets(t, i).NRROUTE) \subseteq Vias(s) \cup {m}
  <2> HIDE DEF s, worse, Gets
  <2>0. Differs(Written(t, i, m, Qual), t, i, m)
    BY WrittenIs
  <2> DEFINE w == Written(t, i, m, Qual)
  <2>1. /\ w \in Seq(Entries) /\ Len(w) = Len(t) /\ DOMAIN w = DOMAIN t
        /\ \A k \in DOMAIN t : w[k].via = IF k = i THEN m ELSE t[k].via
    BY <2>0 DEF Differs
  <2> HIDE DEF w
  <2>2. Distinct(w)
    BY <2>1, <1>1 DEF Distinct
  <2>3. Vias(w) \subseteq Vias(s) \cup {m}
    <3>1. Vias(w) = {w[k].via : k \in DOMAIN t}
      BY <2>1 DEF Vias
    <3>2. \A k \in DOMAIN t : w[k].via \in Vias(s) \cup {m}
      <4> HIDE DEF s
      <4> QED BY <2>1, <1>1
    <3> HIDE DEF s
    <3> QED BY <3>1, <3>2
  <2>4. Ranked(Sorted(w)) /\ Len(Sorted(w)) = Len(w) /\ Vias(Sorted(w)) = Vias(w)
    BY <2>2, SortedRanks
  <2>5. Sorted(w) # << >> /\ Sorted(w) \in Seq(Entries)
    BY <2>1, <2>4 DEF Ranked
  <2>6. Gets(t, i) = [D EXCEPT !.NRROUTE = Sorted(w), !.DEST_ROUTE = 0]
    BY DEF w, Gets
  <2>7. Gets(t, i) \in Dests /\ Gets(t, i).NRROUTE = Sorted(w)
    <3>1. 0 \in 0..255 /\ D \in Dests
      BY <1>0
    <3>2. /\ [D EXCEPT !.NRROUTE = Sorted(w), !.DEST_ROUTE = 0] \in Dests
          /\ [D EXCEPT !.NRROUTE = Sorted(w), !.DEST_ROUTE = 0].NRROUTE = Sorted(w)
      BY <2>5, <3>1 DEF Dests
    <3> QED BY <2>6, <3>2
  <2> HIDE DEF Gets, s
  <2> QED
    BY <2>3, <2>4, <2>5, <2>7 DEF DestOK
<1>2. CASE Via(s, m) # {}
  <2> DEFINE i == Min(Via(s, m))
  <2>1. i \in Via(s, m)
    BY <1>0, <1>2, ViaFacts
  <2>2. i \in DOMAIN s /\ s[i].via = m
    BY <2>1 DEF Via
  <2>3. PROCROUTES(D, m, Qual) = Gets(s, i)
    BY <1>2 DEF PROCROUTES
  <2> HIDE DEF i
  <2>4. \A k \in DOMAIN s \ {i} : s[k].via # m /\ s[k].via \in Vias(s)
    BY <1>0, <2>2 DEF Distinct, Vias
  <2>5. \A j, k \in DOMAIN s \ {i} : j # k => s[j].via # s[k].via
    BY <1>0 DEF Distinct
  <2>6. /\ DestOK(Gets(s, i)) /\ Gets(s, i).NRROUTE # << >>
        /\ Vias(Gets(s, i).NRROUTE) \subseteq Vias(s) \cup {m}
    <3> HIDE DEF Gets, s
    <3> QED BY <1>0, <1>1, <2>2, <2>4, <2>5
  <2> QED BY <2>3, <2>6
<1>3. ASSUME Via(s, m) = {}
      PROVE  /\ \A k \in DOMAIN s : s[k].via # m /\ s[k].via \in Vias(s)
             /\ \A j, k \in DOMAIN s : j # k => s[j].via # s[k].via
  BY <1>0, <1>3 DEF Via, Vias, Distinct
<1>4. CASE Via(s, m) = {} /\ worse # {}
  <2> DEFINE i == Min(worse)
             t == MovedDown(s, i)
  <2>1. i \in DOMAIN s
    <3>1. worse \in SUBSET Nat
      BY <1>0
    <3> HIDE DEF worse
    <3>2. i \in worse
      BY <3>1, <1>4, MinIsLeast
    <3> QED BY <3>2 DEF worse
  <2>2. PROCROUTES(D, m, Qual) = Gets(t, i)
    BY <1>4 DEF PROCROUTES
  <2> HIDE DEF i, worse
  <2>3. /\ t \in Seq(Entries) /\ Len(t) \in {Len(s), Len(s) + 1} /\ Len(t) <= 3
        /\ \A k \in DOMAIN t :
             /\ k <= i => k \in DOMAIN s /\ t[k] = s[k]
             /\ k > i  => k - 1 \in DOMAIN s /\ t[k] = s[k - 1]
    BY <2>1, <1>0, MovedDownIs
  <2> HIDE DEF t, s
  <2>4. DOMAIN t = 1..Len(t) /\ i \in DOMAIN t /\ DOMAIN t \subseteq Int
    BY <2>1, <2>3, <1>0
  <2>5. \A k \in DOMAIN t \ {i} : t[k].via # m /\ t[k].via \in Vias(s)
    <3> SUFFICES ASSUME NEW k \in DOMAIN t \ {i}
                 PROVE  t[k].via # m /\ t[k].via \in Vias(s)
      OBVIOUS
    <3>1. k \in Int /\ i \in Int /\ k # i
      BY <2>4
    <3>2. PICK x \in DOMAIN s : t[k] = s[x]
      BY <3>1, <2>3
    <3> QED BY <3>2, <1>3, <1>4
  <2>6. ASSUME NEW j \in DOMAIN t \ {i}, NEW k \in DOMAIN t \ {i}, j # k
        PROVE  t[j].via # t[k].via
    <3>1. \A x, y \in DOMAIN s : x # y => s[x].via # s[y].via
      BY <1>3, <1>4
    <3>2. j \in Int /\ k \in Int /\ i \in Int
      BY <2>4
    <3>3. CASE j < i /\ k < i
      BY <3>1, <3>2, <3>3, <2>3, <2>6
    <3>4. CASE j < i /\ k > i
      <4>1. j \in DOMAIN s /\ t[j] = s[j] /\ k - 1 \in DOMAIN s /\ t[k] = s[k - 1]
        BY <3>2, <3>4, <2>3
      <4>2. j # k - 1
        BY <3>2, <3>4
      <4> QED BY <3>1, <4>1, <4>2
    <3>5. CASE j > i /\ k < i
      <4>1. k \in DOMAIN s /\ t[k] = s[k] /\ j - 1 \in DOMAIN s /\ t[j] = s[j - 1]
        BY <3>2, <3>5, <2>3
      <4>2. k # j - 1
        BY <3>2, <3>5
      <4> QED BY <3>1, <4>1, <4>2
    <3>6. CASE j > i /\ k > i
      <4>1. /\ j - 1 \in DOMAIN s /\ t[j] = s[j - 1] /\ k - 1 \in DOMAIN s /\ t[k] = s[k - 1]
        BY <3>2, <3>6, <2>3
      <4>2. j - 1 # k - 1
        BY <3>2, <2>6
      <4> QED BY <3>1, <4>1, <4>2
    <3> QED BY <3>2, <3>3, <3>4, <3>5, <3>6
  <2>7. /\ DestOK(Gets(t, i)) /\ Gets(t, i).NRROUTE # << >>
        /\ Vias(Gets(t, i).NRROUTE) \subseteq Vias(s) \cup {m}
    <3> HIDE DEF Gets
    <3> QED BY <1>1, <2>3, <2>4, <2>5, <2>6
  <2> QED BY <2>2, <2>7 DEF s
<1>5. CASE Via(s, m) = {} /\ worse = {} /\ Len(s) < 3
  <2> DEFINE t == Append(s, Spare(m))
             i == Len(s) + 1
  <2>1. PROCROUTES(D, m, Qual) = Gets(t, i)
    BY <1>5 DEF PROCROUTES
  <2>2. Spare(m) \in Entries
    BY DEF Spare, Entries
  <2> HIDE DEF s
  <2>3. /\ t \in Seq(Entries) /\ Len(t) <= 3 /\ i \in DOMAIN t
        /\ DOMAIN t \ {i} = DOMAIN s /\ \A k \in DOMAIN s : t[k] = s[k]
    BY <1>0, <1>5, <2>2
  <2> HIDE DEF t, i, worse
  <2>4. \A k \in DOMAIN t \ {i} : t[k].via # m /\ t[k].via \in Vias(s)
    BY <2>3, <1>3, <1>5
  <2>5. \A j, k \in DOMAIN t \ {i} : j # k => t[j].via # t[k].via
    BY <2>3, <1>3, <1>5
  <2>6. /\ DestOK(Gets(t, i)) /\ Gets(t, i).NRROUTE # << >>
        /\ Vias(Gets(t, i).NRROUTE) \subseteq Vias(s) \cup {m}
    <3> HIDE DEF Gets
    <3> QED BY <1>1, <2>3, <2>4, <2>5
  <2> QED BY <2>1, <2>6 DEF s
<1>6. CASE Via(s, m) = {} /\ worse = {} /\ ~ (Len(s) < 3)
  <2>1. PROCROUTES(D, m, Qual) = D
    BY <1>6 DEF PROCROUTES
  <2>2. s # << >>
    BY <1>0, <1>6
  <2> QED BY <2>1, <2>2
<1> QED
  BY <1>2, <1>4, <1>5, <1>6

LEMMA NoDestOK ==
    DestOK(NoDest) /\ Vias(NoDest.NRROUTE) = {} /\ Vias(<< >>) = {}
<1>1. << >> \in Seq(Entries) /\ << >> \in Seq(Messages) /\ 0 \in 0..255
  OBVIOUS
<1>2. NoDest \in Dests
  BY <1>1 DEF NoDest, Dests
<1>3. Ranked(NoDest.NRROUTE)
  BY <1>1 DEF NoDest, Ranked
<1> QED
  BY <1>2, <1>3 DEF DestOK, NoDest, Vias

LEMMA OlderIs ==
    ASSUME NEW e \in Entries
    PROVE  Older(e) \in Entries /\ Older(e).via = e.via /\ Older(e).quality = e.quality
<1>1. CASE e.obs \in 1..(LOCKED - 1)
  <2>1. e.obs - 1 \in 0..255
    BY <1>1 DEF LOCKED
  <2> QED BY <1>1, <2>1 DEF Older, Entries
<1>2. CASE e.obs \notin 1..(LOCKED - 1)
  BY <1>2 DEF Older
<1> QED BY <1>1, <1>2

\* The loop of UPDATEDESTLIST over the routes leaves some of them, in order.
LEMMA KeptRanks ==
    ASSUME NEW s, Ranked(s)
    PROVE  /\ Ranked(FoldLeft(Kept, << >>, s))
           /\ Vias(FoldLeft(Kept, << >>, s)) \subseteq Vias(s)
<1> DEFINE n == Len(s)
           Rec(g) == [x \in SUBSET (1..n) |->
                        IF x = {} THEN << >> ELSE Kept(g[x \ {Max(x)}], s[Max(x)])]
           iter == CHOOSE g : g = Rec(g)
           Good(t, k) == /\ t \in Seq(Entries) /\ Len(t) <= k
                         /\ \A i \in DOMAIN t : \E j \in 1..k :
                              t[i].via = s[j].via /\ t[i].quality = s[j].quality
                         /\ \A i, j \in DOMAIN t : i < j => /\ t[i].via # t[j].via
                                                            /\ t[i].quality >= t[j].quality
           St == [k \in 0..n |-> {t \in Seq(Entries) : Good(t, k)}]
<1>1. /\ s \in Seq(Entries) /\ n \in Nat /\ DOMAIN s = 1..n /\ n <= 3
      /\ \A i \in 1..n : s[i] \in Entries /\ s[i].quality \in Int
  <2>1. s \in Seq(Entries) /\ n <= 3
    BY DEF Ranked
  <2> QED BY <2>1, EntryFacts
<1>2. FoldLeft(Kept, << >>, s) = iter[1..n]
  BY <1>1 DEF FoldLeft, MapThenFoldSet
<1>3. \A x \in SUBSET (1..n) : iter[x] = IF x = {} THEN << >>
                                         ELSE Kept(iter[x \ {Max(x)}], s[Max(x)])
  <2>0. PICK step \in [1..n -> [Seq(Entries) -> Seq(Entries)]] :
             step = [i \in 1..n |-> [t \in Seq(Entries) |-> Kept(t, s[i])]]
    <3>1. \A i \in 1..n, t \in Seq(Entries) : Kept(t, s[i]) \in Seq(Entries)
      BY <1>1, OlderIs DEF Kept
    <3> QED BY <3>1
  <2>1. PICK f \in [SUBSET (1..n) -> Seq(Entries)] : IsFold(f, << >>, step, n)
    <3>1. << >> \in Seq(Entries)
      OBVIOUS
    <3> HIDE DEF iter, Rec, n
    <3> QED BY <1>1, <3>1, FoldExists
  <2>2. \A x \in SUBSET (1..n) : x # {} => Max(x) \in 1..n
    BY <1>1, MaxIsGreatest
  <2>3. \A x \in SUBSET (1..n) :
           f[x] = IF x = {} THEN << >> ELSE Kept(f[x \ {Max(x)}], s[Max(x)])
    BY <2>0, <2>1, <2>2 DEF IsFold
  <2>4. f = Rec(f)
    BY <2>3
  <2>5. iter = Rec(iter)
    BY <2>4
  <2> HIDE DEF iter
  <2> QED BY <2>5
<1>4. iter[{}] \in St[0]
  <2>1. iter[{}] = << >>
    <3> HIDE DEF iter
    <3> QED BY <1>3
  <2>2. << >> \in St[0]
    BY <1>1
  <2> QED BY <2>1, <2>2
<1>5. ASSUME NEW k \in 0..(n - 1), iter[1..k] \in St[k]
      PROVE  iter[1..(k + 1)] \in St[k + 1]
  <2> HIDE DEF iter
  <2>1. /\ k \in Nat /\ k + 1 \in 0..n /\ k \in 0..n /\ k + 1 \in 1..n
        /\ 1..(k + 1) \in SUBSET (1..n)
    BY <1>1
  <2>2. iter[1..(k + 1)] = Kept(iter[1..k], s[k + 1])
    <3>1. /\ 1..(k + 1) # {} /\ Max(1..(k + 1)) = k + 1
          /\ (1..(k + 1)) \ {k + 1} = 1..k
      BY <2>1, FirstButLast
    <3> QED BY <2>1, <1>3, <3>1
  <2> DEFINE t == iter[1..k]
             e == Older(s[k + 1])
  <2>3. Good(t, k)
    BY <1>5, <2>1
  <2>4. e \in Entries /\ e.via = s[k + 1].via /\ e.quality = s[k + 1].quality
    BY <1>1, <2>1, OlderIs
  <2> HIDE DEF t, e
  <2>5. Good(t, k + 1)
    <3>1. 1..k \subseteq 1..(k + 1) /\ \A x \in Nat : x <= k => x <= k + 1
      BY <2>1
    <3> QED BY <2>3, <3>1
  <2>6. Good(Append(t, e), k + 1)
    <3> DEFINE u == Append(t, e)
    <3>1. /\ u \in Seq(Entries) /\ Len(u) = Len(t) + 1 /\ Len(t) \in Nat
          /\ DOMAIN u = 1..(Len(t) + 1) /\ DOMAIN t = 1..Len(t)
          /\ u[Len(t) + 1] = e /\ \A i \in DOMAIN t : u[i] = t[i]
      BY <2>3, <2>4
    <3> HIDE DEF u
    <3>2. Len(u) <= k + 1
      BY <2>1, <2>3, <3>1
    <3>3. ASSUME NEW i \in DOMAIN u
          PROVE  \E j \in 1..(k + 1) : u[i].via = s[j].via /\ u[i].quality = s[j].quality
      <4>1. CASE i = Len(t) + 1
        <5>1. k + 1 \in 1..(k + 1)
          BY <2>1
        <5> QED BY <4>1, <3>1, <2>4, <5>1
      <4>2. CASE i # Len(t) + 1
        <5>1. i \in DOMAIN t
          BY <4>2, <3>1
        <5>2. PICK j \in 1..k : t[i].via = s[j].via /\ t[i].quality = s[j].quality
          BY <5>1, <2>3
        <5>3. j \in 1..(k + 1)
          BY <2>1
        <5> QED BY <5>1, <5>2, <5>3, <3>1
      <4> QED BY <4>1, <4>2
    <3>4. ASSUME NEW i \in DOMAIN u, NEW j \in DOMAIN u, i < j
          PROVE  u[i].via # u[j].via /\ u[i].quality >= u[j].quality
      <4>1. i \in DOMAIN t
        BY <3>1, <3>4
      <4>2. CASE j = Len(t) + 1
        <5>1. PICK x \in 1..k : t[i].via = s[x].via /\ t[i].quality = s[x].quality
          BY <4>1, <2>3
        <5>2. x \in 1..n /\ x < k + 1
          BY <2>1
        <5>3. s[x].via # s[k + 1].via /\ s[x].quality >= s[k + 1].quality
          BY <5>2, <2>1, <1>1 DEF Ranked
        <5> QED BY <4>1, <4>2, <5>1, <5>3, <3>1, <2>4
      <4>3. CASE j # Len(t) + 1
        <5>1. j \in DOMAIN t
          BY <4>3, <3>1
        <5> QED BY <4>1, <5>1, <3>1, <3>4, <2>3
      <4> QED BY <4>2, <4>3
    <3>5. Good(u, k + 1)
      BY <3>1, <3>2, <3>3, <3>4
    <3> QED BY <3>5 DEF u
  <2>7. Good(iter[1..(k + 1)], k + 1)
    <3>1. iter[1..(k + 1)] = t \/ iter[1..(k + 1)] = Append(t, e)
      BY <2>2 DEF Kept, t, e
    <3> HIDE DEF Good
    <3> QED BY <3>1, <2>5, <2>6
  <2> QED BY <2>1, <2>7
<1>6. iter[1..n] \in St[n]
  <2> HIDE DEF iter, St, n
  <2> QED BY <1>1, <1>4, <1>5, FoldKeeps
<1>7. Good(iter[1..n], n)
  <2>1. n \in 0..n
    BY <1>1
  <2> HIDE DEF iter
  <2> QED BY <1>6, <2>1
<1> HIDE DEF iter
<1>8. Ranked(iter[1..n])
  <2>1. Len(iter[1..n]) \in Nat /\ Len(iter[1..n]) <= 3
    BY <1>1, <1>7
  <2> QED BY <1>7, <2>1 DEF Ranked
<1>9. Vias(iter[1..n]) \subseteq Vias(s)
  BY <1>1, <1>7 DEF Vias
<1> QED
  BY <1>2, <1>8, <1>9

LEMMA AgedKeeps ==
    ASSUME NEW D, DestOK(D)
    PROVE  DestOK(Aged(D)) /\ Vias(Aged(D).NRROUTE) \subseteq Vias(D.NRROUTE)
<1> DEFINE s == FoldLeft(Kept, << >>, D.NRROUTE)
<1>1. D \in Dests /\ Ranked(D.NRROUTE)
  BY DEF DestOK
<1>2. Ranked(s) /\ Vias(s) \subseteq Vias(D.NRROUTE)
  BY <1>1, KeptRanks
<1>3. Aged(D) = IF s = << >> THEN NoDest
                ELSE [D EXCEPT !.NRROUTE = s,
                               !.DEST_ROUTE = IF Len(s) < Len(D.NRROUTE) THEN 0 ELSE @]
  BY DEF Aged
<1> HIDE DEF s
<1>4. CASE s = << >>
  BY <1>3, <1>4, NoDestOK
<1>5. CASE s # << >>
  <2> DEFINE a == IF Len(s) < Len(D.NRROUTE) THEN 0 ELSE D.DEST_ROUTE
  <2>1. Aged(D) = [D EXCEPT !.NRROUTE = s, !.DEST_ROUTE = a]
    BY <1>3, <1>5
  <2>2. a \in 0..255 /\ s \in Seq(Entries)
    BY <1>1, <1>2 DEF Dests, Ranked
  <2> HIDE DEF a
  <2>3. Aged(D) \in Dests /\ Aged(D).NRROUTE = s
    BY <1>1, <2>1, <2>2 DEF Dests
  <2> QED BY <1>2, <1>5, <2>3 DEF DestOK
<1> QED BY <1>4, <1>5

\* Another count in one of the slots.
LEMMA SlotRanks ==
    ASSUME NEW s, Ranked(s), NEW i \in DOMAIN s, NEW e \in Entries,
           e.via = s[i].via, e.quality = s[i].quality
    PROVE  /\ Ranked([s EXCEPT ![i] = e]) /\ [s EXCEPT ![i] = e] # << >>
           /\ Vias([s EXCEPT ![i] = e]) = Vias(s)
<1> DEFINE t == [s EXCEPT ![i] = e]
<1>1. /\ s \in Seq(Entries) /\ DOMAIN s = 1..Len(s) /\ Len(s) \in Nat /\ Len(s) <= 3
      /\ \A j, k \in DOMAIN s : j < k => /\ s[j].via # s[k].via
                                         /\ s[j].quality >= s[k].quality
  BY DEF Ranked
<1>2. /\ t \in Seq(Entries) /\ DOMAIN t = DOMAIN s /\ Len(t) = Len(s)
      /\ \A k \in DOMAIN s : t[k].via = s[k].via /\ t[k].quality = s[k].quality
  BY <1>1
<1> HIDE DEF t
<1>3. Ranked(t)
  BY <1>1, <1>2 DEF Ranked
<1>4. Vias(t) = Vias(s)
  BY <1>2 DEF Vias
<1>5. t # << >>
  BY <1>1, <1>2
<1> QED
  BY <1>3, <1>4, <1>5 DEF t

\* A route is taken out.
LEMMA RemovedRanks ==
    ASSUME NEW s, Ranked(s), NEW i \in DOMAIN s, Len(s) # 1
    PROVE  /\ Ranked(RemoveAt(s, i)) /\ RemoveAt(s, i) # << >>
           /\ Vias(RemoveAt(s, i)) \subseteq Vias(s)
<1> DEFINE t == RemoveAt(s, i)
<1>1. /\ s \in Seq(Entries) /\ DOMAIN s = 1..Len(s) /\ Len(s) \in Nat /\ Len(s) <= 3
      /\ \A j, k \in DOMAIN s : j < k => /\ s[j].via # s[k].via
                                         /\ s[j].quality >= s[k].quality
  BY DEF Ranked
<1>2. /\ t \in Seq(Entries) /\ DOMAIN t = 1..(Len(s) - 1) /\ Len(t) = Len(s) - 1
      /\ \A k \in 1..(Len(s) - 1) : t[k] = IF k < i THEN s[k] ELSE s[k + 1]
  <2> DEFINE a == SubSeq(s, 1, i - 1)
             b == SubSeq(s, i + 1, Len(s))
  <2>1. i \in Nat /\ 1 <= i /\ i <= Len(s)
    BY <1>1
  <2>2. /\ a \in Seq(Entries) /\ Len(a) = i - 1
        /\ \A k \in 1..(i - 1) : a[k] = s[k]
    BY <1>1, <2>1
  <2>3. /\ b \in Seq(Entries) /\ Len(b) = Len(s) - i
        /\ \A k \in 1..(Len(s) - i) : b[k] = s[i + k]
    BY <1>1, <2>1
  <2>4. t = a \o b
    BY DEF RemoveAt
  <2> HIDE DEF a, b, t
  <2>5. /\ a \o b \in Seq(Entries) /\ Len(a \o b) = Len(s) - 1
        /\ DOMAIN (a \o b) = 1..(Len(s) - 1)
    <3>1. a \o b \in Seq(Entries) /\ Len(a \o b) = Len(a) + Len(b)
      <4>1. a \in Seq(Entries) /\ b \in Seq(Entries)
        BY <2>2, <2>3
      <4> QED BY <4>1, ConcatProperties
    <3>2. (i - 1) + (Len(s) - i) = Len(s) - 1
      BY <1>1, <2>1
    <3>3. Len(a \o b) = Len(s) - 1
      BY <3>1, <3>2, <2>2, <2>3
    <3>4. DOMAIN (a \o b) = 1..Len(a \o b)
      BY <3>1
    <3> QED BY <3>1, <3>3, <3>4
  <2>6. ASSUME NEW k \in 1..(Len(s) - 1)
        PROVE  (a \o b)[k] = IF k < i THEN s[k] ELSE s[k + 1]
    <3>1. CASE k < i
      <4>1. k \in 1..(i - 1)
        BY <2>1, <3>1
      <4> QED BY <3>1, <4>1, <1>1, <2>1, <2>2, <2>3
    <3>2. CASE ~ (k < i)
      <4>1. k - (i - 1) \in 1..(Len(s) - i) /\ i + (k - (i - 1)) = k + 1
        BY <1>1, <2>1, <3>2
      <4>2. (a \o b)[k] = b[k - (i - 1)]
        <5>1. /\ Len(a) = i - 1 /\ k > Len(a) /\ k \in 1..(Len(a) + Len(b))
              /\ a \in Seq(Entries) /\ b \in Seq(Entries)
          BY <1>1, <2>1, <2>2, <2>3, <3>2
        <5>2. (a \o b)[k] = b[k - Len(a)]
          BY <5>1
        <5> QED BY <5>1, <5>2
      <4> QED BY <3>2, <4>1, <4>2, <2>3
    <3> QED BY <3>1, <3>2
  <2> QED BY <2>4, <2>5, <2>6
<1> HIDE DEF t
<1>3. ASSUME NEW j \in DOMAIN t, NEW k \in DOMAIN t, j < k
      PROVE  t[j].via # t[k].via /\ t[j].quality >= t[k].quality
  <2>1. PICK x \in DOMAIN s : t[j] = s[x] /\ x = IF j < i THEN j ELSE j + 1
    BY <1>1, <1>2
  <2>2. PICK y \in DOMAIN s : t[k] = s[y] /\ y = IF k < i THEN k ELSE k + 1
    BY <1>1, <1>2
  <2>3. x < y
    BY <2>1, <2>2, <1>1, <1>2, <1>3
  <2> QED BY <2>1, <2>2, <2>3, <1>1
<1>4. Ranked(t)
  BY <1>1, <1>2, <1>3 DEF Ranked
<1>5. Vias(t) \subseteq Vias(s)
  <2>1. ASSUME NEW k \in DOMAIN t PROVE \E x \in DOMAIN s : t[k] = s[x]
    BY <1>1, <1>2
  <2> QED BY <2>1 DEF Vias
<1>6. t # << >>
  BY <1>1, <1>2
<1> QED
  BY <1>4, <1>5, <1>6 DEF t

LEMMA LessIs ==
    ASSUME NEW e \in Entries, NEW by \in Int
    PROVE  /\ Less(e, by) \in Entries
           /\ Less(e, by).via = e.via /\ Less(e, by).quality = e.quality
<1>1. e.obs \in Int
  BY DEF Entries
<1>2. (e.obs - by) % 256 \in 0..255
  BY <1>1
<1> QED
  BY <1>2 DEF Less, Entries

\* An entry of which the routes have changed.
LEMMA RoutesChange ==
    ASSUME NEW D, DestOK(D), NEW s, Ranked(s), s # << >>
    PROVE  DestOK([D EXCEPT !.NRROUTE = s]) /\ [D EXCEPT !.NRROUTE = s].NRROUTE = s
<1>1. D \in Dests /\ s \in Seq(Entries)
  BY DEF DestOK, Ranked
<1>2. [D EXCEPT !.NRROUTE = s] \in Dests /\ [D EXCEPT !.NRROUTE = s].NRROUTE = s
  BY <1>1 DEF Dests
<1> QED
  BY <1>2 DEF DestOK

LEMMA DecayedKeeps ==
    ASSUME NEW D, DestOK(D), NEW m
    PROVE  DestOK(Decayed(D, m)) /\ Vias(Decayed(D, m).NRROUTE) \subseteq Vias(D.NRROUTE)
<1> DEFINE s == D.NRROUTE
           i == Min(Via(s, m))
           e == IF i > 1 THEN Less(s[i], 1)
                ELSE IF s[i].obs >= LOCKED THEN s[i] ELSE Less(s[i], Min({2, s[i].obs}))
<1>1. D \in Dests /\ Ranked(s) /\ s \in Seq(Entries) /\ Len(s) \in Nat
  BY DEF DestOK, Ranked
<1>2. CASE Via(s, m) = {}
  BY <1>2 DEF Decayed
<1>3. CASE Via(s, m) # {}
  <2>1. i \in DOMAIN s
    BY <1>1, <1>3, ViaFacts
  <2>2. Decayed(D, m) = IF e.obs > 0 THEN [D EXCEPT !.NRROUTE[i] = e]
                        ELSE IF Len(s) = 1 THEN NoDest
                        ELSE [D EXCEPT !.NRROUTE = RemoveAt(s, i)]
    BY <1>3 DEF Decayed
  <2> HIDE DEF i
  <2>3. s[i] \in Entries /\ s[i].obs \in 0..255
    <3> HIDE DEF s
    <3> QED BY <1>1, <2>1, EntryFacts
  <2>4. Min({2, s[i].obs}) \in Int
    <3> DEFINE T == {2, s[i].obs}
    <3>1. T \in SUBSET Nat /\ T # {}
      BY <2>3
    <3> HIDE DEF T
    <3>2. Min(T) \in T /\ T \subseteq Int
      BY <3>1, MinIsLeast
    <3> QED BY <3>2 DEF T
  <2>5. e \in Entries /\ e.via = s[i].via /\ e.quality = s[i].quality
    <3> HIDE DEF s
    <3>1. CASE i > 1
      <4>1. e = Less(s[i], 1) /\ 1 \in Int
        BY <3>1
      <4> QED BY <4>1, <2>3, LessIs
    <3>2. CASE ~ (i > 1) /\ s[i].obs >= LOCKED
      <4>1. e = s[i]
        BY <3>2
      <4> QED BY <4>1, <2>3
    <3>3. CASE ~ (i > 1) /\ ~ (s[i].obs >= LOCKED)
      <4> DEFINE by == Min({2, s[i].obs})
      <4>1. e = Less(s[i], by) /\ by \in Int /\ s[i] \in Entries
        BY <3>3, <2>3, <2>4
      <4> HIDE DEF e, by, i
      <4>2. /\ Less(s[i], by) \in Entries
            /\ Less(s[i], by).via = s[i].via /\ Less(s[i], by).quality = s[i].quality
        BY <4>1, LessIs
      <4> QED BY <4>1, <4>2
    <3> QED BY <3>1, <3>2, <3>3
  <2> HIDE DEF e
  <2>6. CASE e.obs > 0
    <3> DEFINE t == [s EXCEPT ![i] = e]
    <3>1. Ranked(t) /\ t # << >> /\ Vias(t) = Vias(s)
      BY <1>1, <2>1, <2>5, SlotRanks
    <3>2. Decayed(D, m) = [D EXCEPT !.NRROUTE = t]
      BY <2>2, <2>6
    <3> HIDE DEF t
    <3>3. DestOK([D EXCEPT !.NRROUTE = t]) /\ [D EXCEPT !.NRROUTE = t].NRROUTE = t
      BY <3>1, RoutesChange
    <3> QED BY <3>1, <3>2, <3>3
  <2>7. CASE ~ (e.obs > 0) /\ Len(s) = 1
    <3>1. Decayed(D, m) = NoDest
      BY <2>2, <2>7
    <3> QED BY <3>1, NoDestOK
  <2>8. CASE ~ (e.obs > 0) /\ Len(s) # 1
    <3> DEFINE t == RemoveAt(s, i)
    <3>1. Ranked(t) /\ t # << >> /\ Vias(t) \subseteq Vias(s)
      BY <1>1, <2>1, <2>8, RemovedRanks
    <3>2. Decayed(D, m) = [D EXCEPT !.NRROUTE = t]
      BY <2>2, <2>8
    <3> HIDE DEF t
    <3>3. DestOK([D EXCEPT !.NRROUTE = t]) /\ [D EXCEPT !.NRROUTE = t].NRROUTE = t
      BY <3>1, RoutesChange
    <3> QED BY <3>1, <3>2, <3>3
  <2> QED BY <2>6, <2>7, <2>8
<1> QED BY <1>2, <1>3

LEMMA NextTriedKeeps ==
    ASSUME NEW D, DestOK(D), NEW m
    PROVE  DestOK(NextTried(D, m)) /\ Vias(NextTried(D, m).NRROUTE) = Vias(D.NRROUTE)
<1> DEFINE s == D.NRROUTE
           i == D.DEST_ROUTE
           t == [s EXCEPT ![i] = Older(s[i])]
           q == IF D.DEST_Q = << >> THEN D.DEST_Q ELSE Tail(D.DEST_Q)
<1>1. D \in Dests /\ Ranked(s) /\ s \in Seq(Entries) /\ Len(s) \in Nat /\ Len(s) <= 3
  BY DEF DestOK, Ranked
<1>2. CASE i \notin Via(s, m)
  BY <1>2 DEF NextTried
<1>3. CASE i \in Via(s, m)
  <2>1. i \in DOMAIN s /\ i \in 1..3
    BY <1>1, <1>3, ViaFacts
  <2>2. s[i] \in Entries
    BY <1>1, <2>1
  <2>3. Ranked(t) /\ t # << >> /\ Vias(t) = Vias(s)
    <3> HIDE DEF s
    <3> QED BY <1>1, <2>1, <2>2, OlderIs, SlotRanks
  <2>4. q \in Seq(Messages)
    BY <1>1 DEF Dests
  <2>5. NextTried(D, m) = [D EXCEPT !.NRROUTE = t, !.DEST_Q = q, !.DEST_ROUTE = i + 1]
    BY <1>3 DEF NextTried
  <2>6. i + 1 \in 0..255 /\ t \in Seq(Entries)
    <3> HIDE DEF t
    <3>1. t \in Seq(Entries)
      BY <2>3 DEF Ranked
    <3>2. \A x \in 1..3 : x + 1 \in 0..255
      OBVIOUS
    <3> QED BY <2>1, <3>1, <3>2
  <2> HIDE DEF t, q
  <2>7. NextTried(D, m) \in Dests /\ NextTried(D, m).NRROUTE = t
    BY <1>1, <2>4, <2>5, <2>6 DEF Dests
  <2> QED BY <2>3, <2>7 DEF DestOK
<1> QED BY <1>2, <1>3

\* An entry of which the active route has changed, or messages have joined the queue.
LEMMA RestChanges ==
    ASSUME NEW D, DestOK(D), NEW a \in 0..255, NEW q \in Seq(Messages), D.NRROUTE # << >>
    PROVE  /\ DestOK([D EXCEPT !.DEST_ROUTE = a])
           /\ [D EXCEPT !.DEST_ROUTE = a].NRROUTE = D.NRROUTE
           /\ DestOK([D EXCEPT !.DEST_Q = q])
           /\ [D EXCEPT !.DEST_Q = q].NRROUTE = D.NRROUTE
<1>1. D \in Dests
  BY DEF DestOK
<1>2. /\ [D EXCEPT !.DEST_ROUTE = a] \in Dests
      /\ [D EXCEPT !.DEST_ROUTE = a].NRROUTE = D.NRROUTE
      /\ [D EXCEPT !.DEST_Q = q] \in Dests
      /\ [D EXCEPT !.DEST_Q = q].NRROUTE = D.NRROUTE
  BY <1>1 DEF Dests
<1> QED
  BY <1>2 DEF DestOK

-----------------------------------------------------------------------------
(* What a node keeps.                                                      *)

\* Other destinations' entries.
LEMMA DestsChange ==
    ASSUME NEW N, NodeOK(N), NEW f \in [Nodes -> Dests],
           \A d \in Nodes : DestOK(f[d]), Rooted(f, N.ROUTE)
    PROVE  /\ NodeOK([N EXCEPT !.dest = f])
           /\ [N EXCEPT !.dest = f].dest = f
           /\ [N EXCEPT !.dest = f].ROUTE = N.ROUTE
           /\ [N EXCEPT !.dest = f].LINK = N.LINK
<1>1. N \in Tables /\ Linked(N.ROUTE, N.LINK)
  BY DEF NodeOK
<1>2. /\ [N EXCEPT !.dest = f] \in Tables
      /\ [N EXCEPT !.dest = f].dest = f
      /\ [N EXCEPT !.dest = f].ROUTE = N.ROUTE
      /\ [N EXCEPT !.dest = f].LINK = N.LINK
  BY <1>1 DEF Tables
<1> QED
  BY <1>1, <1>2 DEF NodeOK

\* The entry of one destination.
LEMMA DestChanges ==
    ASSUME NEW N, NodeOK(N), NEW d \in Nodes, NEW D, DestOK(D),
           \A m \in Nodes : m \in Vias(D.NRROUTE) => \/ m \in Vias(N.dest[d].NRROUTE)
                                                     \/ N.ROUTE[m].used
    PROVE  /\ NodeOK([N EXCEPT !.dest[d] = D])
           /\ [N EXCEPT !.dest[d] = D].dest = [N.dest EXCEPT ![d] = D]
           /\ [N EXCEPT !.dest[d] = D].dest[d] = D
           /\ [N EXCEPT !.dest[d] = D].ROUTE = N.ROUTE
           /\ [N EXCEPT !.dest[d] = D].LINK = N.LINK
<1> DEFINE f == [N.dest EXCEPT ![d] = D]
<1>1. N \in Tables /\ Rooted(N.dest, N.ROUTE) /\ N.dest \in [Nodes -> Dests]
      /\ \A c \in Nodes : DestOK(N.dest[c])
  BY DEF NodeOK, Tables
<1>2. f \in [Nodes -> Dests] /\ f[d] = D /\ \A c \in Nodes : c # d => f[c] = N.dest[c]
  BY <1>1 DEF DestOK
<1>3. [N EXCEPT !.dest[d] = D] = [N EXCEPT !.dest = f]
  BY <1>1 DEF Tables
<1> HIDE DEF f
<1>4. \A c \in Nodes : DestOK(f[c])
  BY <1>1, <1>2
<1>5. Rooted(f, N.ROUTE)
  BY <1>1, <1>2 DEF Rooted
<1>6. /\ NodeOK([N EXCEPT !.dest = f]) /\ [N EXCEPT !.dest = f].dest = f
      /\ [N EXCEPT !.dest = f].ROUTE = N.ROUTE /\ [N EXCEPT !.dest = f].LINK = N.LINK
  BY <1>2, <1>4, <1>5, DestsChange
<1> QED
  BY <1>2, <1>3, <1>6 DEF f

\* N with another entry for the neighbour m, and another link to it.
With(N, m, r, k) == [N EXCEPT !.ROUTE[m] = r, !.LINK[m] = k]

Fits(N, m, r, k) == /\ r \in Routes /\ k \in Links
                    /\ N.ROUTE[m].used => r.used
                    /\ r.LINK => r.used
                    /\ k.NEIGHBOUR => r.LINK

\* M is that, and in order.
Fitted(M, N, m, r, k) == /\ NodeOK(M) /\ M.dest = N.dest
                         /\ M.ROUTE = [N.ROUTE EXCEPT ![m] = r] /\ M.ROUTE[m] = r

LEMMA LinkChanges ==
    ASSUME NEW N, NodeOK(N), NEW m \in Nodes, NEW r, NEW k, Fits(N, m, r, k)
    PROVE  Fitted(With(N, m, r, k), N, m, r, k)
<1> DEFINE M == With(N, m, r, k)
<1>1. N \in Tables /\ Rooted(N.dest, N.ROUTE) /\ Linked(N.ROUTE, N.LINK)
      /\ \A c \in Nodes : DestOK(N.dest[c])
  BY DEF NodeOK
<1>2. /\ M \in Tables /\ M.dest = N.dest
      /\ M.ROUTE = [N.ROUTE EXCEPT ![m] = r] /\ M.LINK = [N.LINK EXCEPT ![m] = k]
      /\ M.ROUTE[m] = r /\ M.LINK[m] = k
      /\ \A c \in Nodes : c # m => M.ROUTE[c] = N.ROUTE[c] /\ M.LINK[c] = N.LINK[c]
  BY <1>1 DEF Tables, With, Fits
<1> HIDE DEF M
<1>3. Rooted(M.dest, M.ROUTE)
  BY <1>1, <1>2 DEF Rooted, Fits
<1>4. Linked(M.ROUTE, M.LINK)
  BY <1>1, <1>2 DEF Linked, Fits
<1>5. NodeOK(M)
  BY <1>1, <1>2, <1>3, <1>4 DEF NodeOK
<1> QED
  BY <1>2, <1>5 DEF M, Fitted

\* A function of every destination's entry that brings in no neighbour.
LEMMA DestsKeep ==
    ASSUME NEW N, NodeOK(N), NEW f,
           f = [d \in Nodes |-> f[d]],
           \A d \in Nodes : /\ DestOK(f[d])
                            /\ Vias(f[d].NRROUTE) \subseteq Vias(N.dest[d].NRROUTE)
    PROVE  /\ NodeOK([N EXCEPT !.dest = f])
           /\ [N EXCEPT !.dest = f].dest = f
           /\ [N EXCEPT !.dest = f].ROUTE = N.ROUTE
           /\ [N EXCEPT !.dest = f].LINK = N.LINK
<1>1. f \in [Nodes -> Dests]
  BY DEF DestOK
<1>2. Rooted(f, N.ROUTE)
  BY DEF NodeOK, Rooted
<1> QED
  BY <1>1, <1>2, DestsChange

LEMMA UPDATEDESTLISTKeeps ==
    ASSUME NEW N, NodeOK(N)
    PROVE  NodeOK(UPDATEDESTLIST(N))
<1> DEFINE f == [d \in Nodes |-> Aged(N.dest[d])]
<1>1. \A d \in Nodes : f[d] = Aged(N.dest[d]) /\ DestOK(N.dest[d])
  BY DEF NodeOK
<1>2. f = [d \in Nodes |-> f[d]]
  OBVIOUS
<1>3. UPDATEDESTLIST(N) = [N EXCEPT !.dest = f]
  BY DEF UPDATEDESTLIST
<1> HIDE DEF f
<1>4. \A d \in Nodes : /\ DestOK(f[d])
                       /\ Vias(f[d].NRROUTE) \subseteq Vias(N.dest[d].NRROUTE)
  BY <1>1, AgedKeeps
<1> QED
  BY <1>2, <1>3, <1>4, DestsKeep

LEMMA DecayKeeps ==
    ASSUME NEW N, NodeOK(N), NEW m
    PROVE  /\ NodeOK(DecayNETROMRoutes(N, m))
           /\ DecayNETROMRoutes(N, m).ROUTE = N.ROUTE
           /\ DecayNETROMRoutes(N, m).LINK = N.LINK
<1> DEFINE f == [d \in Nodes |-> Decayed(N.dest[d], m)]
<1>1. \A d \in Nodes : f[d] = Decayed(N.dest[d], m) /\ DestOK(N.dest[d])
  BY DEF NodeOK
<1>2. f = [d \in Nodes |-> f[d]]
  OBVIOUS
<1>3. DecayNETROMRoutes(N, m) = [N EXCEPT !.dest = f]
  BY DEF DecayNETROMRoutes
<1> HIDE DEF f
<1>4. \A d \in Nodes : /\ DestOK(f[d])
                       /\ Vias(f[d].NRROUTE) \subseteq Vias(N.dest[d].NRROUTE)
  BY <1>1, DecayedKeeps
<1> QED
  BY <1>2, <1>3, <1>4, DestsKeep

LEMMA L3TRYNEXTDESTKeeps ==
    ASSUME NEW N, NodeOK(N), NEW m
    PROVE  /\ NodeOK(L3TRYNEXTDEST(N, m))
           /\ L3TRYNEXTDEST(N, m).ROUTE = N.ROUTE
           /\ L3TRYNEXTDEST(N, m).LINK = N.LINK
<1> DEFINE f == [d \in Nodes |-> NextTried(N.dest[d], m)]
<1>1. \A d \in Nodes : f[d] = NextTried(N.dest[d], m) /\ DestOK(N.dest[d])
  BY DEF NodeOK
<1>2. f = [d \in Nodes |-> f[d]]
  OBVIOUS
<1>3. L3TRYNEXTDEST(N, m) = [N EXCEPT !.dest = f]
  BY DEF L3TRYNEXTDEST
<1> HIDE DEF f
<1>4. \A d \in Nodes : /\ DestOK(f[d])
                       /\ Vias(f[d].NRROUTE) \subseteq Vias(N.dest[d].NRROUTE)
  BY <1>1, NextTriedKeeps
<1> QED
  BY <1>2, <1>3, <1>4, DestsKeep

-----------------------------------------------------------------------------
(* NODES broadcasts.                                                       *)

LEMMA ScaledType ==
    ASSUME NEW q \in 0..255
    PROVE  Scaled(q) \in 0..255
<1>1. PORTQUALITY \in 1..255
  BY QualAssumption
<1>2. PORTQUALITY * q \in Int /\ PORTQUALITY * q >= 0 /\ PORTQUALITY * q <= 255 * q
  BY <1>1
<1>3. PICK p \in Int : p = PORTQUALITY * q
  BY <1>2
<1>4. p >= 0 /\ p <= 65025
  BY <1>2, <1>3
<1>5. (p + 128) \div 256 \in 0..255
  BY <1>4
<1> QED
  BY <1>3, <1>5 DEF Scaled

LEMMA PROCESSNODEMESSAGEKeeps ==
    ASSUME NEW N, NodeOK(N), NEW r, NEW m \in Nodes, NEW F, NodeOK(F)
    PROVE  NodeOK(PROCESSNODEMESSAGE(N, r, m, F))
<1> DEFINE taken == {d \in Sent(F) \ {r} : Scaled(F.dest[d].NRROUTE[1].quality) >= MINQUAL}
           own(d) == IF d = m THEN PROCROUTES(N.dest[d], m, PORTQUALITY) ELSE N.dest[d]
           f == [d \in Nodes |-> IF d \in taken
                                 THEN PROCROUTES(own(d), m, QualityOf(F, r, d)) ELSE own(d)]
           e == [N.ROUTE[m] EXCEPT !.used = TRUE]
           k == N.LINK[m]
           M == With(N, m, e, k)
<1>1. N \in Tables /\ \A d \in Nodes : DestOK(N.dest[d])
  BY DEF NodeOK
<1>2. \A d \in Nodes : /\ DestOK(own(d))
                       /\ Vias(own(d).NRROUTE) \subseteq Vias(N.dest[d].NRROUTE) \cup {m}
  <2>1. PORTQUALITY \in 0..255
    BY QualAssumption
  <2> QED BY <1>1, <2>1, PROCROUTESKeeps
<1>3. ASSUME NEW d \in taken PROVE QualityOf(F, r, d) \in 0..255 /\ d \in Nodes
  <2>1. d \in Nodes /\ Known(F, d)
    BY DEF Sent
  <2> DEFINE t == F.dest[d].NRROUTE
  <2>2. t \in Seq(Entries) /\ t # << >>
    BY <2>1 DEF Known, NodeOK, DestOK, Ranked
  <2> HIDE DEF t
  <2>3. t[1].quality \in 0..255
    <3>1. 1 \in DOMAIN t
      BY <2>2
    <3> QED BY <2>2, <3>1, EntryFacts
  <2>4. Scaled(t[1].quality) \in 0..255
    BY <2>3, ScaledType
  <2>5. QualityOf(F, r, d) = 0 \/ QualityOf(F, r, d) = Scaled(t[1].quality)
    BY DEF QualityOf, t
  <2>6. 0 \in 0..255
    OBVIOUS
  <2> QED BY <2>1, <2>4, <2>5, <2>6
<1>4. PROCESSNODEMESSAGE(N, r, m, F) = [M EXCEPT !.dest = f]
  BY <1>1 DEF PROCESSNODEMESSAGE, Tables, With
<1>5. \A d \in Nodes : f[d] = IF d \in taken THEN PROCROUTES(own(d), m, QualityOf(F, r, d))
                              ELSE own(d)
  OBVIOUS
<1>6. f = [d \in Nodes |-> f[d]]
  OBVIOUS
<1> HIDE DEF own, taken, f
<1>7. ASSUME NEW d \in Nodes
      PROVE  DestOK(f[d]) /\ Vias(f[d].NRROUTE) \subseteq Vias(N.dest[d].NRROUTE) \cup {m}
  <2>1. CASE d \in taken
    <3>1. /\ DestOK(PROCROUTES(own(d), m, QualityOf(F, r, d)))
          /\ Vias(PROCROUTES(own(d), m, QualityOf(F, r, d)).NRROUTE)
                 \subseteq Vias(own(d).NRROUTE) \cup {m}
      BY <1>2, <1>3, <2>1, PROCROUTESKeeps
    <3> QED BY <3>1, <2>1, <1>5, <1>2
  <2>2. CASE d \notin taken
    BY <2>2, <1>5, <1>2
  <2> QED BY <2>1, <2>2
<1>8. e \in Routes /\ e.used /\ e.LINK = N.ROUTE[m].LINK /\ k \in Links
  BY <1>1 DEF Tables, Routes
<1>9. k.NEIGHBOUR => e.LINK
  BY <1>8 DEF NodeOK, Linked
<1> HIDE DEF e, k
<1>10. /\ NodeOK(M) /\ M.ROUTE = [N.ROUTE EXCEPT ![m] = e] /\ M.ROUTE[m] = e
  <2>1. Fits(N, m, e, k)
    BY <1>8, <1>9, <1>1 DEF Fits, NodeOK, Linked
  <2> QED BY <2>1, LinkChanges DEF Fitted
<1> HIDE DEF M
<1>11. Rooted(f, M.ROUTE)
  <2>1. N.ROUTE \in [Nodes -> Routes] /\ Rooted(N.dest, N.ROUTE)
    BY <1>1 DEF Tables, NodeOK
  <2>2. ASSUME NEW x \in Nodes PROVE N.ROUTE[x].used \/ x = m => M.ROUTE[x].used
    BY <1>8, <1>10, <2>1
  <2>3. ASSUME NEW d \in Nodes, NEW x \in Nodes, x \in Vias(f[d].NRROUTE)
        PROVE  M.ROUTE[x].used
    <3>1. x \in Vias(N.dest[d].NRROUTE) \/ x = m
      BY <1>7, <2>3
    <3> QED BY <2>1, <2>2, <3>1 DEF Rooted
  <2> QED BY <2>3 DEF Rooted
<1>12. f \in [Nodes -> Dests]
  BY <1>6, <1>7 DEF DestOK
<1> QED
  BY <1>4, <1>7, <1>10, <1>11, <1>12, DestsChange

-----------------------------------------------------------------------------
(* Crosslinks.                                                             *)

LEMMA L3LINKCLOSEDKeeps ==
    ASSUME NEW N, NodeOK(N), NEW m \in Nodes
    PROVE  NodeOK(L3LINKCLOSED(N, m))
<1>1. CASE ~N.LINK[m].crosslink \/ ~N.LINK[m].NEIGHBOUR
  BY <1>1 DEF L3LINKCLOSED
<1>2. CASE ~ (~N.LINK[m].crosslink \/ ~N.LINK[m].NEIGHBOUR)
  <2> DEFINE r == [N.ROUTE[m] EXCEPT !.LINK = FALSE]
             k == [N.LINK[m] EXCEPT !.NEIGHBOUR = FALSE]
             M == With(N, m, r, k)
  <2>1. N \in Tables
    BY DEF NodeOK
  <2>2. r \in Routes /\ k \in Links /\ r.used = N.ROUTE[m].used /\ ~r.LINK /\ ~k.NEIGHBOUR
    BY <2>1 DEF Tables, Routes, Links
  <2>3. [N EXCEPT !.LINK[m].NEIGHBOUR = FALSE, !.ROUTE[m].LINK = FALSE] = M
    BY <2>1 DEF Tables, Routes, Links, With
  <2>4. L3LINKCLOSED(N, m) = DecayNETROMRoutes(M, m)
    BY <1>2, <2>3 DEF L3LINKCLOSED
  <2> HIDE DEF r, k
  <2>5. NodeOK(M)
    <3>1. Fits(N, m, r, k)
      BY <2>2 DEF Fits
    <3> QED BY <3>1, LinkChanges DEF Fitted
  <2> HIDE DEF M
  <2> QED BY <2>4, <2>5, DecayKeeps
<1> QED BY <1>1, <1>2

LEMMA NoLinkFacts == NoLink \in Links /\ ~NoLink.NEIGHBOUR
<1>1. << >> \in Seq(Messages)
  OBVIOUS
<1> QED
  BY <1>1 DEF NoLink, Links

LEMMA CLEAROUTLINKKeeps ==
    ASSUME NEW N, NodeOK(N), NEW m \in Nodes
    PROVE  NodeOK(CLEAROUTLINK(N, m))
<1> DEFINE r == N.ROUTE[m]
<1>1. N \in Tables
  BY DEF NodeOK
<1>2. r \in Routes
  BY <1>1 DEF Tables
<1>3. CLEAROUTLINK(N, m) = With(N, m, r, NoLink)
  BY <1>1 DEF CLEAROUTLINK, Tables, With
<1>4. (r.LINK => r.used) /\ (N.ROUTE[m].used => r.used)
  BY DEF NodeOK, Linked
<1> HIDE DEF r
<1>5. NoLink \in Links /\ (NoLink.NEIGHBOUR => r.LINK)
  BY NoLinkFacts
<1>6. NodeOK(With(N, m, r, NoLink))
  <2>1. Fits(N, m, r, NoLink)
    BY <1>2, <1>4, <1>5 DEF Fits
  <2> QED BY <2>1, LinkChanges DEF Fitted
<1> QED
  BY <1>3, <1>6

\* L3LINKSETUPFAILED leaves a link that points to its neighbour, and CLEAROUTLINK
\* follows at once.
LEMMA SetupFailedKeeps ==
    ASSUME NEW N, NodeOK(N), NEW m \in Nodes
    PROVE  NodeOK(CLEAROUTLINK(L3LINKSETUPFAILED(N, m), m))
<1>1. CASE ~N.LINK[m].NEIGHBOUR
  BY <1>1, CLEAROUTLINKKeeps DEF L3LINKSETUPFAILED
<1>2. CASE N.LINK[m].NEIGHBOUR
  <2> DEFINE r == [N.ROUTE[m] EXCEPT !.LINK = FALSE]
             M == With(N, m, r, NoLink)
             P == [N EXCEPT !.ROUTE[m].LINK = FALSE]
             f == [d \in Nodes |-> NextTried(Decayed(N.dest[d], m), m)]
  <2>1. N \in Tables
    BY DEF NodeOK
  <2>2. r \in Routes /\ r.used = N.ROUTE[m].used /\ ~r.LINK
    BY <2>1 DEF Tables, Routes
  <2>3. L3LINKSETUPFAILED(N, m) = L3TRYNEXTDEST(DecayNETROMRoutes(P, m), m)
    BY <1>2 DEF L3LINKSETUPFAILED
  <2>4. CLEAROUTLINK(L3LINKSETUPFAILED(N, m), m) = [P EXCEPT !.dest = f, !.LINK[m] = NoLink]
    BY <2>1, <2>3 DEF CLEAROUTLINK, L3TRYNEXTDEST, DecayNETROMRoutes, Tables
  <2>5. L3TRYNEXTDEST(DecayNETROMRoutes(M, m), m) = [M EXCEPT !.dest = f]
    BY <2>1 DEF L3TRYNEXTDEST, DecayNETROMRoutes, Tables, With
  <2>6. [P EXCEPT !.dest = f, !.LINK[m] = NoLink] = [M EXCEPT !.dest = f]
    BY <2>1 DEF Tables, Routes, With
  <2> HIDE DEF r, f, P
  <2>7. NodeOK(M)
    <3>1. Fits(N, m, r, NoLink)
      BY <2>2, NoLinkFacts DEF Fits
    <3> QED BY <3>1, LinkChanges DEF Fitted
  <2> HIDE DEF M
  <2>8. NodeOK(DecayNETROMRoutes(M, m))
    BY <2>7, DecayKeeps
  <2>9. NodeOK(L3TRYNEXTDEST(DecayNETROMRoutes(M, m), m))
    BY <2>8, L3TRYNEXTDESTKeeps
  <2> QED BY <2>4, <2>5, <2>6, <2>9
<1> QED BY <1>1, <1>2

\* A link's state or queue is of no concern to level 3.
LEMMA StateKeeps ==
    ASSUME NEW N, NodeOK(N), NEW m \in Nodes, NEW x \in {0, 2, 4, 5}, NEW q \in Seq(Messages)
    PROVE  /\ NodeOK([N EXCEPT !.LINK[m].L2STATE = x])
           /\ NodeOK([N EXCEPT !.LINK[m].TX_Q = q])
           /\ [N EXCEPT !.LINK[m].TX_Q = q].dest = N.dest
           /\ [N EXCEPT !.LINK[m].TX_Q = q].ROUTE = N.ROUTE
<1> DEFINE r == N.ROUTE[m]
           k == [N.LINK[m] EXCEPT !.L2STATE = x]
           l == [N.LINK[m] EXCEPT !.TX_Q = q]
<1>1. N \in Tables
  BY DEF NodeOK
<1>2. (r.LINK => r.used) /\ (N.LINK[m].NEIGHBOUR => r.LINK)
  BY DEF NodeOK, Linked
<1>3. /\ r \in Routes /\ (N.ROUTE[m].used => r.used)
      /\ k \in Links /\ (k.NEIGHBOUR => r.LINK)
      /\ l \in Links /\ (l.NEIGHBOUR => r.LINK)
  <2>1. r \in Routes /\ N.LINK[m] \in Links
    BY <1>1 DEF Tables
  <2>2. k \in Links /\ k.NEIGHBOUR = N.LINK[m].NEIGHBOUR
    BY <2>1 DEF Links
  <2>3. l \in Links /\ l.NEIGHBOUR = N.LINK[m].NEIGHBOUR
    BY <2>1 DEF Links
  <2> QED BY <1>2, <2>1, <2>2, <2>3
<1>4. /\ [N EXCEPT !.LINK[m].L2STATE = x] = With(N, m, r, k)
      /\ [N EXCEPT !.LINK[m].TX_Q = q] = With(N, m, r, l)
      /\ [N EXCEPT !.LINK[m].TX_Q = q].dest = N.dest
      /\ [N EXCEPT !.LINK[m].TX_Q = q].ROUTE = N.ROUTE
  BY <1>1 DEF Tables, Routes, Links, With
<1> HIDE DEF r, k, l
<1>5. NodeOK(With(N, m, r, k)) /\ NodeOK(With(N, m, r, l))
  <2>1. Fits(N, m, r, k) /\ Fits(N, m, r, l)
    BY <1>2, <1>3 DEF Fits
  <2> QED BY <2>1, LinkChanges DEF Fitted
<1> QED
  BY <1>4, <1>5

LEMMA SetUpKeeps ==
    ASSUME NEW N, NodeOK(N), NEW m \in Nodes, N.ROUTE[m].used
    PROVE  NodeOK(SetUp(N, m)) /\ SetUp(N, m).dest = N.dest
<1> DEFINE r == [N.ROUTE[m] EXCEPT !.LINK = TRUE]
           k == [N.LINK[m] EXCEPT !.L2STATE = IF @ = 0 THEN 2 ELSE @,
                                  !.NEIGHBOUR = TRUE, !.crosslink = TRUE]
<1>1. N \in Tables
  BY DEF NodeOK
<1>2. Fits(N, m, r, k)
  BY <1>1 DEF Tables, Routes, Links, Fits
<1>3. SetUp(N, m) = With(N, m, r, k)
  <2>1. /\ N.ROUTE \in [Nodes -> Routes] /\ N.LINK \in [Nodes -> Links]
        /\ N = [dest |-> N.dest, ROUTE |-> N.ROUTE, LINK |-> N.LINK]
    BY <1>1 DEF Tables
  <2> DEFINE s == IF N.LINK[m].L2STATE = 0 THEN 2 ELSE N.LINK[m].L2STATE
             K == [N.LINK EXCEPT ![m].L2STATE = s, ![m].NEIGHBOUR = TRUE,
                                 ![m].crosslink = TRUE]
             R == [N.ROUTE EXCEPT ![m].LINK = TRUE]
  <2>2. K = [N.LINK EXCEPT ![m] = k]
    BY <2>1 DEF Links
  <2>3. R = [N.ROUTE EXCEPT ![m] = r]
    BY <2>1 DEF Routes
  <2>4. SetUp(N, m) = [N EXCEPT !.LINK = K, !.ROUTE = R]
    BY <2>1 DEF SetUp
  <2>5. With(N, m, r, k) = [N EXCEPT !.ROUTE = [N.ROUTE EXCEPT ![m] = r],
                                     !.LINK = [N.LINK EXCEPT ![m] = k]]
    BY DEF With
  <2>6. \A x, y : [N EXCEPT !.LINK = x, !.ROUTE = y] = [N EXCEPT !.ROUTE = y, !.LINK = x]
    <3> HIDE DEF r, k, s, K, R
    <3> QED BY <2>1
  <2> HIDE DEF K, R, r, k
  <2> QED
    BY <2>2, <2>3, <2>4, <2>5, <2>6
<1> HIDE DEF r, k
<1>4. NodeOK(With(N, m, r, k)) /\ With(N, m, r, k).dest = N.dest
  <2>1. Fitted(With(N, m, r, k), N, m, r, k)
    BY <1>2, LinkChanges
  <2> QED BY <2>1 DEF Fitted
<1> QED
  BY <1>3, <1>4

LEMMA ActivatedKeeps ==
    ASSUME NEW N, NodeOK(N), NEW m \in Nodes, N.ROUTE[m].used
    PROVE  NodeOK(Activated(N, m)) /\ Activated(N, m).dest = N.dest
  BY SetUpKeeps DEF Activated

LEMMA PassedKeeps ==
    ASSUME NEW N, NodeOK(N), NEW m \in Nodes, NEW d \in Nodes, Known(N, d)
    PROVE  /\ NodeOK(Passed(N, d, m))
           /\ \A c \in Nodes : Passed(N, d, m).dest[c].NRROUTE = N.dest[c].NRROUTE
<1>1. CASE N.LINK[m].L2STATE < 5
  BY <1>1 DEF Passed
<1>2. CASE ~ (N.LINK[m].L2STATE < 5)
  <2> DEFINE q == N.LINK[m].TX_Q \o N.dest[d].DEST_Q
             M == [N EXCEPT !.LINK[m].TX_Q = q]
             D == [N.dest[d] EXCEPT !.DEST_Q = << >>]
  <2>1. N \in Tables /\ DestOK(N.dest[d]) /\ N.dest[d].NRROUTE # << >>
    BY DEF NodeOK, Known
  <2>2. q \in Seq(Messages) /\ << >> \in Seq(Messages)
    BY <2>1 DEF Tables, Links, Dests
  <2>3. Passed(N, d, m) = [M EXCEPT !.dest[d] = D]
    BY <1>2, <2>1 DEF Passed, Tables, Links, Dests
  <2> HIDE DEF q
  <2>4. NodeOK(M) /\ M.dest = N.dest /\ M.ROUTE = N.ROUTE
    BY <2>2, StateKeeps
  <2>5. 0 \in 0..255
    OBVIOUS
  <2>6. DestOK(D) /\ D.NRROUTE = N.dest[d].NRROUTE
    BY <2>1, <2>2, <2>5, RestChanges
  <2> HIDE DEF M, D
  <2>7. /\ NodeOK([M EXCEPT !.dest[d] = D])
        /\ [M EXCEPT !.dest[d] = D].dest = [M.dest EXCEPT ![d] = D]
    BY <2>4, <2>6, DestChanges
  <2> QED BY <2>1, <2>3, <2>4, <2>6, <2>7 DEF Tables
<1> QED BY <1>1, <1>2

\* L3BG brings no neighbour in and takes none out.
LEMMA ForwardKeeps ==
    ASSUME NEW N, NodeOK(N), NEW d \in Nodes, Known(N, d)
    PROVE  /\ NodeOK(Forward(d, N))
           /\ \A c \in Nodes : Forward(d, N).dest[c].NRROUTE = N.dest[c].NRROUTE
<1> DEFINE s == N.dest[d].NRROUTE
           a == ActiveRoute(N.dest[d])
           m == s[a].via
           D == [N.dest[d] EXCEPT !.DEST_ROUTE = a]
           M == [N EXCEPT !.dest[d] = D]
<1>1. N \in Tables /\ DestOK(N.dest[d]) /\ s # << >> /\ s \in Seq(Entries) /\ Len(s) <= 3
  BY DEF NodeOK, Known, DestOK, Ranked
<1>2. a \in DOMAIN s
  BY <1>1 DEF ActiveRoute
<1>3. a \in 0..255
  <2>1. DOMAIN s = 1..Len(s) /\ Len(s) \in Nat /\ Len(s) <= 3
    BY <1>1
  <2> HIDE DEF s, a
  <2>2. a \in 1..3
    BY <1>2, <2>1
  <2> QED BY <2>2
<1>4. m \in Nodes /\ m \in Vias(s)
  <2> HIDE DEF s, a
  <2> QED BY <1>1, <1>2, EntryFacts DEF Vias
<1>5. N.ROUTE[m].used
  <2> HIDE DEF m
  <2> QED BY <1>4 DEF NodeOK, Rooted
<1>6. Forward(d, N) = Passed(Activated(M, m), d, m)
  BY <1>1 DEF Forward, Tables, Dests
<1> HIDE DEF a, m
<1>7. DestOK(D) /\ D.NRROUTE = s
  <2>1. << >> \in Seq(Messages)
    OBVIOUS
  <2> QED BY <1>1, <1>3, <2>1, RestChanges
<1> HIDE DEF D
<1>8. NodeOK(M) /\ M.dest = [N.dest EXCEPT ![d] = D] /\ M.dest[d] = D /\ M.ROUTE = N.ROUTE
  BY <1>7, DestChanges
<1> HIDE DEF M
<1>9. \A c \in Nodes : M.dest[c].NRROUTE = N.dest[c].NRROUTE
  BY <1>1, <1>7, <1>8 DEF Tables
<1>10. NodeOK(Activated(M, m)) /\ Activated(M, m).dest = M.dest
  BY <1>4, <1>5, <1>8, ActivatedKeeps
<1>11. Known(Activated(M, m), d)
  BY <1>1, <1>7, <1>8, <1>10 DEF Known
<1>12. /\ NodeOK(Passed(Activated(M, m), d, m))
       /\ \A c \in Nodes : Passed(Activated(M, m), d, m).dest[c].NRROUTE
                                 = Activated(M, m).dest[c].NRROUTE
  BY <1>4, <1>10, <1>11, PassedKeeps
<1> QED
  BY <1>6, <1>9, <1>10, <1>12

LEMMA L3BGKeeps ==
    ASSUME NEW N, NodeOK(N)
    PROVE  NodeOK(L3BG(N))
<1> DEFINE S == Waiting(N)
           Rec(g) == [x \in SUBSET S |->
                        IF x = {} THEN N ELSE Forward(AnyOf(x), g[x \ {AnyOf(x)}])]
           iter == CHOOSE g : g = Rec(g)
           St == {M \in Tables : /\ NodeOK(M)
                                 /\ \A c \in Nodes : M.dest[c].NRROUTE = N.dest[c].NRROUTE}
<1>1. S \subseteq Nodes /\ IsFiniteSet(S)
  <2>1. S \subseteq Nodes
    BY DEF Waiting
  <2> QED BY <2>1, NodesAssumption, FS_Subset
<1>2. \A d \in S : Known(N, d)
  <2>1. \A d \in Nodes : DestOK(N.dest[d])
    BY DEF NodeOK
  <2> QED BY <2>1 DEF Waiting, DestOK, NoDest, Known
<1>3. N \in St
  BY DEF NodeOK
<1>4. ASSUME NEW d \in S, NEW M \in St PROVE Forward(d, M) \in St
  <2>1. Known(M, d) /\ d \in Nodes /\ NodeOK(M)
    BY <1>1, <1>2 DEF Known
  <2>2. /\ NodeOK(Forward(d, M))
        /\ \A c \in Nodes : Forward(d, M).dest[c].NRROUTE = M.dest[c].NRROUTE
    BY <2>1, ForwardKeeps
  <2> QED BY <2>2 DEF NodeOK
<1>5. L3BG(N) = iter[S]
  BY DEF L3BG, FoldSet, MapThenFoldSet, AnyOf
<1>6. \A x \in SUBSET S : iter[x] = IF x = {} THEN N
                                     ELSE Forward(AnyOf(x), iter[x \ {AnyOf(x)}])
  <2>0. PICK step \in [S -> [St -> St]] :
             step = [d \in S |-> [M \in St |-> Forward(d, M)]]
    <3> HIDE DEF S, St
    <3> QED BY <1>4
  <2>1. PICK f \in [SUBSET S -> St] : IsSetFold(f, N, step, S, Cardinality(S))
    <3> HIDE DEF iter, Rec, S, St
    <3> QED BY <1>1, <1>3, SetFoldExists
  <2>2. \A x \in SUBSET S : x # {} => AnyOf(x) \in S
    BY DEF AnyOf
  <2>3. ASSUME NEW x \in SUBSET S
        PROVE  f[x] = IF x = {} THEN N ELSE step[AnyOf(x)][f[x \ {AnyOf(x)}]]
    <3>1. Cardinality(x) <= Cardinality(S)
      <4> HIDE DEF S
      <4> QED BY <1>1, FS_Subset
    <3> HIDE DEF S, St
    <3> QED BY <2>1, <3>1 DEF IsSetFold
  <2>4. \A x \in SUBSET S :
           f[x] = IF x = {} THEN N ELSE Forward(AnyOf(x), f[x \ {AnyOf(x)}])
    <3> HIDE DEF S, St
    <3> QED BY <2>0, <2>2, <2>3
  <2>5. f = Rec(f)
    <3> HIDE DEF S, St
    <3> QED BY <2>4
  <2>6. iter = Rec(iter)
    BY <2>5
  <2> HIDE DEF iter, S
  <2> QED BY <2>6
<1> HIDE DEF iter, S, St
<1>7. iter[{}] \in St
  BY <1>3, <1>6
<1>8. ASSUME NEW x \in SUBSET S, x # {}, iter[x \ {AnyOf(x)}] \in St
      PROVE  iter[x] \in St
  <2>1. AnyOf(x) \in S
    BY <1>8 DEF AnyOf
  <2> QED BY <1>4, <1>6, <1>8, <2>1
<1>9. iter[S] \in St
  BY <1>1, <1>7, <1>8, SetFoldKeeps
<1> QED
  BY <1>5, <1>9 DEF St

-----------------------------------------------------------------------------
(* Messages.                                                               *)

LEMMA MessageType ==
    ASSUME NEW a \in Nodes, NEW b \in Nodes,
           NEW kind \in {"CREQ", "CACK", "INFO", "IACK", "NCMP"}
    PROVE  Message(a, b, kind) \in Messages /\ Message(a, b, kind).dst = b
<1>1. L3LIVES \in 1..L3LIVES
  BY QualAssumption
<1> QED
  BY <1>1 DEF Message, Messages

LEMMA QueueKeeps ==
    ASSUME NEW N, NodeOK(N), NEW msg \in Messages, Known(N, msg.dst)
    PROVE  NodeOK(Queue(N, msg))
<1> DEFINE d == msg.dst
           D == [N.dest[d] EXCEPT !.DEST_Q = Append(N.dest[d].DEST_Q, msg)]
           q == Append(N.dest[d].DEST_Q, msg)
<1>1. N \in Tables /\ d \in Nodes
  BY DEF NodeOK, Messages
<1>2. DestOK(N.dest[d]) /\ N.dest[d].NRROUTE # << >>
  BY <1>1 DEF NodeOK, Known
<1>3. q \in Seq(Messages) /\ 0 \in 0..255
  BY <1>1 DEF Tables, Dests
<1>4. Queue(N, msg) = [N EXCEPT !.dest[d] = D]
  BY <1>1 DEF Queue, Tables, Dests
<1> HIDE DEF d, q
<1>5. DestOK(D) /\ D.NRROUTE = N.dest[d].NRROUTE
  BY <1>2, <1>3, RestChanges DEF q
<1> HIDE DEF D
<1> QED
  BY <1>1, <1>4, <1>5, DestChanges

LEMMA ReplyKeeps ==
    ASSUME NEW N, NodeOK(N), NEW msg \in Messages
    PROVE  NodeOK(Reply(N, msg))
  BY QueueKeeps DEF Reply

LEMMA CHECKNEIGHBOURKeeps ==
    ASSUME NEW N, NodeOK(N), NEW m \in Nodes
    PROVE  NodeOK(CHECKNEIGHBOUR(N, m)) /\ CHECKNEIGHBOUR(N, m).ROUTE[m].used
<1>1. CASE N.LINK[m].NEIGHBOUR
  BY <1>1 DEF CHECKNEIGHBOUR, NodeOK, Linked
<1>2. CASE ~N.LINK[m].NEIGHBOUR
  <2> DEFINE r == [used |-> TRUE, LINK |-> TRUE]
             k == [N.LINK[m] EXCEPT !.NEIGHBOUR = TRUE]
  <2>1. N \in Tables
    BY DEF NodeOK
  <2>2. Fits(N, m, r, k) /\ r.used
    BY <2>1 DEF Tables, Routes, Links, Fits
  <2>3. CHECKNEIGHBOUR(N, m) = With(N, m, r, k)
    BY <1>2, <2>1 DEF CHECKNEIGHBOUR, Tables, Links, With
  <2> HIDE DEF r, k
  <2>4. NodeOK(With(N, m, r, k)) /\ With(N, m, r, k).ROUTE[m] = r
    <3>1. Fitted(With(N, m, r, k), N, m, r, k)
      BY <2>2, LinkChanges
    <3> QED BY <3>1 DEF Fitted
  <2> QED BY <2>2, <2>3, <2>4
<1> QED BY <1>1, <1>2

LEMMA CHECKL3TABLESKeeps ==
    ASSUME NEW N, NodeOK(N), NEW m \in Nodes, NEW c \in Nodes, N.ROUTE[m].used
    PROVE  /\ NodeOK(CHECKL3TABLES(N, m, c))
           /\ \A d \in Nodes : Known(N, d) => Known(CHECKL3TABLES(N, m, c), d)
<1>1. CASE Known(N, c)
  BY <1>1 DEF CHECKL3TABLES
<1>2. CASE ~Known(N, c)
  <2> DEFINE P == PROCROUTES(N.dest[c], m, 0)
             D == [P EXCEPT !.DEST_ROUTE = 1]
  <2>1. N \in Tables /\ DestOK(N.dest[c]) /\ 0 \in 0..255 /\ 1 \in 0..255
    BY DEF NodeOK
  <2>2. DestOK(P) /\ P.NRROUTE # << >> /\ Vias(P.NRROUTE) \subseteq Vias(N.dest[c].NRROUTE) \cup {m}
    <3> DEFINE D0 == N.dest[c]
    <3>1. DestOK(D0) /\ P = PROCROUTES(D0, m, 0)
      BY <2>1
    <3> HIDE DEF P, D0
    <3>2. DestOK(P) /\ P.NRROUTE # << >> /\ Vias(P.NRROUTE) \subseteq Vias(D0.NRROUTE) \cup {m}
      BY <2>1, <3>1, PROCROUTESKeeps
    <3> QED BY <3>2 DEF D0
  <2>3. CHECKL3TABLES(N, m, c) = [N EXCEPT !.dest[c] = D]
    BY <1>2, <2>1 DEF CHECKL3TABLES, Tables
  <2> HIDE DEF P
  <2>4. DestOK(D) /\ D.NRROUTE = P.NRROUTE
    <3>1. << >> \in Seq(Messages)
      OBVIOUS
    <3> QED BY <2>1, <2>2, <3>1, RestChanges
  <2> HIDE DEF D
  <2>5. \A x \in Nodes : x \in Vias(D.NRROUTE) => x \in Vias(N.dest[c].NRROUTE) \/ N.ROUTE[x].used
    BY <2>2, <2>4
  <2>6. /\ NodeOK([N EXCEPT !.dest[c] = D])
        /\ [N EXCEPT !.dest[c] = D].dest = [N.dest EXCEPT ![c] = D]
    BY <2>4, <2>5, DestChanges
  <2>7. \A d \in Nodes : Known(N, d) => Known(CHECKL3TABLES(N, m, c), d)
    BY <2>1, <2>2, <2>3, <2>4, <2>6 DEF Known, Tables
  <2> QED BY <2>3, <2>6, <2>7
<1> QED BY <1>1, <1>2

LEMMA REFRESHROUTEKeeps ==
    ASSUME NEW N, NodeOK(N), NEW d \in Nodes
    PROVE  NodeOK(REFRESHROUTE(N, d))
<1> DEFINE s == N.dest[d].NRROUTE
           i == N.dest[d].DEST_ROUTE
<1>1. CASE i \notin DOMAIN s
  BY <1>1 DEF REFRESHROUTE
<1>2. CASE i \in DOMAIN s
  <2> DEFINE e == [s[i] EXCEPT !.obs = IF s[i].obs >= LOCKED THEN s[i].obs ELSE OBSINIT]
             t == [s EXCEPT ![i] = e]
             D == [N.dest[d] EXCEPT !.NRROUTE = t]
  <2>1. N \in Tables /\ DestOK(N.dest[d]) /\ s \in Seq(Entries) /\ Ranked(s)
    BY DEF NodeOK, DestOK, Ranked
  <2>2. s[i] \in Entries /\ s[i].obs \in 0..255
    <3> HIDE DEF s, i
    <3> QED BY <1>2, <2>1, EntryFacts
  <2>3. e \in Entries /\ e.via = s[i].via /\ e.quality = s[i].quality
    <3> HIDE DEF s, i
    <3> QED BY <2>2, ObsAssumption DEF Entries
  <2>4. REFRESHROUTE(N, d) = [N EXCEPT !.dest[d] = D]
    BY <1>2, <2>1 DEF REFRESHROUTE, Tables, Dests
  <2> HIDE DEF e
  <2>5. Ranked(t) /\ t # << >> /\ Vias(t) = Vias(s)
    <3> HIDE DEF s, i
    <3> QED BY <1>2, <2>1, <2>3, SlotRanks
  <2> HIDE DEF t
  <2>6. DestOK(D) /\ D.NRROUTE = t
    BY <2>1, <2>5, RoutesChange
  <2> HIDE DEF D
  <2>7. \A x \in Nodes : x \in Vias(D.NRROUTE) => x \in Vias(N.dest[d].NRROUTE)
    BY <2>5, <2>6
  <2> QED BY <2>4, <2>6, <2>7, DestChanges
<1> QED BY <1>1, <1>2

LEMMA FRAMEFORUSKeeps ==
    ASSUME NEW N, NodeOK(N), NEW r \in Nodes, NEW m \in Nodes, NEW msg \in Messages,
           N.ROUTE[m].used
    PROVE  NodeOK(FRAMEFORUS(N, r, m, msg))
<1> DEFINE c == msg.src
<1>1. c \in Nodes /\ msg.kind \in {"CREQ", "CACK", "INFO", "IACK", "NCMP"}
  BY DEF Messages
<1> HIDE DEF c
<1>2. \A kind \in {"CREQ", "CACK", "INFO", "IACK", "NCMP"} : Message(r, c, kind) \in Messages
  BY <1>1, MessageType
<1>3. NodeOK(CHECKL3TABLES(N, m, c)) /\ NodeOK(REFRESHROUTE(N, c))
  BY <1>1, CHECKL3TABLESKeeps, REFRESHROUTEKeeps
<1>4. CASE msg.kind = "CREQ"
  <2>1. FRAMEFORUS(N, r, m, msg) = Reply(CHECKL3TABLES(N, m, c), Message(r, c, "CACK"))
    BY <1>4 DEF FRAMEFORUS, c
  <2> QED BY <1>2, <1>3, <2>1, ReplyKeeps
<1>5. CASE msg.kind = "CACK"
  <2>1. FRAMEFORUS(N, r, m, msg) = Reply(N, Message(r, c, "INFO"))
    BY <1>5 DEF FRAMEFORUS, c
  <2> QED BY <1>2, <2>1, ReplyKeeps
<1>6. CASE msg.kind = "INFO"
  <2>1. FRAMEFORUS(N, r, m, msg) = Reply(REFRESHROUTE(N, c), Message(r, c, "IACK"))
    BY <1>6 DEF FRAMEFORUS, c
  <2> QED BY <1>2, <1>3, <2>1, ReplyKeeps
<1>7. CASE msg.kind = "IACK"
  <2>1. FRAMEFORUS(N, r, m, msg) = REFRESHROUTE(N, c)
    BY <1>7 DEF FRAMEFORUS, c
  <2> QED BY <1>3, <2>1
<1>8. CASE msg.kind = "NCMP"
  <2>1. FRAMEFORUS(N, r, m, msg) = N
    BY <1>8 DEF FRAMEFORUS
  <2> QED BY <2>1
<1> QED BY <1>1, <1>4, <1>5, <1>6, <1>7, <1>8

LEMMA Next3Type ==
    ASSUME NEW i \in 0..255
    PROVE  Next3(i) \in 0..255
  BY DEF Next3

LEMMA NotBackKeeps ==
    ASSUME NEW D, DestOK(D), D.NRROUTE # << >>, NEW m
    PROVE  /\ DestOK(CameBack(D)) /\ CameBack(D).NRROUTE = D.NRROUTE
           /\ DestOK(NotBack(D, m)) /\ NotBack(D, m).NRROUTE = D.NRROUTE
<1> DEFINE a == Next3(D.DEST_ROUTE)
           b == IF D.DEST_ROUTE = 0 THEN IF D.NRROUTE[1].via = m THEN 2 ELSE 0
                ELSE IF D.DEST_ROUTE \in Via(D.NRROUTE, m) THEN Next3(D.DEST_ROUTE)
                ELSE D.DEST_ROUTE
<1>1. D \in Dests /\ D.DEST_ROUTE \in 0..255 /\ << >> \in Seq(Messages)
  BY DEF DestOK, Dests
<1>2. a \in 0..255
  BY <1>1, Next3Type
<1>3. b \in 0..255
  <2>1. 0 \in 0..255 /\ 2 \in 0..255
    OBVIOUS
  <2> QED BY <1>1, <1>2, <2>1
<1>4. CameBack(D) = [D EXCEPT !.DEST_ROUTE = a] /\ NotBack(D, m) = [D EXCEPT !.DEST_ROUTE = b]
  BY <1>1 DEF CameBack, NotBack, Dests
<1> HIDE DEF a, b
<1>5. DestOK([D EXCEPT !.DEST_ROUTE = a]) /\ [D EXCEPT !.DEST_ROUTE = a].NRROUTE = D.NRROUTE
  BY <1>1, <1>2, RestChanges
<1>6. DestOK([D EXCEPT !.DEST_ROUTE = b]) /\ [D EXCEPT !.DEST_ROUTE = b].NRROUTE = D.NRROUTE
  BY <1>1, <1>3, RestChanges
<1> QED
  BY <1>4, <1>5, <1>6

\* A message on its way; it may have made its last hop.
LEMMA RouteKeeps ==
    ASSUME NEW N, NodeOK(N), NEW r \in Nodes, NEW m \in Nodes, NEW msg, N.ROUTE[m].used,
           msg.src \in Nodes, msg.L3TTL # 0 => msg \in Messages
    PROVE  NodeOK(Route(N, r, m, msg))
<1>1. CASE msg.L3TTL = 0 \/ ~Known(N, msg.dst)
  <2>1. Route(N, r, m, msg) = Reply(N, Message(r, msg.src, "NCMP"))
    BY <1>1 DEF Route
  <2>2. Message(r, msg.src, "NCMP") \in Messages
    BY MessageType
  <2> QED BY <2>1, <2>2, ReplyKeeps
<1>2. CASE ~ (msg.L3TTL = 0 \/ ~Known(N, msg.dst)) /\ msg.src = r
           /\ Len(N.dest[msg.dst].NRROUTE) = 1
  BY <1>2 DEF Route
<1>3. CASE ~ (msg.L3TTL = 0 \/ ~Known(N, msg.dst))
           /\ ~ (msg.src = r /\ Len(N.dest[msg.dst].NRROUTE) = 1)
  <2> DEFINE d == msg.dst
             B == IF msg.src = r THEN CameBack(N.dest[d]) ELSE N.dest[d]
             D == NotBack(B, m)
             M == [N EXCEPT !.dest[d] = D]
  <2>1. msg \in Messages /\ d \in Nodes /\ Known(N, d)
    BY <1>3 DEF Messages
  <2>2. N \in Tables /\ DestOK(N.dest[d]) /\ N.dest[d].NRROUTE # << >>
    BY <2>1 DEF NodeOK, Known
  <2>3. Route(N, r, m, msg) = Queue(CHECKL3TABLES(M, m, msg.src), msg)
    BY <1>3, <2>1, <2>2 DEF Route, Tables
  <2>4. DestOK(B) /\ B.NRROUTE = N.dest[d].NRROUTE
    BY <2>2, NotBackKeeps
  <2> HIDE DEF B
  <2>5. DestOK(D) /\ D.NRROUTE = N.dest[d].NRROUTE
    BY <2>2, <2>4, NotBackKeeps
  <2> HIDE DEF D, d
  <2>6. NodeOK(M) /\ M.ROUTE = N.ROUTE /\ M.dest[d] = D
    BY <2>1, <2>5, DestChanges
  <2> HIDE DEF M
  <2>7. Known(M, d)
    BY <2>2, <2>5, <2>6 DEF Known
  <2>8. NodeOK(CHECKL3TABLES(M, m, msg.src)) /\ Known(CHECKL3TABLES(M, m, msg.src), d)
    BY <2>1, <2>6, <2>7, CHECKL3TABLESKeeps
  <2> QED BY <2>1, <2>3, <2>8, QueueKeeps DEF d
<1> QED BY <1>1, <1>2, <1>3

LEMMA NETROMMSGKeeps ==
    ASSUME NEW N, NodeOK(N), NEW r \in Nodes, NEW m \in Nodes, NEW msg \in Messages
    PROVE  NodeOK(NETROMMSG(N, r, m, msg))
<1> DEFINE M == CHECKNEIGHBOUR(N, m)
           hop == [msg EXCEPT !.L3TTL = @ - 1]
<1>1. NodeOK(M) /\ M.ROUTE[m].used
  BY CHECKNEIGHBOURKeeps
<1>2. hop.src \in Nodes /\ (hop.L3TTL # 0 => hop \in Messages)
  <2>1. msg.L3TTL \in 1..L3LIVES /\ L3LIVES \in Int
    BY QualAssumption DEF Messages
  <2>2. msg.L3TTL - 1 # 0 => msg.L3TTL - 1 \in 1..L3LIVES
    BY <2>1
  <2> QED BY <2>2 DEF Messages
<1>3. NETROMMSG(N, r, m, msg) = IF msg.dst = r THEN FRAMEFORUS(M, r, m, msg)
                                ELSE Route(M, r, m, hop)
  BY DEF NETROMMSG
<1> HIDE DEF M, hop
<1>4. NodeOK(FRAMEFORUS(M, r, m, msg)) /\ NodeOK(Route(M, r, m, hop))
  BY <1>1, <1>2, FRAMEFORUSKeeps, RouteKeeps
<1> QED
  BY <1>3, <1>4

-----------------------------------------------------------------------------
(* The steps.                                                              *)

LEMMA TidiedKeeps ==
    ASSUME NEW N, NodeOK(N)
    PROVE  NodeOK(Tidied(N))
<1> DEFINE g == [m \in Nodes |-> IF InUse(N, m) THEN N.ROUTE[m] ELSE NoRoute]
           M == [N EXCEPT !.ROUTE = g]
<1>1. N \in Tables /\ Rooted(N.dest, N.ROUTE) /\ Linked(N.ROUTE, N.LINK)
      /\ \A d \in Nodes : DestOK(N.dest[d])
  BY DEF NodeOK
<1>2. g \in [Nodes -> Routes]
  BY <1>1 DEF Tables, Routes, NoRoute
<1>3. \A m \in Nodes : g[m] = IF InUse(N, m) THEN N.ROUTE[m] ELSE NoRoute
  OBVIOUS
<1>4. Tidied(N) = M
  BY <1>1 DEF Tidied, Tables
<1> HIDE DEF g
<1>5. M \in Tables /\ M.dest = N.dest /\ M.ROUTE = g /\ M.LINK = N.LINK
  BY <1>1, <1>2 DEF Tables
<1>6. Rooted(N.dest, g)
  <2>1. ASSUME NEW d \in Nodes, NEW m \in Nodes, m \in Vias(N.dest[d].NRROUTE)
        PROVE  g[m].used
    <3>1. InUse(N, m)
      BY <2>1 DEF InUse, Vias, Via
    <3> QED BY <1>1, <1>3, <2>1, <3>1 DEF Rooted
  <2> QED BY <2>1 DEF Rooted
<1>7. Linked(g, N.LINK)
  <2>1. ASSUME NEW m \in Nodes
        PROVE  (g[m].LINK => g[m].used) /\ (N.LINK[m].NEIGHBOUR => g[m].LINK)
    <3>1. CASE InUse(N, m)
      BY <1>1, <1>3, <3>1 DEF Linked
    <3>2. CASE ~InUse(N, m)
      <4>1. ~N.ROUTE[m].LINK
        BY <3>2 DEF InUse
      <4>2. ~N.LINK[m].NEIGHBOUR
        BY <1>1, <4>1 DEF Linked
      <4> QED BY <1>3, <3>2, <4>2 DEF NoRoute
    <3> QED BY <3>1, <3>2
  <2> QED BY <2>1 DEF Linked
<1>8. NodeOK(M)
  BY <1>1, <1>5, <1>6, <1>7 DEF NodeOK
<1> QED
  BY <1>4, <1>8

LEMMA FreshOK ==
    ASSUME NEW known, \A d \in Nodes : Ranked(known[d])
    PROVE  NodeOK(Fresh(known))
<1> DEFINE N == Fresh(known)
           f == [d \in Nodes |-> [NoDest EXCEPT !.NRROUTE = known[d]]]
           g == [m \in Nodes |-> [NoRoute EXCEPT !.used = \E d \in Nodes :
                                     \E i \in DOMAIN known[d] : known[d][i].via = m]]
           l == [m \in Nodes |-> NoLink]
<1>1. N.dest = f /\ N.ROUTE = g /\ N.LINK = l /\ N = [dest |-> f, ROUTE |-> g, LINK |-> l]
  BY DEF Fresh
<1>2. ASSUME NEW d \in Nodes PROVE DestOK(f[d]) /\ f[d].NRROUTE = known[d]
  <2>1. known[d] \in Seq(Entries) /\ Ranked(known[d]) /\ << >> \in Seq(Messages) /\ 0 \in 0..255
    BY DEF Ranked
  <2>2. f[d] \in Dests /\ f[d].NRROUTE = known[d]
    BY <2>1 DEF NoDest, Dests
  <2>3. known[d] = << >> => f[d] = NoDest
    BY DEF NoDest
  <2> QED BY <2>1, <2>2, <2>3 DEF DestOK
<1>3. f \in [Nodes -> Dests]
  BY <1>2 DEF DestOK
<1>4. g \in [Nodes -> Routes]
  BY DEF NoRoute, Routes
<1>5. l \in [Nodes -> Links] /\ \A m \in Nodes : l[m].NEIGHBOUR = FALSE
  BY NoLinkFacts DEF NoLink
<1>6. \A m \in Nodes : /\ g[m].LINK = FALSE
                       /\ (\E d \in Nodes : m \in Vias(known[d])) => g[m].used
  BY DEF NoRoute, Vias
<1> HIDE DEF N, f, g, l
<1>7. N \in Tables
  BY <1>1, <1>3, <1>4, <1>5 DEF Tables
<1>8. Rooted(N.dest, N.ROUTE)
  BY <1>1, <1>2, <1>6 DEF Rooted
<1>9. Linked(N.ROUTE, N.LINK)
  BY <1>1, <1>5, <1>6 DEF Linked
<1> QED
  BY <1>1, <1>2, <1>7, <1>8, <1>9 DEF NodeOK, N

\* The tables of one node change.
LEMMA OneChanges ==
    ASSUME NEW f, AllOK(f), NEW n \in Nodes, NEW N, NodeOK(N)
    PROVE  AllOK([f EXCEPT ![n] = N])
<1>1. N \in Tables
  BY DEF NodeOK
<1> QED
  BY <1>1 DEF AllOK

LEMMA L3TimerKeeps ==
    ASSUME AllOK(node), due \subseteq up, NEW n \in Nodes, L3Timer(n)
    PROVE  AllOK(node') /\ due' \subseteq up'
<1>1. PICK F \in {UPDATEDESTLIST(node[n])}, heard \in SUBSET {r \in up : << n, r >> \in net.hears} :
         node' = [r \in Nodes |-> IF r = n THEN Tidied(F)
                                  ELSE IF r \in heard
                                  THEN PROCESSNODEMESSAGE(node[r], r, n, F)
                                  ELSE node[r]]
  BY DEF L3Timer
<1>2. NodeOK(F) /\ NodeOK(Tidied(F))
  BY UPDATEDESTLISTKeeps, TidiedKeeps DEF AllOK
<1>3. \A r \in Nodes : NodeOK(node[r]) /\ NodeOK(PROCESSNODEMESSAGE(node[r], r, n, F))
  BY <1>2, PROCESSNODEMESSAGEKeeps DEF AllOK
<1>4. \A r \in Nodes : NodeOK(node'[r]) /\ node' = [q \in Nodes |-> node'[q]]
  BY <1>1, <1>2, <1>3
<1>5. node' \in [Nodes -> Tables]
  BY <1>4 DEF NodeOK
<1> QED
  BY <1>4, <1>5 DEF AllOK, L3Timer

LEMMA ReceiveKeeps ==
    ASSUME AllOK(node), NEW r \in Nodes, NEW m \in Nodes, Receive(r, m)
    PROVE  AllOK(node')
<1> DEFINE q == node[m].LINK[r].TX_Q
           N == [node[m] EXCEPT !.LINK[r].TX_Q = Tail(q)]
           f == [node EXCEPT ![m] = N]
<1>1. node[m] \in Tables /\ NodeOK(node[m]) /\ node \in [Nodes -> Tables]
  BY DEF AllOK
<1>2. q \in Seq(Messages) /\ q # << >>
  BY <1>1 DEF Tables, Links, Receive, CanReceive
<1>3. PICK msg \in {Head(q)} :
          node' = [node EXCEPT ![m].LINK[r].TX_Q = Tail(@), ![r] = NETROMMSG(@, r, m, msg)]
  BY DEF Receive
<1>4. msg \in Messages /\ Tail(q) \in Seq(Messages)
  <2> HIDE DEF q
  <2> QED BY <1>2, <1>3
<1>5. node' = [f EXCEPT ![r] = NETROMMSG(f[r], r, m, msg)]
  <2>1. r # m
    BY DEF Receive, CanReceive, Carries, Reaches
  <2> QED BY <1>1, <1>3, <2>1 DEF Tables, Links
<1> HIDE DEF q
<1>6. 0 \in {0, 2, 4, 5}
  OBVIOUS
<1>7. NodeOK(N)
  BY <1>1, <1>4, <1>6, StateKeeps
<1> HIDE DEF N
<1>8. AllOK(f)
  BY <1>7, OneChanges
<1> HIDE DEF f
<1>9. NodeOK(NETROMMSG(f[r], r, m, msg))
  BY <1>4, <1>8, NETROMMSGKeeps DEF AllOK
<1> QED
  BY <1>5, <1>8, <1>9, OneChanges

LEMMA AcceptedKeeps ==
    ASSUME NEW N, NodeOK(N), NEW n \in Nodes, NEW active
    PROVE  NodeOK(Accepted(N, n, active))
<1>1. 5 \in {0, 2, 4, 5} /\ 0 \in {0, 2, 4, 5} /\ << >> \in Seq(Messages)
  OBVIOUS
<1>2. NodeOK(L3LINKCLOSED(N, n))
  BY L3LINKCLOSEDKeeps
<1>3. NodeOK([L3LINKCLOSED(N, n) EXCEPT !.LINK[n].TX_Q = << >>])
  <2> DEFINE M == L3LINKCLOSED(N, n)
  <2>1. NodeOK(M)
    BY <1>2
  <2> HIDE DEF M
  <2>2. NodeOK([M EXCEPT !.LINK[n].TX_Q = << >>])
    BY <1>1, <2>1, StateKeeps
  <2> QED BY <2>2 DEF M
<1>4. NodeOK([N EXCEPT !.LINK[n].L2STATE = 5])
  BY <1>1, StateKeeps
<1> QED
  BY <1>3, <1>4 DEF Accepted

LEMMA ClosingKeeps ==
    ASSUME NEW N, NodeOK(N), NEW m \in Nodes
    PROVE  NodeOK(Closing(N, m))
<1> DEFINE M == L3LINKCLOSED(N, m)
<1>1. 4 \in {0, 2, 4, 5} /\ << >> \in Seq(Messages)
  OBVIOUS
<1>2. NodeOK(M)
  BY L3LINKCLOSEDKeeps
<1> HIDE DEF M
<1>3. NodeOK([M EXCEPT !.LINK[m].L2STATE = 4])
  BY <1>1, <1>2, StateKeeps
<1> QED
  BY <1>3 DEF Closing, M

\* The tables of two nodes change.
LEMMA TwoChange ==
    ASSUME NEW f, AllOK(f), NEW n \in Nodes, NEW m \in Nodes, n # m,
           NEW N, NodeOK(N), NEW M, NodeOK(M)
    PROVE  AllOK([f EXCEPT ![n] = N, ![m] = M])
<1>1. N \in Tables /\ M \in Tables
  BY DEF NodeOK
<1> QED
  BY <1>1 DEF AllOK

LEMMA LinkUpKeeps ==
    ASSUME AllOK(node), NEW n \in Nodes, NEW m \in Nodes, LinkUp(n, m)
    PROVE  AllOK(node')
<1> DEFINE N == [node[n] EXCEPT !.LINK[m].L2STATE = 5]
<1>1. n # m
  BY DEF LinkUp, Answers, Reaches
<1>2. NodeOK(node[n]) /\ NodeOK(node[m]) /\ node \in [Nodes -> Tables]
  BY DEF AllOK
<1>3. PICK active \in BOOLEAN :
         node' = [node EXCEPT ![n].LINK[m].L2STATE = 5, ![m] = Accepted(@, n, active)]
  BY DEF LinkUp
<1> DEFINE M == Accepted(node[m], n, active)
<1>4. node' = [node EXCEPT ![n] = N, ![m] = M]
  BY <1>1, <1>2, <1>3 DEF Tables, Links
<1>5. 5 \in {0, 2, 4, 5} /\ << >> \in Seq(Messages)
  OBVIOUS
<1>6. NodeOK(N) /\ NodeOK(M)
  BY <1>2, <1>5, StateKeeps, AcceptedKeeps
<1> HIDE DEF N, M
<1> QED
  BY <1>1, <1>4, <1>6, TwoChange

LEMMA DisconnectsKeeps ==
    ASSUME AllOK(node), NEW n \in Nodes, NEW m \in Nodes, Disconnects(n, m)
    PROVE  AllOK(node')
<1> DEFINE N == CLEAROUTLINK(L3LINKCLOSED(node[n], m), m)
           M == IF node[m].LINK[n].L2STATE = 5
                THEN CLEAROUTLINK(L3LINKCLOSED(node[m], n), n) ELSE node[m]
<1>1. n # m
  BY DEF Disconnects, Reaches
<1>2. NodeOK(node[n]) /\ NodeOK(node[m]) /\ node \in [Nodes -> Tables]
  BY DEF AllOK
<1>3. node' = [node EXCEPT ![n] = N, ![m] = M]
  BY <1>1, <1>2 DEF Disconnects
<1>4. NodeOK(N) /\ NodeOK(M)
  <2>1. NodeOK(L3LINKCLOSED(node[n], m)) /\ NodeOK(L3LINKCLOSED(node[m], n))
    BY <1>2, L3LINKCLOSEDKeeps
  <2> QED BY <1>2, <2>1, CLEAROUTLINKKeeps
<1> HIDE DEF N, M
<1> QED
  BY <1>1, <1>3, <1>4, TwoChange

\* The steps that concern the tables of one node.
LEMMA OneNode ==
    ASSUME AllOK(node), NEW n \in Nodes, NEW m \in Nodes
    PROVE  /\ TidyRoutes(n) => AllOK(node')
           /\ Transfer(n) => AllOK(node')
           /\ Call(n, m) => AllOK(node')
           /\ SetupFails(n, m) => AllOK(node')
           /\ Close(n, m) => AllOK(node')
           /\ Lost(n, m) => AllOK(node')
           /\ GivesUp(n, m) => AllOK(node')
           /\ Crash(n) => AllOK(node')
<1> DEFINE N == node[n]
<1>1. NodeOK(N)
  BY DEF AllOK
<1> HIDE DEF N
<1>2. ASSUME TidyRoutes(n) PROVE AllOK(node')
  <2>1. node' = [node EXCEPT ![n] = Tidied(N)]
    BY <1>2 DEF TidyRoutes, N
  <2>2. NodeOK(Tidied(N))
    BY <1>1, TidiedKeeps
  <2> QED BY <2>1, <2>2, OneChanges
<1>3. ASSUME Transfer(n) PROVE AllOK(node')
  <2>1. node' = [node EXCEPT ![n] = L3BG(N)]
    BY <1>3 DEF Transfer, N
  <2>2. NodeOK(L3BG(N))
    BY <1>1, L3BGKeeps
  <2> QED BY <2>1, <2>2, OneChanges
<1>4. ASSUME Call(n, m) PROVE AllOK(node')
  <2> DEFINE msg == Message(n, m, "CREQ")
  <2>1. node' = [node EXCEPT ![n] = Queue(N, msg)] /\ Known(N, m)
    BY <1>4 DEF Call, N
  <2>2. msg \in Messages /\ msg.dst = m
    BY MessageType
  <2> HIDE DEF msg
  <2>3. NodeOK(Queue(N, msg))
    BY <1>1, <2>1, <2>2, QueueKeeps
  <2> QED BY <2>1, <2>3, OneChanges
<1>5. ASSUME SetupFails(n, m) PROVE AllOK(node')
  <2>1. node' = [node EXCEPT ![n] = CLEAROUTLINK(L3LINKSETUPFAILED(N, m), m)]
    BY <1>5 DEF SetupFails, N
  <2>2. NodeOK(CLEAROUTLINK(L3LINKSETUPFAILED(N, m), m))
    BY <1>1, SetupFailedKeeps
  <2> QED BY <2>1, <2>2, OneChanges
<1>6. ASSUME Close(n, m) PROVE AllOK(node')
  <2>1. node' = [node EXCEPT ![n] = Closing(N, m)]
    BY <1>6 DEF Close, N
  <2>2. NodeOK(Closing(N, m))
    BY <1>1, ClosingKeeps
  <2> QED BY <2>1, <2>2, OneChanges
<1>7. ASSUME Lost(n, m) PROVE AllOK(node')
  <2>1. \/ node' = [node EXCEPT ![n] = CLEAROUTLINK(L3LINKCLOSED(N, m), m)]
        \/ node' = [node EXCEPT ![n] = Closing(N, m)]
    BY <1>7 DEF Lost, N
  <2>2. NodeOK(CLEAROUTLINK(L3LINKCLOSED(N, m), m)) /\ NodeOK(Closing(N, m))
    <3>1. NodeOK(L3LINKCLOSED(N, m))
      BY <1>1, L3LINKCLOSEDKeeps
    <3> QED BY <1>1, <3>1, CLEAROUTLINKKeeps, ClosingKeeps
  <2> QED BY <2>1, <2>2, OneChanges
<1>8. ASSUME GivesUp(n, m) PROVE AllOK(node')
  <2>1. node' = [node EXCEPT ![n] = CLEAROUTLINK(N, m)]
    BY <1>8 DEF GivesUp, N
  <2>2. NodeOK(CLEAROUTLINK(N, m))
    BY <1>1, CLEAROUTLINKKeeps
  <2> QED BY <2>1, <2>2, OneChanges
<1>9. ASSUME Crash(n) PROVE AllOK(node')
  <2>1. node' = [node EXCEPT ![n] = Fresh(Nothing)]
    BY <1>9 DEF Crash
  <2>2. NodeOK(Fresh(Nothing))
    <3>1. \A d \in Nodes : Ranked(Nothing[d])
      BY DEF Nothing, Ranked
    <3> QED BY <3>1, FreshOK
  <2> QED BY <2>1, <2>2, OneChanges
<1> QED
  BY <1>2, <1>3, <1>4, <1>5, <1>6, <1>7, <1>8, <1>9

-----------------------------------------------------------------------------
(* The invariant.                                                          *)

LEMMA InitOK == Init => IInv
<1> SUFFICES ASSUME Init PROVE IInv
  OBVIOUS
<1>1. net \in Networks /\ node = [n \in Nodes |-> Fresh(net.known[n])]
  BY DEF Init
<1>2. \A n \in Nodes : NodeOK(Fresh(net.known[n]))
  BY <1>1, KnownAssumption, FreshOK
<1>3. AllOK(node)
  BY <1>1, <1>2 DEF AllOK, NodeOK
<1> QED
  BY <1>3 DEF Init, IInv

LEMMA NextOK == IInv /\ [Next]_vars => IInv'
<1> SUFFICES ASSUME IInv, [Next]_vars PROVE IInv'
  OBVIOUS
<1>1. AllOK(node) /\ up \subseteq net.nodes /\ due \subseteq up
  BY DEF IInv
<1>2. ASSUME NEW n \in Nodes, L3Timer(n) PROVE IInv'
  <2>1. AllOK(node') /\ due' \subseteq up'
    BY <1>1, <1>2, L3TimerKeeps
  <2> QED BY <1>1, <1>2, <2>1 DEF IInv, L3Timer
<1>3. ASSUME NEW n \in Nodes, TidyRoutes(n) PROVE IInv'
  <2>1. AllOK(node')
    BY <1>1, <1>3, OneNode
  <2> QED BY <1>1, <1>3, <2>1 DEF IInv, TidyRoutes
<1>4. ASSUME NEW n \in Nodes, Transfer(n) PROVE IInv'
  <2>1. AllOK(node')
    BY <1>1, <1>4, OneNode
  <2> QED BY <1>1, <1>4, <2>1 DEF IInv, Transfer
<1>5. ASSUME NEW n \in Nodes, NEW d \in Nodes, Call(n, d) PROVE IInv'
  <2>1. AllOK(node')
    BY <1>1, <1>5, OneNode
  <2> QED BY <1>1, <1>5, <2>1 DEF IInv, Call
<1>6. ASSUME NEW r \in Nodes, NEW m \in Nodes, Receive(r, m) PROVE IInv'
  <2>1. AllOK(node')
    BY <1>1, <1>6, ReceiveKeeps
  <2> QED BY <1>1, <1>6, <2>1 DEF IInv, Receive
<1>7. ASSUME NEW n \in Nodes, NEW m \in Nodes, LinkUp(n, m) PROVE IInv'
  <2>1. AllOK(node')
    BY <1>1, <1>7, LinkUpKeeps
  <2> QED BY <1>1, <1>7, <2>1 DEF IInv, LinkUp
<1>8. ASSUME NEW n \in Nodes, NEW m \in Nodes, SetupFails(n, m) PROVE IInv'
  <2>1. AllOK(node')
    BY <1>1, <1>8, OneNode
  <2> QED BY <1>1, <1>8, <2>1 DEF IInv, SetupFails
<1>9. ASSUME NEW n \in Nodes, NEW m \in Nodes, Close(n, m) PROVE IInv'
  <2>1. AllOK(node')
    BY <1>1, <1>9, OneNode
  <2> QED BY <1>1, <1>9, <2>1 DEF IInv, Close
<1>10. ASSUME NEW n \in Nodes, NEW m \in Nodes, Lost(n, m) PROVE IInv'
  <2>1. AllOK(node')
    BY <1>1, <1>10, OneNode
  <2> QED BY <1>1, <1>10, <2>1 DEF IInv, Lost
<1>11. ASSUME NEW n \in Nodes, NEW m \in Nodes, Disconnects(n, m) PROVE IInv'
  <2>1. AllOK(node')
    BY <1>1, <1>11, DisconnectsKeeps
  <2> QED BY <1>1, <1>11, <2>1 DEF IInv, Disconnects
<1>12. ASSUME NEW n \in Nodes, NEW m \in Nodes, GivesUp(n, m) PROVE IInv'
  <2>1. AllOK(node')
    BY <1>1, <1>12, OneNode
  <2> QED BY <1>1, <1>12, <2>1 DEF IInv, GivesUp
<1>13. ASSUME NEW n \in Nodes, Crash(n) PROVE IInv'
  <2>1. AllOK(node')
    BY <1>1, <1>13, OneNode
  <2> QED BY <1>1, <1>13, <2>1 DEF IInv, Crash
<1>14. ASSUME NEW n \in Nodes, Restart(n) PROVE IInv'
  BY <1>1, <1>14 DEF IInv, Restart
<1>15. CASE UNCHANGED vars
  BY <1>1, <1>15 DEF IInv, vars
<1> QED
  BY <1>2, <1>3, <1>4, <1>5, <1>6, <1>7, <1>8, <1>9, <1>10, <1>11, <1>12, <1>13,
     <1>14, <1>15 DEF Next

\* The tables of every node are always in order: each field has its type, and a
\* destination has at most three routes, each by way of another neighbour, the
\* best first, whatever is heard, ages, fails or is deleted.
THEOREM TablesInOrder == Spec => []TypeOK
<1>1. IInv => TypeOK
  <2> SUFFICES ASSUME IInv PROVE TypeOK
    OBVIOUS
  <2>1. /\ up \subseteq net.nodes /\ due \subseteq up
        /\ \A n \in Nodes : node[n] \in Tables /\ \A d \in Nodes : DestOK(node[n].dest[d])
    BY DEF IInv, AllOK, NodeOK
  <2>2. ASSUME NEW n \in Nodes
        PROVE  /\ node[n].ROUTE \in [Nodes -> [used : BOOLEAN, LINK : BOOLEAN]]
               /\ node[n].LINK \in [Nodes -> [L2STATE : {0, 2, 4, 5}, NEIGHBOUR : BOOLEAN,
                                              crosslink : BOOLEAN, TX_Q : Seq(Messages)]]
    BY <2>1 DEF Tables, Routes, Links
  <2>3. ASSUME NEW n \in Nodes, NEW d \in Nodes
        PROVE  /\ Ranked(node[n].dest[d].NRROUTE)
               /\ node[n].dest[d].DEST_ROUTE \in 0..255
               /\ node[n].dest[d].DEST_Q \in Seq(Messages)
               /\ node[n].dest[d].NRROUTE = << >> => node[n].dest[d] = NoDest
    <3> DEFINE D == node[n].dest[d]
    <3>1. DestOK(D)
      BY <2>1
    <3> HIDE DEF D
    <3>2. /\ Ranked(D.NRROUTE) /\ D.DEST_ROUTE \in 0..255
          /\ D.DEST_Q \in Seq(Messages) /\ (D.NRROUTE = << >> => D = NoDest)
      BY <3>1 DEF DestOK, Dests
    <3> QED BY <3>2 DEF D
  <2> QED BY <2>1, <2>2, <2>3 DEF TypeOK
<1> QED
  BY <1>1, InitOK, NextOK, PTL DEF Spec

\* No route, link or neighbour entry of a node points to a neighbour that has
\* been deleted, and a link that will report its end is known to its neighbour.
THEOREM NothingDangles == Spec => []NoDangling
<1>1. IInv => NoDangling
  <2> SUFFICES ASSUME IInv, NEW n \in Nodes, NEW m \in Nodes
               PROVE  LET N == node[n] IN
                      /\ \A d \in Nodes : Via(N.dest[d].NRROUTE, m) # {} => N.ROUTE[m].used
                      /\ N.ROUTE[m].LINK => N.ROUTE[m].used
                      /\ N.LINK[m].NEIGHBOUR => N.ROUTE[m].LINK
    BY DEF NoDangling
  <2>1. Rooted(node[n].dest, node[n].ROUTE) /\ Linked(node[n].ROUTE, node[n].LINK)
    BY DEF IInv, AllOK, NodeOK
  <2>2. ASSUME NEW d \in Nodes, Via(node[n].dest[d].NRROUTE, m) # {}
        PROVE  m \in Vias(node[n].dest[d].NRROUTE)
    BY <2>2 DEF Via, Vias
  <2> QED BY <2>1, <2>2 DEF Rooted, Linked
<1> QED
  BY <1>1, InitOK, NextOK, PTL DEF Spec
=============================================================================
