------------------------- MODULE BBSSessionsProofs --------------------------
(***************************************************************************)
(* BBSSessions for every number of streams, callers, partners and ports:   *)
(* its type invariant and its four safety invariants, by one inductive     *)
(* invariant, IInv.                                                        *)
(***************************************************************************)
EXTENDS BBSSessions, FoldProofs, SequenceTheorems

(***************************************************************************)
(* The inductive invariant.                                                *)
(***************************************************************************)
States == [conn : [Stream -> Conns], host : [Stream -> Hosts], fwd : [Partner -> Fwds]]

\* What always relates the BBS's and the node's record of a stream.
LocalOK(C, H) ==
    /\ C.running => C.outward
    /\ C.outward => C.Active /\ C.timed /\ C.user \in Partner
    /\ C.timed => C.Active
    /\ C.Active /\ H.sess = "none" /\ ~H.change => C.running
    /\ H.disc => H.sess # "none" \/ H.change
    /\ H.sess # "none" /\ ~C.Active => H.sess = "linked" /\ H.change
    /\ H.sess \in {"node", "calling"} => C.outward
    /\ C.Active /\ ~C.timed =>
          H.disc \/ (H.sess = "none" /\ H.change /\ H.line = "none")
    /\ H.sess = "none" => H.line = "none"
    /\ H.sess = "linked" => H.peer \in Caller
    /\ H.sess = "calling" => ~H.change
    /\ H.sess = "node" /\ H.change => H.line = "none"

\* A change that is not reported yet, while there is a session.
LateOK(C, H) == C.Active /\ H.sess # "none" /\ H.change => C.running \/ H.disc

(***************************************************************************)
(* A session that keeps q's mark.  A session that has ended although the   *)
(* script runs on, because the script index was out of the script, keeps   *)
(* none, and neither does the call that is put on its stream.              *)
(***************************************************************************)
Holds(C, H, q) == /\ C.Active /\ C.user = q /\ C.timed
                  /\ ~(H.sess = "linked" /\ H.change)
                  /\ ~(C.running /\ H.sess = "none" /\ ~H.change)

\* With such an index the end of a session is taken for a line of the script.
Astray(F) == F.ScriptIndex < 0 /\ ~F.MoreLines

Held(S, q) ==
    S.fwd[q].Forwarding =>
      \E n \in Stream : /\ Holds(S.conn[n], S.host[n], q)
                        /\ Astray(S.fwd[q]) => ~S.conn[n].running

Taken(C, H) == /\ C.Active /\ C.timed /\ ~C.outward
               /\ H.sess = "linked" /\ H.port = InterlockPort

Alone(S) == \A m, n \in Stream :
               /\ Taken(S.conn[m], S.host[m]) /\ Taken(S.conn[n], S.host[n])
               /\ m # n
               => S.conn[m].user \notin Partner

SInv(S) == /\ S \in States
           /\ \A n \in Stream : LocalOK(S.conn[n], S.host[n])
           /\ \A q \in Partner : Held(S, q)
           /\ Alone(S)

\* What the BBS leaves behind on a stream, and what the node leaves to it.
Polled(C, H) == /\ H.sess # "none" => C.Active
                /\ H.disc => H.sess # "none"

IInv == /\ SInv(State) /\ turn \in NodeTurn..SlowTurn
        /\ \A n \in Stream : LateOK(conn[n], host[n])
        /\ \A n \in Stream : turn > n => Polled(conn[n], host[n])
        /\ \A n \in Stream : turn \in 1..n => ~host[n].disc

-----------------------------------------------------------------------------
(***************************************************************************)
(* One stream, and one partner's state, at a time.                         *)
(***************************************************************************)
Set(S, n, C, H) == [conn |-> [S.conn EXCEPT ![n] = C],
                    host |-> [S.host EXCEPT ![n] = H], fwd |-> S.fwd]
Mark(S, q, F) == [conn |-> S.conn, host |-> S.host, fwd |-> [S.fwd EXCEPT ![q] = F]]
Put(S, n, C, H, q, F) == Mark(Set(S, n, C, H), q, F)

LEMMA SetFields ==
    ASSUME NEW S \in States, NEW n \in Stream, NEW C \in Conns, NEW H \in Hosts
    PROVE  /\ Set(S, n, C, H) \in States
           /\ Set(S, n, C, H).conn[n] = C /\ Set(S, n, C, H).host[n] = H
           /\ Set(S, n, C, H).fwd = S.fwd
           /\ \A m \in Stream : m # n => /\ Set(S, n, C, H).conn[m] = S.conn[m]
                                         /\ Set(S, n, C, H).host[m] = S.host[m]
  BY DEF Set, States

LEMMA MarkFields ==
    ASSUME NEW S \in States, NEW q \in Partner, NEW F \in Fwds
    PROVE  /\ Mark(S, q, F) \in States
           /\ Mark(S, q, F).conn = S.conn /\ Mark(S, q, F).host = S.host
           /\ Mark(S, q, F).fwd[q] = F
           /\ \A r \in Partner : r # q => Mark(S, q, F).fwd[r] = S.fwd[r]
  BY DEF Mark, States

LEMMA PutFields ==
    ASSUME NEW S \in States, NEW n \in Stream, NEW C \in Conns, NEW H \in Hosts,
           NEW q \in Partner, NEW F \in Fwds
    PROVE  LET T == Put(S, n, C, H, q, F) IN
           /\ T \in States /\ T.conn[n] = C /\ T.host[n] = H /\ T.fwd[q] = F
           /\ \A m \in Stream : m # n => T.conn[m] = S.conn[m] /\ T.host[m] = S.host[m]
           /\ \A r \in Partner : r # q => T.fwd[r] = S.fwd[r]
<1>1. Set(S, n, C, H) \in States
  BY SetFields
<1> QED BY <1>1, SetFields, MarkFields DEF Put

\* n keeps q's mark as well as before, or the mark is off.
StillHeld(C0, H0, F0, C, H, q, F) ==
    F.Forwarding =>
      \/ /\ F0.Forwarding /\ (Astray(F) => Astray(F0))
         /\ Holds(C0, H0, q) => Holds(C, H, q) /\ (C.running => C0.running)
      \/ F0.Forwarding /\ Astray(F0) /\ C0.running /\ ~Astray(F)
      \/ Holds(C, H, q) /\ ~C.running
      \/ Holds(C, H, q) /\ ~Astray(F)

NotTaken(C0, H0, C, H) == Taken(C, H) => Taken(C0, H0) /\ C.user = C0.user

LEMMA PutKeeps ==
    ASSUME NEW S, SInv(S), NEW n \in Stream, NEW C \in Conns, NEW H \in Hosts,
           NEW q \in Partner, NEW F \in Fwds, LocalOK(C, H),
           \A r \in Partner : r # q => ~Holds(S.conn[n], S.host[n], r),
           StillHeld(S.conn[n], S.host[n], S.fwd[q], C, H, q, F),
           NotTaken(S.conn[n], S.host[n], C, H)
    PROVE  SInv(Put(S, n, C, H, q, F))
<1> DEFINE T == Put(S, n, C, H, q, F)
<1>0. S \in States
  BY DEF SInv
<1>1. /\ T \in States /\ T.conn[n] = C /\ T.host[n] = H /\ T.fwd[q] = F
      /\ \A m \in Stream : m # n => T.conn[m] = S.conn[m] /\ T.host[m] = S.host[m]
      /\ \A r \in Partner : r # q => T.fwd[r] = S.fwd[r]
  BY <1>0, PutFields
<1> HIDE DEF T
<1>2. \A m \in Stream : LocalOK(T.conn[m], T.host[m])
  BY <1>1 DEF SInv
<1>3. Alone(T)
  BY <1>1 DEF SInv, Alone, NotTaken
<1>4. ASSUME NEW r \in Partner PROVE Held(T, r)
  <2>1. CASE r # q
    BY <1>1, <2>1 DEF SInv, Held
  <2>2. CASE r = q /\ T.fwd[q].Forwarding
    <3>1. ASSUME S.fwd[q].Forwarding
          PROVE  \E m \in Stream : /\ Holds(S.conn[m], S.host[m], q)
                                   /\ Astray(S.fwd[q]) => ~S.conn[m].running
      BY <3>1 DEF SInv, Held
    <3>2. CASE /\ S.fwd[q].Forwarding /\ (Astray(F) => Astray(S.fwd[q]))
               /\ Holds(S.conn[n], S.host[n], q) =>
                     Holds(C, H, q) /\ (C.running => S.conn[n].running)
      BY <1>1, <3>1, <3>2, <2>2 DEF Held
    <3>3. CASE /\ S.fwd[q].Forwarding /\ Astray(S.fwd[q]) /\ S.conn[n].running
               /\ ~Astray(F)
      BY <1>1, <3>1, <3>3, <2>2 DEF Held
    <3>4. CASE Holds(C, H, q) /\ ~C.running
      BY <1>1, <3>4, <2>2 DEF Held
    <3>5. CASE Holds(C, H, q) /\ ~Astray(F)
      BY <1>1, <3>5, <2>2 DEF Held
    <3> QED BY <1>1, <2>2, <3>2, <3>3, <3>4, <3>5 DEF StillHeld
  <2>3. CASE r = q /\ ~T.fwd[q].Forwarding
    BY <2>3 DEF Held
  <2> QED BY <2>1, <2>2, <2>3
<1> QED BY <1>1, <1>2, <1>3, <1>4 DEF SInv, T

LEMMA SetAlone ==
    ASSUME NEW S, SInv(S), NEW n \in Stream, NEW C \in Conns, NEW H \in Hosts,
           NotTaken(S.conn[n], S.host[n], C, H)
    PROVE  Alone(Set(S, n, C, H))
<1>1. S \in States
  BY DEF SInv
<1> QED BY <1>1, SetFields DEF SInv, Alone, NotTaken

\* The same when no partner's state changes.
LEMMA SetKeeps ==
    ASSUME NEW S, SInv(S), NEW n \in Stream, NEW C \in Conns, NEW H \in Hosts,
           LocalOK(C, H),
           \A q \in Partner : Holds(S.conn[n], S.host[n], q) =>
              Holds(C, H, q) /\ (C.running => S.conn[n].running),
           Alone(Set(S, n, C, H))
    PROVE  SInv(Set(S, n, C, H))
<1> DEFINE T == Set(S, n, C, H)
<1>0. S \in States
  BY DEF SInv
<1>1. /\ T \in States /\ T.conn[n] = C /\ T.host[n] = H /\ T.fwd = S.fwd
      /\ \A m \in Stream : m # n => T.conn[m] = S.conn[m] /\ T.host[m] = S.host[m]
  BY <1>0, SetFields
<1> HIDE DEF T
<1>2. \A m \in Stream : LocalOK(T.conn[m], T.host[m])
  BY <1>1 DEF SInv
<1>3. Alone(T)
  BY DEF T
<1>4. ASSUME NEW r \in Partner PROVE Held(T, r)
  <2>1. CASE S.fwd[r].Forwarding
    <3>1. PICK m \in Stream : /\ Holds(S.conn[m], S.host[m], r)
                              /\ Astray(S.fwd[r]) => ~S.conn[m].running
      BY <2>1 DEF SInv, Held
    <3> QED BY <1>1, <3>1 DEF Held
  <2>2. CASE ~S.fwd[r].Forwarding
    BY <1>1, <2>2 DEF Held
  <2> QED BY <2>1, <2>2
<1> QED BY <1>1, <1>2, <1>3, <1>4 DEF SInv, T

-----------------------------------------------------------------------------
(***************************************************************************)
(* The connect script.                                                     *)
(***************************************************************************)

\* What SessionControl, 2 does to a stream.
Asked(H) == IF H.sess = "none" THEN [H EXCEPT !.change = TRUE] ELSE [H EXCEPT !.disc = TRUE]
Stopped(C) == [C EXCEPT !.running = FALSE]
Calling(H) == [H EXCEPT !.sess = IF @ = "node" THEN "calling" ELSE @]

\* Updates of one of the three.
LEMMA Parts ==
    ASSUME NEW S \in States, NEW n \in Stream
    PROVE  /\ \A H : [S EXCEPT !.host[n] = H] = Set(S, n, S.conn[n], H)
           /\ \A C : [S EXCEPT !.conn[n] = C] = Set(S, n, C, S.host[n])
           /\ \A q, F : [S EXCEPT !.fwd[q] = F] = Mark(S, q, F)
           /\ \A q, F : Mark(S, q, F) = Put(S, n, S.conn[n], S.host[n], q, F)
           /\ S.conn[n] \in Conns /\ S.host[n] \in Hosts
           /\ \A q \in Partner : S.fwd[q] \in Fwds
<1>1. /\ S = [conn |-> S.conn, host |-> S.host, fwd |-> S.fwd]
      /\ S.conn \in [Stream -> Conns] /\ S.host \in [Stream -> Hosts]
      /\ S.fwd \in [Partner -> Fwds]
  BY DEF States
<1>2. [S.conn EXCEPT ![n] = S.conn[n]] = S.conn /\ [S.host EXCEPT ![n] = S.host[n]] = S.host
  BY <1>1
<1>3. \A H : [S EXCEPT !.host[n] = H] = [conn |-> S.conn, host |-> [S.host EXCEPT ![n] = H],
                                        fwd |-> S.fwd]
  BY <1>1
<1>4. \A C : [S EXCEPT !.conn[n] = C] = [conn |-> [S.conn EXCEPT ![n] = C], host |-> S.host,
                                        fwd |-> S.fwd]
  BY <1>1
<1>5. \A q, F : [S EXCEPT !.fwd[q] = F] = [conn |-> S.conn, host |-> S.host,
                                          fwd |-> [S.fwd EXCEPT ![q] = F]]
  BY <1>1
<1> QED BY <1>1, <1>2, <1>3, <1>4, <1>5 DEF Set, Mark, Put

LEMMA DisconnectIs ==
    ASSUME NEW S \in States, NEW n \in Stream
    PROVE  /\ Disconnect(S, n) = Set(S, n, S.conn[n], Asked(S.host[n]))
           /\ Asked(S.host[n]) \in Hosts
<1>1. S.host[n] \in Hosts
  BY Parts
<1>2. Asked(S.host[n]) \in Hosts
  BY <1>1 DEF Asked, Hosts
<1>3. Disconnect(S, n) = [S EXCEPT !.host[n] = Asked(S.host[n])]
  BY DEF Disconnect, Asked
<1> QED BY <1>2, <1>3, Parts

LEMMA QuitIs ==
    ASSUME NEW S \in States, NEW n \in Stream
    PROVE  /\ Quit(S, n) = Set(S, n, Stopped(S.conn[n]), Asked(S.host[n]))
           /\ Stopped(S.conn[n]) \in Conns
<1> DEFINE T == [S EXCEPT !.conn[n].running = FALSE]
<1>1. /\ T = Set(S, n, Stopped(S.conn[n]), S.host[n])
      /\ Stopped(S.conn[n]) \in Conns /\ S.host[n] \in Hosts
  <2>1. T = [S EXCEPT !.conn[n] = Stopped(S.conn[n])]
    BY DEF Stopped
  <2>2. S.conn[n] \in Conns
    BY Parts
  <2>3. Stopped(S.conn[n]) \in Conns
    BY <2>2 DEF Stopped, Conns
  <2> HIDE DEF T
  <2> QED BY <2>1, <2>3, Parts
<1> HIDE DEF T
<1>2. T \in States /\ T.conn[n] = Stopped(S.conn[n]) /\ T.host[n] = S.host[n]
  BY <1>1, SetFields
<1>3. Disconnect(T, n) = Set(T, n, Stopped(S.conn[n]), Asked(S.host[n]))
  BY <1>2, DisconnectIs
<1>4. Set(T, n, Stopped(S.conn[n]), Asked(S.host[n]))
        = Set(S, n, Stopped(S.conn[n]), Asked(S.host[n]))
  BY <1>1 DEF Set, States
<1> QED BY <1>1, <1>3, <1>4 DEF Quit, T

\* The partner's state after a step of the script: the mark and the lock stay,
\* and the index does not go astray.
FwdStep(F0, F) == /\ F \in Fwds
                  /\ F.Forwarding = F0.Forwarding /\ F.locked = F0.locked
                  /\ Astray(F) => Astray(F0)

\* The stream after it.
LineStep(C0, H0, C, H, line) ==
    \/ C = C0 /\ H = H0
    \/ line = "prompt" /\ C = Stopped(C0) /\ H = H0
    \/ C = Stopped(C0) /\ H = Asked(H0)
    \/ C = C0 /\ H = Calling(H0)

WithIndex(F, i) == [F EXCEPT !.ScriptIndex = i]

LEMMA SetIndexIs ==
    ASSUME NEW S \in States, NEW q \in Partner, NEW i \in -2..(ScriptEnd + 1)
    PROVE  /\ SetIndex(S, q, i) = Mark(S, q, WithIndex(S.fwd[q], i))
           /\ WithIndex(S.fwd[q], i) \in Fwds
  BY DEF SetIndex, Mark, States, WithIndex, Fwds

Ended(F) == [F EXCEPT !.MoreLines = FALSE]

LEMMA EndedFacts ==
    ASSUME NEW F \in Fwds, NEW i \in -2..(ScriptEnd + 1)
    PROVE  /\ Ended(F) \in Fwds
           /\ Ended(F).ScriptIndex = F.ScriptIndex /\ Ended(F).MoreLines = FALSE
           /\ Ended(F).Forwarding = F.Forwarding /\ Ended(F).locked = F.locked
           /\ WithIndex(F, i) \in Fwds
           /\ WithIndex(F, i).ScriptIndex = i /\ WithIndex(F, i).MoreLines = F.MoreLines
           /\ WithIndex(F, i).Forwarding = F.Forwarding /\ WithIndex(F, i).locked = F.locked
  BY DEF Ended, WithIndex, Fwds

\* A change of the record alone leaves the stream's two records what they were.
LEMMA MarkIsPut ==
    ASSUME NEW S \in States, NEW n \in Stream, NEW q, NEW F
    PROVE  Mark(S, q, F) = Put(S, n, S.conn[n], S.host[n], q, F)
  BY Parts

LEMMA EndedIs ==
    ASSUME NEW S \in States, NEW q \in Partner
    PROVE  [S EXCEPT !.fwd[q].MoreLines = FALSE] = Mark(S, q, Ended(S.fwd[q]))
<1>1. [S EXCEPT !.fwd[q].MoreLines = FALSE] = [S EXCEPT !.fwd[q] = Ended(S.fwd[q])]
  BY DEF Ended
<1> QED BY <1>1 DEF Mark, States

LEMMA MarkTwice ==
    ASSUME NEW S \in States, NEW q \in Partner, NEW F \in Fwds, NEW G
    PROVE  Mark(Mark(S, q, F), q, G) = Mark(S, q, G)
  BY DEF Mark, States

LEMMA NextLineIs ==
    ASSUME NEW S \in States, NEW n \in Stream, NEW q \in Partner, NEW stray,
           S.conn[n].user = q, S.fwd[q].ScriptIndex \in -1..ScriptEnd
    PROVE  \E C \in Conns, H \in Hosts, F \in Fwds :
              /\ NextLine(S, n, stray) = Put(S, n, C, H, q, F)
              /\ LineStep(S.conn[n], S.host[n], C, H, "event")
              /\ FwdStep(S.fwd[q], F)
              /\ F.ScriptIndex >= 0
              /\ S.fwd[q].ScriptIndex <= 1 => F.ScriptIndex <= ScriptEnd
<1> DEFINE i == S.fwd[q].ScriptIndex + 1
           F0 == S.fwd[q]
           C0 == S.conn[n]
           H0 == S.host[n]
<1>0. /\ F0 \in Fwds /\ C0 \in Conns /\ H0 \in Hosts
      /\ F0.ScriptIndex \in Int /\ i \in 0..3 /\ i \in -2..(ScriptEnd + 1)
  BY DEF States, ScriptEnd, Fwds
<1>1. CASE i = 0 /\ CountOnPort(S, Active(S), InterlockPort, stray) > 0
  <2> DEFINE T == SetIndex(S, q, 0)
             F == WithIndex(F0, 0)
  <2>1. T = Mark(S, q, F) /\ F \in Fwds
    BY SetIndexIs DEF ScriptEnd
  <2>2. T \in States /\ T.conn = S.conn /\ T.host = S.host
    BY <2>1, MarkFields
  <2>3. /\ Quit(T, n) = Set(T, n, Stopped(C0), Asked(H0))
        /\ Stopped(C0) \in Conns /\ Asked(H0) \in Hosts
    BY <2>2, QuitIs, DisconnectIs
  <2>4. NextLine(S, n, stray) = Set(T, n, Stopped(C0), Asked(H0))
    BY <1>1, <2>3 DEF NextLine
  <2>5. Set(T, n, Stopped(C0), Asked(H0)) = Put(S, n, Stopped(C0), Asked(H0), q, F)
    BY <2>1 DEF Set, Put, Mark
  <2>6. FwdStep(F0, F) /\ F.ScriptIndex = 0
    BY <2>1 DEF FwdStep, Astray, WithIndex, Fwds
  <2> QED BY <2>1, <2>3, <2>4, <2>5, <2>6 DEF LineStep, ScriptEnd
<1>2. CASE i <= 1 /\ ~(i = 0 /\ CountOnPort(S, Active(S), InterlockPort, stray) > 0)
  <2> DEFINE T == SetIndex(S, q, 1)
             F == WithIndex(F0, 1)
  <2>1. T = Mark(S, q, F) /\ F \in Fwds
    BY SetIndexIs DEF ScriptEnd
  <2>2. T \in States /\ T.conn = S.conn /\ T.host = S.host
    BY <2>1, MarkFields
  <2>3. SendCommand(T, n) = Set(T, n, C0, Calling(H0)) /\ Calling(H0) \in Hosts
    <3>1. SendCommand(T, n) = [T EXCEPT !.host[n] = Calling(H0)]
      BY <2>2 DEF SendCommand, Calling
    <3>2. Calling(H0) \in Hosts
      BY <1>0 DEF Calling, Hosts
    <3> HIDE DEF T
    <3> QED BY <2>2, <3>1, <3>2, Parts
  <2>4. NextLine(S, n, stray) = Set(T, n, C0, Calling(H0))
    BY <1>2, <2>3 DEF NextLine
  <2>5. Set(T, n, C0, Calling(H0)) = Put(S, n, C0, Calling(H0), q, F)
    BY <2>1 DEF Set, Put, Mark
  <2>6. FwdStep(F0, F) /\ F.ScriptIndex = 1
    BY <2>1 DEF FwdStep, Astray, WithIndex, Fwds
  <2> QED BY <1>0, <2>1, <2>3, <2>4, <2>5, <2>6 DEF LineStep, ScriptEnd
<1>3. CASE ~(i <= 1)
  <2> DEFINE G == WithIndex(F0, i)
             F == Ended(G)
  <2>1. SetIndex(S, q, i) = Mark(S, q, G) /\ G \in Fwds
    BY <1>0, SetIndexIs
  <2>2. /\ F \in Fwds /\ F.ScriptIndex = i
        /\ F.Forwarding = F0.Forwarding /\ F.locked = F0.locked
    <3>1. G.Forwarding = F0.Forwarding /\ G.locked = F0.locked /\ G.ScriptIndex = i
      BY <1>0, EndedFacts
    <3> HIDE DEF G, i
    <3> QED BY <1>0, <2>1, <3>1, EndedFacts
  <2>3. Mark(S, q, G) \in States /\ Mark(S, q, G).fwd[q] = G
    BY <2>1, MarkFields
  <2>4. [SetIndex(S, q, i) EXCEPT !.fwd[q].MoreLines = FALSE] = Mark(S, q, F)
    <3>1. SetIndex(S, q, i) = Mark(S, q, G) /\ G \in Fwds
      BY <2>1
    <3> HIDE DEF G
    <3>2. [Mark(S, q, G) EXCEPT !.fwd[q].MoreLines = FALSE]
              = Mark(Mark(S, q, G), q, Ended(Mark(S, q, G).fwd[q]))
      BY <2>3, EndedIs
    <3>3. Mark(S, q, G).fwd[q] = G
      BY <2>3
    <3>4. Mark(Mark(S, q, G), q, Ended(G)) = Mark(S, q, Ended(G))
      BY <3>1, MarkTwice
    <3> QED BY <3>1, <3>2, <3>3, <3>4
  <2>5. NextLine(S, n, stray) = [SetIndex(S, q, i) EXCEPT !.fwd[q].MoreLines = FALSE]
    BY <1>0, <1>3 DEF NextLine
  <2>6. NextLine(S, n, stray) = Put(S, n, C0, H0, q, F)
    <3>1. Mark(S, q, F) = Put(S, n, C0, H0, q, F)
      <4> HIDE DEF F
      <4> QED BY MarkIsPut
    <3>2. NextLine(S, n, stray) = Mark(S, q, F)
      <4> HIDE DEF F, i
      <4> QED BY <2>4, <2>5
    <3> HIDE DEF F, C0, H0
    <3> QED BY <3>1, <3>2
  <2>7. i = F0.ScriptIndex + 1
    OBVIOUS
  <2>8. LineStep(C0, H0, C0, H0, "event")
    BY DEF LineStep
  <2> HIDE DEF F, G, i, F0
  <2>9. /\ ~(F.ScriptIndex < 0) /\ F.ScriptIndex >= 0
        /\ F0.ScriptIndex <= 1 => F.ScriptIndex <= 2
    <3>1. i \in Int /\ F0.ScriptIndex \in Int /\ F.ScriptIndex = i
      BY <1>0, <2>2
    <3> QED BY <1>3, <2>7, <3>1
  <2>10. FwdStep(F0, F) /\ F.ScriptIndex >= 0
    BY <2>2, <2>9 DEF FwdStep, Astray
  <2> QED BY <1>0, <2>2, <2>6, <2>8, <2>9, <2>10 DEF F0, ScriptEnd
<1> QED BY <1>0, <1>1, <1>2, <1>3
LEMMA PutOnMark ==
    ASSUME NEW S \in States, NEW q \in Partner, NEW F \in Fwds, NEW n, NEW C, NEW H, NEW G
    PROVE  /\ Put(Mark(S, q, F), n, C, H, q, G) = Put(S, n, C, H, q, G)
           /\ Set(Mark(S, q, F), n, C, H) = Put(S, n, C, H, q, F)
  BY DEF Put, Mark, Set, States

\* What a call of the script does to stream n and its partner q.
Scripted(S, n, q, line, C, H, F) ==
    /\ LineStep(S.conn[n], S.host[n], C, H, line)
    /\ FwdStep(S.fwd[q], F)
    /\ F.ScriptIndex >= -1
    /\ line # "event" => F.ScriptIndex <= ScriptEnd
    /\ line = "failure" /\ S.fwd[q].MoreLines /\ S.fwd[q].ScriptIndex # ScriptEnd
       => C = Stopped(S.conn[n]) /\ H = Asked(S.host[n])

LEMMA ScriptIs ==
    ASSUME NEW S \in States, NEW n \in Stream, NEW q \in Partner, NEW stray, NEW line,
           S.conn[n].user = q, S.fwd[q].ScriptIndex \in -1..ScriptEnd
    PROVE  \E C \in Conns, H \in Hosts, F \in Fwds :
              /\ ProcessBBSConnectScript(S, n, line, stray) = Put(S, n, C, H, q, F)
              /\ Scripted(S, n, q, line, C, H, F)
<1> DEFINE F0 == S.fwd[q]
           C0 == S.conn[n]
           H0 == S.host[n]
           i == F0.ScriptIndex
           last == i = ScriptEnd /\ line # "event"
           T == IF last THEN [S EXCEPT !.fwd[q].MoreLines = FALSE] ELSE S
           G == IF last THEN Ended(F0) ELSE F0
           more == T.fwd[q].MoreLines
           R == ProcessBBSConnectScript(S, n, line, stray)
<1>0. F0 \in Fwds /\ C0 \in Conns /\ H0 \in Hosts /\ i \in -1..ScriptEnd
  BY Parts
<1>1. /\ G \in Fwds /\ G.ScriptIndex = i /\ G.Forwarding = F0.Forwarding
      /\ G.locked = F0.locked
      /\ ~last => G = F0
      /\ last => ~G.MoreLines /\ i = ScriptEnd
  <2> HIDE DEF F0
  <2>1. /\ Ended(F0) \in Fwds /\ Ended(F0).ScriptIndex = F0.ScriptIndex
        /\ Ended(F0).MoreLines = FALSE
        /\ Ended(F0).Forwarding = F0.Forwarding /\ Ended(F0).locked = F0.locked
    <3>1. 0 \in -2..(ScriptEnd + 1)
      BY DEF ScriptEnd
    <3> QED BY <1>0, <3>1, EndedFacts
  <2> QED BY <1>0, <2>1
<1>2. T = Mark(S, q, G)
  <2>1. CASE last
    BY <2>1, EndedIs
  <2>2. CASE ~last
    BY <2>2 DEF Mark, States
  <2> QED BY <2>1, <2>2
<1>3. /\ T \in States /\ T.conn = S.conn /\ T.host = S.host /\ T.fwd[q] = G
  <2> HIDE DEF T, G
  <2> QED BY <1>1, <1>2, MarkFields
<1>4. R = IF i # -1 /\ line # "event" /\ ~more THEN CheckForSID(T, n, line)
          ELSE IF line = "failure" THEN Quit(SetIndex(T, q, ScriptEnd), n)
          ELSE IF line \in {"event", "connected"} THEN NextLine(T, n, stray)
          ELSE IF more THEN T
          ELSE CheckForSID(T, n, line)
  BY DEF ProcessBBSConnectScript
<1>5. more = G.MoreLines
  BY <1>3
<1>6. i \in Int /\ i >= -1 /\ i <= ScriptEnd /\ i <= 2
  BY <1>0 DEF ScriptEnd
<1>7. FwdStep(F0, G)
  <2> HIDE DEF G, last, F0
  <2>1. last => ~(G.ScriptIndex < 0)
    BY <1>1, <1>6 DEF ScriptEnd
  <2>2. CASE last
    BY <1>1, <2>1, <2>2 DEF FwdStep, Astray
  <2>3. CASE ~last
    BY <1>1, <2>3 DEF FwdStep
  <2> QED BY <2>2, <2>3
<1> HIDE DEF T, G, more, R, last
<1>a. ASSUME NEW C \in Conns, NEW H \in Hosts, NEW F \in Fwds,
             R = Put(S, n, C, H, q, F), Scripted(S, n, q, line, C, H, F)
      PROVE  \E C1 \in Conns, H1 \in Hosts, F1 \in Fwds :
                /\ R = Put(S, n, C1, H1, q, F1)
                /\ Scripted(S, n, q, line, C1, H1, F1)
  BY <1>a
<1>8. CASE R = CheckForSID(T, n, line) /\ (line = "failure" /\ F0.MoreLines => last)
  <2>1. CASE line = "prompt"
    <3>1. R = Set(T, n, Stopped(C0), H0)
      <4>1. CheckForSID(T, n, line) = [T EXCEPT !.conn[n] = Stopped(T.conn[n])]
        BY <2>1 DEF CheckForSID, Stopped
      <4> QED BY <1>3, <1>8, <4>1, Parts
    <3>2. R = Put(S, n, Stopped(C0), H0, q, G)
      BY <1>1, <1>2, <3>1, PutOnMark
    <3>3. Stopped(C0) \in Conns
      BY QuitIs
    <3>4. LineStep(C0, H0, Stopped(C0), H0, line)
      BY <2>1 DEF LineStep
    <3>5. line # "failure"
      BY <2>1
    <3>6. Scripted(S, n, q, line, Stopped(C0), H0, G)
      BY <1>1, <1>6, <1>7, <3>4, <3>5 DEF Scripted
    <3> QED BY <1>0, <1>1, <1>a, <3>2, <3>3, <3>6 DEF R
  <2>2. CASE line # "prompt"
    <3>1. R = T
      BY <1>8, <2>2 DEF CheckForSID
    <3>2. R = Put(S, n, C0, H0, q, G)
      BY <1>2, <3>1, Parts
    <3>3. LineStep(C0, H0, C0, H0, line)
      BY DEF LineStep
    <3>4. line = "failure" /\ F0.MoreLines => i = ScriptEnd
      BY <1>1, <1>8
    <3>5. Scripted(S, n, q, line, C0, H0, G)
      BY <1>1, <1>6, <1>7, <3>3, <3>4 DEF Scripted
    <3> QED BY <1>0, <1>1, <1>a, <3>2, <3>5 DEF R
  <2> QED BY <2>1, <2>2
<1>9. CASE R = T /\ line # "failure"
  <2>1. R = Put(S, n, C0, H0, q, G)
    BY <1>2, <1>9, Parts
  <2>2. LineStep(C0, H0, C0, H0, line)
    BY DEF LineStep
  <2>3. Scripted(S, n, q, line, C0, H0, G)
    BY <1>1, <1>6, <1>7, <1>9, <2>2 DEF Scripted
  <2> QED BY <1>0, <1>1, <1>a, <2>1, <2>3 DEF R
<1>10. CASE R = Quit(SetIndex(T, q, ScriptEnd), n) /\ line = "failure"
  <2> DEFINE K == WithIndex(G, ScriptEnd)
  <2>1. ScriptEnd \in -2..(ScriptEnd + 1)
    BY DEF ScriptEnd
  <2>2. /\ SetIndex(T, q, ScriptEnd) = Mark(T, q, K) /\ K \in Fwds
        /\ K.ScriptIndex = ScriptEnd /\ K.Forwarding = G.Forwarding /\ K.locked = G.locked
    <3>1. /\ SetIndex(T, q, ScriptEnd) = Mark(T, q, WithIndex(T.fwd[q], ScriptEnd))
          /\ WithIndex(T.fwd[q], ScriptEnd) \in Fwds
      BY <1>3, <2>1, SetIndexIs
    <3>2. /\ K.ScriptIndex = ScriptEnd /\ K.Forwarding = G.Forwarding
          /\ K.locked = G.locked
      BY <1>1, <2>1, EndedFacts
    <3> QED BY <1>3, <3>1, <3>2
  <2>3. Mark(T, q, K) = Mark(S, q, K)
    BY <1>1, <1>2, MarkTwice
  <2> HIDE DEF K
  <2>4. Mark(S, q, K) \in States /\ Mark(S, q, K).conn = S.conn /\ Mark(S, q, K).host = S.host
    BY <2>2, MarkFields
  <2>5. /\ R = Set(Mark(S, q, K), n, Stopped(C0), Asked(H0))
        /\ Stopped(C0) \in Conns /\ Asked(H0) \in Hosts
    BY <1>10, <2>2, <2>3, <2>4, QuitIs, DisconnectIs
  <2>6. R = Put(S, n, Stopped(C0), Asked(H0), q, K)
    BY <2>2, <2>5, PutOnMark
  <2>7. LineStep(C0, H0, Stopped(C0), Asked(H0), line)
    BY DEF LineStep
  <2>8. FwdStep(F0, K) /\ K.ScriptIndex = 2
    <3>1. K.ScriptIndex = 2 /\ K.Forwarding = F0.Forwarding /\ K.locked = F0.locked
      BY <1>1, <2>2 DEF ScriptEnd
    <3> HIDE DEF F0
    <3> QED BY <2>2, <3>1 DEF FwdStep, Astray
  <2>9. Scripted(S, n, q, line, Stopped(C0), Asked(H0), K)
    BY <2>7, <2>8 DEF Scripted, ScriptEnd
  <2> QED BY <1>a, <2>2, <2>5, <2>6, <2>9 DEF R
<1>11. CASE R = NextLine(T, n, stray) /\ line \in {"event", "connected"}
            /\ (line = "connected" => i <= 1)
  <2>1. PICK C \in Conns, H \in Hosts, F \in Fwds :
              /\ NextLine(T, n, stray) = Put(T, n, C, H, q, F)
              /\ LineStep(C0, H0, C, H, "event")
              /\ FwdStep(G, F)
              /\ F.ScriptIndex >= 0
              /\ i <= 1 => F.ScriptIndex <= ScriptEnd
    <3>1. T.conn[n] = C0 /\ T.host[n] = H0 /\ C0.user = q
      BY <1>3
    <3>2. T.fwd[q].ScriptIndex = i /\ i \in -1..ScriptEnd
      BY <1>0, <1>1, <1>3
    <3> HIDE DEF i, C0, H0
    <3> QED BY <1>3, <3>1, <3>2, NextLineIs
  <2>2. R = Put(S, n, C, H, q, F)
    BY <1>1, <1>2, <1>11, <2>1, PutOnMark
  <2>3. LineStep(C0, H0, C, H, line)
    BY <2>1 DEF LineStep
  <2>4. FwdStep(F0, F)
    BY <1>7, <2>1 DEF FwdStep
  <2>5. F.ScriptIndex \in Int
    BY DEF Fwds
  <2>6. Scripted(S, n, q, line, C, H, F)
    <3>1. line # "failure"
      BY <1>11
    <3>2. F.ScriptIndex >= -1
      BY <2>1, <2>5
    <3> QED BY <1>11, <2>1, <2>3, <2>4, <3>1, <3>2 DEF Scripted
  <2> QED BY <1>a, <2>2, <2>6 DEF R
<1>12. /\ line = "connected" /\ ~(i # -1 /\ line # "event" /\ ~more) => i <= 1
       /\ line = "failure" /\ F0.MoreLines /\ ~more => last
  <2>1. last => ~more
    BY <1>1, <1>5
  <2>2. ~last => more = F0.MoreLines
    <3> HIDE DEF F0
    <3> QED BY <1>1, <1>5
  <2>3. line = "connected" /\ i = ScriptEnd => last
    BY DEF last
  <2>4. i # ScriptEnd => i <= 1
    BY <1>6 DEF ScriptEnd
  <2>5. last => i # -1
    BY DEF last, ScriptEnd
  <2> QED BY <2>1, <2>2, <2>3, <2>4, <2>5
<1> QED BY <1>4, <1>8, <1>9, <1>10, <1>11, <1>12 DEF R
-----------------------------------------------------------------------------
(***************************************************************************)
(* The sessions on a port.                                                 *)
(***************************************************************************)
LEMMA StreamFacts == /\ NumberofStreams \in Nat /\ NumberofStreams >= 1
                     /\ \A n \in Stream : n \in Int /\ n \in Nat /\ n >= 1
                                         /\ n <= NumberofStreams
  BY StreamAssumption DEF Stream

\* A session is seen on its own port.
LEMMA Seen ==
    ASSUME NEW S \in States, NEW counted \in SUBSET Stream, NEW n \in counted, NEW stray,
           S.host[n].sess # "none"
    PROVE  SeenPort(S, counted, n, stray) = LinkPort(S.host[n])
<1> DEFINE known == {m \in counted : m <= n /\ S.host[m].sess # "none"}
<1>1. n \in known /\ known \in SUBSET (1..NumberofStreams)
  <2>1. n <= n /\ known \subseteq Stream
    BY StreamFacts
  <2> QED BY <2>1 DEF Stream
<1>2. Max(known) \in known /\ n <= Max(known)
  <2> HIDE DEF known
  <2> QED BY <1>1, StreamFacts, MaxIsGreatest
<1>3. Max(known) = n
  BY <1>2, StreamFacts
<1>4. known # {}
  BY <1>1
<1> HIDE DEF known
<1>5. SeenPort(S, counted, n, stray)
        = IF known = {} THEN stray ELSE LinkPort(S.host[Max(known)])
  BY DEF SeenPort, known
<1> QED BY <1>3, <1>4, <1>5

LEMMA TwoOfThem ==
    ASSUME NEW T \in SUBSET Stream, NEW m \in T, NEW n \in T
    PROVE  Cardinality(T) > 0 /\ (m # n => Cardinality(T) > 1)
<1>1. IsFiniteSet(T)
  <2>1. IsFiniteSet(1..NumberofStreams)
    <3>1. 1 \in Int /\ NumberofStreams \in Int
      BY StreamFacts
    <3> QED BY <3>1, FS_Interval
  <2> QED BY <2>1, FS_Subset DEF Stream
<1>2. Cardinality(T) \in Nat /\ Cardinality(T \ {m}) \in Nat
  BY <1>1, FS_CardinalityType, FS_Subset
<1>3. T # {} /\ Cardinality(T \ {m}) = Cardinality(T) - 1
  BY <1>1, FS_RemoveElement
<1>4. Cardinality(T) # 0
  BY <1>1, <1>3, FS_EmptySet
<1>5. m # n => Cardinality(T \ {m}) # 0
  <2>1. IsFiniteSet(T \ {m}) /\ (m # n => T \ {m} # {})
    BY <1>1, FS_Subset
  <2> QED BY <2>1, FS_EmptySet
<1> QED BY <1>2, <1>3, <1>4, <1>5

\* Two sessions on a port are counted as such, whatever else is.
LEMMA Counted ==
    ASSUME NEW S \in States, NEW counted \in SUBSET Stream, NEW port, NEW stray,
           NEW m \in counted, NEW n \in counted,
           S.host[m].sess # "none", LinkPort(S.host[m]) = port,
           S.host[n].sess # "none", LinkPort(S.host[n]) = port
    PROVE  /\ CountOnPort(S, counted, port, stray) > 0
           /\ m # n => CountOnPort(S, counted, port, stray) > 1
<1> DEFINE T == {k \in counted : SeenPort(S, counted, k, stray) = port}
<1>1. m \in T /\ n \in T /\ T \in SUBSET Stream
  BY Seen
<1>2. CountOnPort(S, counted, port, stray) = Cardinality(T)
  BY DEF CountOnPort
<1> HIDE DEF T
<1> QED BY <1>1, <1>2, TwoOfThem

LEMMA CountedLocked ==
    ASSUME NEW S \in States, NEW counted \in SUBSET Stream, NEW port,
           CountLocked(S, counted, port) > 0
    PROVE  \E m \in counted : LinkPort(S.host[m]) = port
<1> DEFINE T == {k \in counted : LinkPort(S.host[k]) = port}
<1>1. CountLocked(S, counted, port) = Cardinality(T)
  BY DEF CountLocked
<1>2. T # {}
  BY <1>1, FS_EmptySet
<1> QED BY <1>2
-----------------------------------------------------------------------------
(***************************************************************************)
(* The BBS's handling of a change, and of a line.                          *)
(***************************************************************************)
Only(S, T, n) == \A m \in Stream : m # n => /\ T.conn[m] = S.conn[m]
                                           /\ T.host[m] = S.host[m]

\* Where the script of stream n's partner is, if it runs.
InScriptAt(S, n) == S.conn[n].running =>
                       S.fwd[S.conn[n].user].ScriptIndex \in -1..ScriptEnd

\* What is true of a stream before its change is handled, and after.
Pending(C, H) == /\ H.disc => H.sess # "none"
                 /\ H.sess = "node" /\ H.change => C.running
Handled(C, H) == /\ Polled(C, H)
                 /\ H.sess # "none" => ~H.change

\* What Disconnect leaves of the session's own fields, and what it asks for.
LEMMA AskedFields ==
    ASSUME NEW H \in Hosts
    PROVE  /\ Asked(H) \in Hosts
           /\ Asked(H).sess = H.sess /\ Asked(H).peer = H.peer /\ Asked(H).port = H.port
           /\ Asked(H).line = H.line
           /\ Asked(H).change = (H.change \/ H.sess = "none")
           /\ Asked(H).disc = (H.disc \/ H.sess # "none")
  BY DEF Asked, Hosts

LEMMA Fields ==
    ASSUME NEW C \in Conns, NEW H \in Hosts
    PROVE  /\ Stopped(C) \in Conns
           /\ Stopped(C).running = FALSE /\ Stopped(C).outward = C.outward
           /\ Stopped(C).Active = C.Active /\ Stopped(C).timed = C.timed
           /\ Stopped(C).user = C.user
           /\ Asked(H) \in Hosts
           /\ Asked(H).sess = H.sess /\ Asked(H).peer = H.peer /\ Asked(H).port = H.port
           /\ Asked(H).line = H.line
           /\ Asked(H).change = (H.change \/ H.sess = "none")
           /\ Asked(H).disc = (H.disc \/ H.sess # "none")
           /\ Calling(H) \in Hosts
           /\ Calling(H).sess = IF H.sess = "node" THEN "calling" ELSE H.sess
           /\ Calling(H).peer = H.peer /\ Calling(H).port = H.port
           /\ Calling(H).line = H.line /\ Calling(H).change = H.change
           /\ Calling(H).disc = H.disc
  BY DEF Stopped, Asked, Calling, Conns, Hosts

\* What stays true of a stream that has a session.
GoesOn(C0, H0, C, H) ==
    /\ LocalOK(C, H)
    /\ \A q : Holds(C0, H0, q) => Holds(C, H, q) /\ (C.running => C0.running)
    /\ NotTaken(C0, H0, C, H)
    /\ C.Active = C0.Active /\ H.sess # "none" /\ H.change = H0.change
    /\ H.sess = "node" => H0.sess = "node"
    /\ C.running => C0.running
    /\ C.user = C0.user

\* A line of the script, or the news that the session is there, keeps it all.
LEMMA LineKeeps ==
    ASSUME NEW C0 \in Conns, NEW H0 \in Hosts, NEW C \in Conns, NEW H \in Hosts, NEW line,
           LocalOK(C0, H0), H0.sess # "none", H0.sess = "node" => ~H0.change,
           LineStep(C0, H0, C, H, line)
    PROVE  GoesOn(C0, H0, C, H)
<1>1. CASE C = C0 /\ H = H0
  BY <1>1 DEF GoesOn, NotTaken
<1>2. CASE C = Stopped(C0) /\ H = H0
  <2>1. /\ C.running = FALSE /\ C.outward = C0.outward /\ C.Active = C0.Active
        /\ C.timed = C0.timed /\ C.user = C0.user /\ H = H0
    BY <1>2, Fields
  <2>2. LocalOK(C, H)
    BY <2>1 DEF LocalOK
  <2>3. NotTaken(C0, H0, C, H)
    BY <2>1 DEF NotTaken, Taken
  <2>4. \A q : Holds(C0, H0, q) => Holds(C, H, q)
    BY <2>1 DEF Holds
  <2> QED BY <2>1, <2>2, <2>3, <2>4 DEF GoesOn
<1>3. CASE C = Stopped(C0) /\ H = Asked(H0)
  <2>1. /\ C.running = FALSE /\ C.outward = C0.outward /\ C.Active = C0.Active
        /\ C.timed = C0.timed /\ C.user = C0.user
        /\ H.sess = H0.sess /\ H.peer = H0.peer /\ H.port = H0.port /\ H.line = H0.line
        /\ H.change = H0.change /\ H.disc = TRUE
    <3>1. H0.change \in BOOLEAN /\ H.change \in BOOLEAN /\ H.disc \in BOOLEAN
      BY DEF Hosts
    <3> QED BY <1>3, <3>1, Fields
  <2>2. LocalOK(C, H)
    BY <2>1 DEF LocalOK
  <2>3. NotTaken(C0, H0, C, H)
    BY <2>1 DEF NotTaken, Taken
  <2>4. \A q : Holds(C0, H0, q) => Holds(C, H, q)
    BY <2>1 DEF Holds
  <2> QED BY <2>1, <2>2, <2>3, <2>4 DEF GoesOn
<1>4. CASE C = C0 /\ H = Calling(H0)
  BY <1>4, Fields DEF GoesOn, LocalOK, NotTaken, Taken, Holds
<1> QED BY <1>1, <1>2, <1>3, <1>4 DEF LineStep

LEMMA ScriptKeeps ==
    ASSUME NEW S, SInv(S), NEW n \in Stream, NEW stray, NEW line,
           S.conn[n].running, InScriptAt(S, n), S.host[n].sess # "none",
           S.host[n].sess = "node" => ~S.host[n].change
    PROVE  LET T == ProcessBBSConnectScript(S, n, line, stray) IN
           /\ SInv(T) /\ Only(S, T, n)
           /\ T.conn[n].Active /\ T.host[n].sess # "none"
           /\ T.host[n].change = S.host[n].change
           /\ T.host[n].sess = "node" => S.host[n].sess = "node"
           /\ line # "event" => InScriptAt(T, n)
<1> DEFINE q == S.conn[n].user
           C0 == S.conn[n]
           H0 == S.host[n]
           T == ProcessBBSConnectScript(S, n, line, stray)
<1>1. /\ S \in States /\ LocalOK(C0, H0) /\ q \in Partner /\ C0.Active
      /\ S.fwd[q].ScriptIndex \in -1..ScriptEnd
      /\ C0 \in Conns /\ H0 \in Hosts /\ S.fwd[q] \in Fwds
  BY Parts DEF SInv, LocalOK, InScriptAt
<1>2. PICK C \in Conns, H \in Hosts, F \in Fwds :
         T = Put(S, n, C, H, q, F) /\ Scripted(S, n, q, line, C, H, F)
  <2> HIDE DEF T, q
  <2>1. ProcessBBSConnectScript(S, n, line, stray) = T /\ S.conn[n].user = q
    BY DEF T, q
  <2> QED BY <1>1, <2>1, ScriptIs
<1> HIDE DEF T
<1>3. LineStep(C0, H0, C, H, line) /\ FwdStep(S.fwd[q], F)
  BY <1>2 DEF Scripted
<1>4. /\ LocalOK(C, H) /\ NotTaken(C0, H0, C, H)
      /\ \A r : Holds(C0, H0, r) => Holds(C, H, r) /\ (C.running => C0.running)
      /\ C.Active = C0.Active /\ H.sess # "none" /\ H.change = H0.change
      /\ H.sess = "node" => H0.sess = "node"
      /\ C.user = C0.user
  <2>1. H0.sess # "none" /\ (H0.sess = "node" => ~H0.change)
    OBVIOUS
  <2> HIDE DEF C0, H0
  <2>2. GoesOn(C0, H0, C, H)
    BY <1>1, <1>3, <2>1, LineKeeps
  <2> QED BY <2>2 DEF GoesOn
<1>5. StillHeld(C0, H0, S.fwd[q], C, H, q, F)
  BY <1>3, <1>4 DEF StillHeld, FwdStep
<1>6. \A r \in Partner : r # q => ~Holds(C0, H0, r)
  BY DEF Holds
<1>7. SInv(T)
  <2> HIDE DEF q, C0, H0
  <2>1. S.conn[n] = C0 /\ S.host[n] = H0
    BY DEF C0, H0
  <2> QED BY <1>1, <1>2, <1>4, <1>5, <1>6, <2>1, PutKeeps
<1>8. /\ T.conn[n] = C /\ T.host[n] = H /\ T.fwd[q] = F
      /\ \A m \in Stream : m # n => T.conn[m] = S.conn[m] /\ T.host[m] = S.host[m]
  BY <1>1, <1>2, PutFields
<1>9. line # "event" => InScriptAt(T, n)
  <2>1. line # "event" => F.ScriptIndex >= -1 /\ F.ScriptIndex <= ScriptEnd
    BY <1>2 DEF Scripted
  <2>2. F.ScriptIndex \in Int
    BY DEF Fwds
  <2> QED BY <1>4, <1>8, <2>1, <2>2 DEF InScriptAt, ScriptEnd
<1> QED BY <1>1, <1>4, <1>7, <1>8, <1>9 DEF Only, T

\* The session is there: its change is cleared.
Told(H) == [H EXCEPT !.change = FALSE]

LEMMA ToldFields ==
    ASSUME NEW H \in Hosts
    PROVE  /\ Told(H) \in Hosts /\ Told(H).change = FALSE
           /\ Told(H).sess = H.sess /\ Told(H).peer = H.peer /\ Told(H).port = H.port
           /\ Told(H).line = H.line /\ Told(H).disc = H.disc
  BY DEF Told, Hosts

LEMMA ToldIs ==
    ASSUME NEW S \in States, NEW n \in Stream
    PROVE  [S EXCEPT !.host[n].change = FALSE] = Set(S, n, S.conn[n], Told(S.host[n]))
<1>1. [S EXCEPT !.host[n].change = FALSE] = [S EXCEPT !.host[n] = Told(S.host[n])]
  BY DEF Told
<1> QED BY <1>1, Parts

LEMMA SetTwice ==
    ASSUME NEW S \in States, NEW n \in Stream, NEW C \in Conns, NEW H \in Hosts, NEW C1, NEW H1
    PROVE  Set(Set(S, n, C, H), n, C1, H1) = Set(S, n, C1, H1)
  BY DEF Set, States

\* A caller's session: refused, and then it will be disconnected, or timed.
LEMMA IncomingIs ==
    ASSUME NEW S \in States, NEW n \in Stream, NEW stray,
           S.host[n].sess = "linked", S.host[n].peer \in Caller
    PROVE  \E C \in Conns, H \in Hosts :
              /\ Incoming(S, n, stray) = Set(S, n, C, H)
              /\ C.Active /\ ~C.running /\ ~C.outward
              /\ H = S.host[n] \/ H = Asked(S.host[n])
              /\ C.timed => H = S.host[n]
              /\ ~C.timed => H = Asked(S.host[n])
              /\ C.timed /\ S.host[n].port = InterlockPort =>
                    \A m \in Stream :
                       Taken(S.conn[m], S.host[m]) /\ m # n =>
                         C.user \notin Partner /\ S.conn[m].user \notin Partner
<1> DEFINE c == S.host[n].peer
           H0 == S.host[n]
           A == [IdleConn EXCEPT !.Active = TRUE, !.user = c]
           N == [S EXCEPT !.conn[n] = A]
           B == [A EXCEPT !.user = NoUser]
           D == [A EXCEPT !.timed = TRUE]
<1>1. /\ A \in Conns /\ A.Active /\ ~A.running /\ ~A.outward /\ ~A.timed /\ A.user = c
      /\ B \in Conns /\ B.Active /\ ~B.running /\ ~B.outward /\ ~B.timed
      /\ D \in Conns /\ D.Active /\ ~D.running /\ ~D.outward /\ D.timed /\ D.user = c
  BY DEF IdleConn, Conns
<1>2. N = Set(S, n, A, H0) /\ H0 \in Hosts
  <2> HIDE DEF A
  <2> QED BY Parts
<1>3. Asked(H0) \in Hosts
  BY DisconnectIs
<1> HIDE DEF A, B, D
<1>4. N \in States /\ N.conn[n] = A /\ N.host[n] = H0 /\ N.host = S.host
      /\ \A m \in Stream : m # n => N.conn[m] = S.conn[m]
  <2>1. N \in States /\ N.conn[n] = A /\ N.host[n] = H0
        /\ \A m \in Stream : m # n => N.conn[m] = S.conn[m]
    <3> HIDE DEF N, H0
    <3> QED BY <1>1, <1>2, SetFields
  <2>2. N.host = S.host
    OBVIOUS
  <2> QED BY <2>1, <2>2
<1>5. [N EXCEPT !.conn[n].user = NoUser] = Set(S, n, B, H0)
  <2>1. [N EXCEPT !.conn[n].user = NoUser] = [N EXCEPT !.conn[n] = B]
    BY <1>4 DEF B
  <2> HIDE DEF N
  <2>2. [N EXCEPT !.conn[n] = B] = Set(N, n, B, H0)
    BY <1>4, Parts
  <2> QED BY <1>1, <1>2, <2>1, <2>2, SetTwice
<1>6. [N EXCEPT !.conn[n].timed = TRUE] = Set(S, n, D, H0)
  <2>1. [N EXCEPT !.conn[n].timed = TRUE] = [N EXCEPT !.conn[n] = D]
    BY <1>4 DEF D
  <2> HIDE DEF N
  <2>2. [N EXCEPT !.conn[n] = D] = Set(N, n, D, H0)
    BY <1>4, Parts
  <2> QED BY <1>1, <1>2, <2>1, <2>2, SetTwice
<1> DEFINE refused == RefuseIncomingSession(N, c, LinkPort(S.host[n]), stray)
<1>7. Incoming(S, n, stray) =
        IF c \in Stranger THEN Disconnect(Set(S, n, B, H0), n)
        ELSE IF refused THEN Disconnect(N, n) ELSE Set(S, n, D, H0)
  <2>1. Incoming(S, n, stray) =
          IF c \in Stranger THEN Disconnect([N EXCEPT !.conn[n].user = NoUser], n)
          ELSE IF refused THEN Disconnect(N, n) ELSE [N EXCEPT !.conn[n].timed = TRUE]
    BY DEF Incoming, A
  <2> HIDE DEF N, refused
  <2> QED BY <1>5, <1>6, <2>1
<1> HIDE DEF N
<1>8. ASSUME NEW K \in Conns
      PROVE  Disconnect(Set(S, n, K, H0), n) = Set(S, n, K, Asked(H0))
  <2>1. /\ Set(S, n, K, H0) \in States /\ Set(S, n, K, H0).conn[n] = K
        /\ Set(S, n, K, H0).host[n] = H0
    BY <1>2, SetFields
  <2>2. Disconnect(Set(S, n, K, H0), n) = Set(Set(S, n, K, H0), n, K, Asked(H0))
    BY <2>1, DisconnectIs
  <2> QED BY <1>2, <2>2, SetTwice
<1>9. CASE c \in Stranger
  BY <1>1, <1>3, <1>7, <1>8, <1>9
<1>10. CASE c \notin Stranger /\ refused
  BY <1>1, <1>2, <1>3, <1>7, <1>8, <1>10
<1>11. CASE c \notin Stranger /\ ~refused
  <2>1. ASSUME NEW m \in Stream, Taken(S.conn[m], S.host[m]), m # n,
               H0.port = InterlockPort
        PROVE  c \notin Partner /\ S.conn[m].user \notin Partner
    <3>1. /\ LinkPort(H0) = InterlockPort /\ LinkPort(N.host[n]) = InterlockPort
          /\ LinkPort(N.host[m]) = InterlockPort
          /\ N.host[m].sess # "none" /\ N.host[n].sess # "none"
      BY <1>4, <2>1 DEF LinkPort, Taken
    <3>2. N.conn[m] = S.conn[m] /\ N.conn[m].Active /\ N.conn[n].Active
      BY <1>1, <1>4, <2>1 DEF Taken
    <3>3. ~(CountOnPort(N, Against(N, c), InterlockPort, stray)
              > IF c \in Partner THEN 1 ELSE 0)
      BY <1>11, <3>1 DEF RefuseIncomingSession
    <3>4. CASE c \in Partner
      <4>1. m \in Active(N) /\ n \in Active(N) /\ Active(N) \in SUBSET Stream
            /\ Against(N, c) = Active(N)
        BY <3>2, <3>4 DEF Active, Against
      <4>2. CountOnPort(N, Active(N), InterlockPort, stray) > 1
        <5> HIDE DEF refused
        <5> QED BY <1>4, <2>1, <3>1, <4>1, Counted
      <4> QED BY <3>3, <3>4, <4>1, <4>2
    <3>5. CASE c \notin Partner /\ S.conn[m].user \in Partner
      <4>1. m \in WithPartner(N) /\ WithPartner(N) \in SUBSET Stream
            /\ Against(N, c) = WithPartner(N)
        BY <3>2, <3>5 DEF Active, WithPartner, Against
      <4>2. CountOnPort(N, WithPartner(N), InterlockPort, stray) > 0
        BY <1>4, <3>1, <4>1, Counted
      <4> QED BY <3>3, <3>5, <4>1, <4>2
    <3> QED BY <3>4, <3>5
  <2>2. Incoming(S, n, stray) = Set(S, n, D, H0)
    BY <1>7, <1>11
  <2> QED BY <1>1, <1>2, <2>1, <2>2
<1> QED BY <1>9, <1>10, <1>11
\* What handling a change comes to.
Settled(S, T, n) == /\ SInv(T) /\ Only(S, T, n) /\ Handled(T.conn[n], T.host[n])
                    /\ ~S.conn[n].running => ~T.conn[n].running

LEMMA IncomingKeeps ==
    ASSUME NEW S, SInv(S), NEW n \in Stream, NEW stray,
           S.host[n].sess = "linked", S.host[n].change
    PROVE  Settled(S, Incoming([S EXCEPT !.host[n].change = FALSE], n, stray), n)
<1> DEFINE C0 == S.conn[n]
           H0 == S.host[n]
           H1 == Told(H0)
           S1 == [S EXCEPT !.host[n].change = FALSE]
           T == Incoming(S1, n, stray)
<1>1. S \in States /\ C0 \in Conns /\ H0 \in Hosts /\ LocalOK(C0, H0)
  BY Parts DEF SInv
<1>2. S1 = Set(S, n, C0, H1)
  BY <1>1, ToldIs
<1>3. /\ H1 \in Hosts /\ H1.change = FALSE /\ H1.sess = "linked" /\ H1.port = H0.port
      /\ H1.peer = H0.peer /\ H0.peer \in Caller
  <2>1. H0.sess = "linked" /\ H0.peer \in Caller
    BY <1>1 DEF LocalOK
  <2> HIDE DEF H0
  <2> QED BY <1>1, <2>1, ToldFields
<1> HIDE DEF S1, T, H1
<1>4. /\ S1 \in States /\ S1.conn[n] = C0 /\ S1.host[n] = H1
      /\ \A m \in Stream : m # n => S1.conn[m] = S.conn[m] /\ S1.host[m] = S.host[m]
  <2> HIDE DEF C0
  <2> QED BY <1>1, <1>2, <1>3, SetFields
<1>5. PICK C \in Conns, H \in Hosts :
              /\ T = Set(S1, n, C, H)
              /\ C.Active /\ ~C.running /\ ~C.outward
              /\ H = H1 \/ H = Asked(H1)
              /\ C.timed => H = H1
              /\ ~C.timed => H = Asked(H1)
              /\ C.timed /\ H1.port = InterlockPort =>
                    \A m \in Stream :
                       Taken(S1.conn[m], S1.host[m]) /\ m # n =>
                         C.user \notin Partner /\ S1.conn[m].user \notin Partner
  <2>1. S1.host[n].sess = "linked" /\ S1.host[n].peer \in Caller
    BY <1>3, <1>4
  <2> QED BY <1>4, <2>1, IncomingIs DEF T
<1>6. T = Set(S, n, C, H)
  BY <1>1, <1>2, <1>3, <1>5, SetTwice
<1>7. /\ H.sess = "linked" /\ H.change = FALSE /\ H.peer \in Caller /\ H.port = H1.port
      /\ ~C.timed => H.disc
  <2>1. CASE H = H1 /\ C.timed
    BY <1>3, <2>1
  <2>2. CASE H = Asked(H1)
    <3>1. /\ Asked(H1).sess = "linked" /\ Asked(H1).peer = H1.peer /\ Asked(H1).port = H1.port
          /\ Asked(H1).disc /\ ~Asked(H1).change
      BY <1>3, Fields
    <3>2. H.change \in BOOLEAN
      BY DEF Hosts
    <3> QED BY <1>3, <2>2, <3>1, <3>2
  <2> QED BY <1>5, <2>1, <2>2
<1>8. LocalOK(C, H)
  BY <1>5, <1>7 DEF LocalOK
<1>9. Alone(T)
  <2>1. /\ T.conn[n] = C /\ T.host[n] = H
        /\ \A m \in Stream : m # n => T.conn[m] = S.conn[m] /\ T.host[m] = S.host[m]
    BY <1>1, <1>6, SetFields
  <2>2. ASSUME NEW m \in Stream, m # n, Taken(S.conn[m], S.host[m]), Taken(C, H)
        PROVE  C.user \notin Partner /\ S.conn[m].user \notin Partner
    <3>1. C.timed /\ H1.port = InterlockPort
      BY <1>7, <2>2 DEF Taken
    <3>2. Taken(S1.conn[m], S1.host[m]) /\ S1.conn[m] = S.conn[m]
      BY <1>4, <2>2
    <3> QED BY <1>5, <2>2, <3>1, <3>2
  <2>3. ASSUME NEW k \in Stream, NEW m \in Stream, k # m,
               Taken(T.conn[k], T.host[k]), Taken(T.conn[m], T.host[m])
        PROVE  T.conn[k].user \notin Partner
    <3>1. CASE k = n
      BY <2>1, <2>2, <2>3, <3>1
    <3>2. CASE m = n
      BY <2>1, <2>2, <2>3, <3>2
    <3>3. CASE k # n /\ m # n
      BY <2>1, <2>3, <3>3 DEF SInv, Alone
    <3> QED BY <3>1, <3>2, <3>3
  <2> QED BY <2>3 DEF Alone
<1>10. \A q : ~Holds(C0, H0, q)
  BY DEF Holds
<1>11. SInv(T)
  <2> HIDE DEF C0, H0
  <2>1. S.conn[n] = C0 /\ S.host[n] = H0
    BY DEF C0, H0
  <2> QED BY <1>6, <1>8, <1>9, <1>10, <2>1, SetKeeps
<1>12. Only(S, T, n) /\ T.conn[n] = C /\ T.host[n] = H
  BY <1>1, <1>6, SetFields DEF Only
<1>13. Handled(C, H)
  BY <1>5, <1>7 DEF Handled, Polled
<1> QED BY <1>5, <1>11, <1>12, <1>13 DEF Settled, S1, T

Unmarked(F) == [F EXCEPT !.Forwarding = FALSE]

\* The end of a session.
LEMMA CloseKeeps ==
    ASSUME NEW S \in States, NEW S1 \in States, NEW n \in Stream, NEW H \in Hosts, SInv(S),
           S1 = Set(S, n, S.conn[n], H), LocalOK(IdleConn, H)
    PROVE  LET T == Close(S1, n) IN
           SInv(T) /\ Only(S, T, n) /\ T.conn[n] = IdleConn /\ T.host[n] = H
<1> DEFINE T == Close(S1, n)
           C0 == S.conn[n]
           q == C0.user
<1>0. IdleConn \in Conns /\ IdleConn.Active = FALSE /\ C0 \in Conns
  BY Parts DEF IdleConn, Conns
<1>1. S1.conn[n] = C0 /\ S1.host[n] = H /\ S1.fwd = S.fwd
  BY <1>0, SetFields
<1>2. [S1 EXCEPT !.conn[n] = IdleConn] = Set(S, n, IdleConn, H)
  <2>1. [S1 EXCEPT !.conn[n] = IdleConn] = Set(S1, n, IdleConn, H)
    BY <1>1, Parts
  <2>2. Set(S1, n, IdleConn, H) = Set(S, n, IdleConn, H)
    BY <1>0, SetTwice
  <2> QED BY <2>1, <2>2
<1>3. NotTaken(C0, S.host[n], IdleConn, H)
  BY <1>0 DEF NotTaken, Taken
<1>4. CASE q \in Partner
  <2> DEFINE N == Set(S, n, IdleConn, H)
             F == Unmarked(S.fwd[q])
  <2>1. T = [N EXCEPT !.fwd[q].Forwarding = FALSE]
    BY <1>1, <1>2, <1>4 DEF Close
  <2>2. N \in States /\ N.fwd[q] = S.fwd[q]
    BY <1>0, SetFields
  <2>3. T = [N EXCEPT !.fwd[q] = F]
    BY <2>1, <2>2 DEF Unmarked
  <2>4. F \in Fwds /\ F.Forwarding = FALSE
    <3>1. S.fwd[q] \in Fwds
      BY <1>0, <1>4 DEF States
    <3>2. \A G \in Fwds : Unmarked(G) \in Fwds /\ Unmarked(G).Forwarding = FALSE
      BY DEF Unmarked, Fwds
    <3> QED BY <3>1, <3>2
  <2> HIDE DEF T, F
  <2>5. T = Put(S, n, IdleConn, H, q, F)
    <3> HIDE DEF N
    <3>1. T = Mark(N, q, F)
      BY <2>2, <2>3, Parts
    <3> QED BY <3>1 DEF Put, N
  <2>6. StillHeld(C0, S.host[n], S.fwd[q], IdleConn, H, q, F)
    BY <2>4 DEF StillHeld
  <2>7. \A r \in Partner : r # q => ~Holds(C0, S.host[n], r)
    BY DEF Holds
  <2>8. SInv(T)
    BY <1>0, <1>3, <1>4, <2>4, <2>5, <2>6, <2>7, PutKeeps
  <2>9. Only(S, T, n) /\ T.conn[n] = IdleConn /\ T.host[n] = H
    BY <1>0, <1>4, <2>4, <2>5, PutFields DEF Only
  <2> QED BY <2>8, <2>9 DEF T
<1>5. CASE q \notin Partner
  <2>1. T = Set(S, n, IdleConn, H)
    BY <1>1, <1>2, <1>5 DEF Close
  <2> HIDE DEF T
  <2>2. \A r \in Partner : ~Holds(C0, S.host[n], r)
    BY <1>5 DEF Holds
  <2>3. Alone(T)
    BY <1>0, <1>3, <2>1, SetAlone
  <2>4. SInv(T)
    BY <1>0, <2>1, <2>2, <2>3, SetKeeps
  <2>5. Only(S, T, n) /\ T.conn[n] = IdleConn /\ T.host[n] = H
    BY <1>0, <2>1, SetFields DEF Only
  <2> QED BY <2>4, <2>5 DEF T
<1> QED BY <1>4, <1>5
\* The end of a session while the script runs: its next lines are looked at.
LEMMA EndedKeeps ==
    ASSUME NEW S, SInv(S), NEW n \in Stream, NEW stray, NEW junk,
           S.conn[n].running, InScriptAt(S, n), S.host[n].sess = "none", S.host[n].change,
           ~S.host[n].disc
    PROVE  Settled(S, Disconnected([S EXCEPT !.host[n].change = FALSE], n, stray, junk), n)
<1> DEFINE C0 == S.conn[n]
           H0 == S.host[n]
           q == C0.user
           F0 == S.fwd[q]
           i == F0.ScriptIndex
           H1 == Told(H0)
           S1 == [S EXCEPT !.host[n].change = FALSE]
           T == Disconnected(S1, n, stray, junk)
           G == IF F0.MoreLines THEN F0
                ELSE [WithIndex(F0, i - 1) EXCEPT !.MoreLines = TRUE]
           S2 == IF F0.MoreLines THEN S1
                 ELSE [SetIndex(S1, q, i - 1) EXCEPT !.fwd[q].MoreLines = TRUE]
<1>1. /\ S \in States /\ C0 \in Conns /\ H0 \in Hosts /\ LocalOK(C0, H0)
      /\ q \in Partner /\ C0.Active /\ C0.timed /\ i \in -1..ScriptEnd
      /\ F0 \in Fwds /\ H0.line = "none"
  BY Parts DEF SInv, LocalOK, InScriptAt
<1>2. /\ H1 \in Hosts /\ H1.change = FALSE /\ H1.sess = "none" /\ H1.line = "none"
      /\ H1.disc = H0.disc /\ H1.disc = FALSE
  <2>1. H0.sess = "none" /\ H0.disc = FALSE
    BY <1>1 DEF Hosts
  <2> HIDE DEF H0
  <2> QED BY <1>1, <2>1, ToldFields
<1>3. S1 = Set(S, n, C0, H1)
  BY <1>1, ToldIs
<1> HIDE DEF H1, S1
<1>4. S1 \in States /\ S1.conn[n] = C0 /\ S1.host[n] = H1 /\ S1.fwd = S.fwd
  <2> HIDE DEF C0
  <2> QED BY <1>1, <1>2, <1>3, SetFields
<1>5. i \in Int /\ i >= -1 /\ i <= 2
  BY <1>1 DEF ScriptEnd
<1>6. /\ G \in Fwds /\ G.MoreLines = TRUE /\ G.Forwarding = F0.Forwarding
      /\ G.ScriptIndex = IF F0.MoreLines THEN i ELSE i - 1
  <2>1. i - 1 \in -2..(ScriptEnd + 1)
    BY <1>5 DEF ScriptEnd
  <2>2. /\ WithIndex(F0, i - 1) \in Fwds /\ WithIndex(F0, i - 1).ScriptIndex = i - 1
        /\ WithIndex(F0, i - 1).Forwarding = F0.Forwarding
    <3> HIDE DEF F0
    <3> QED BY <1>1, <2>1, EndedFacts
  <2>3. F0.MoreLines \in BOOLEAN
    BY <1>1 DEF Fwds
  <2> HIDE DEF F0, i
  <2> QED BY <1>1, <2>2, <2>3 DEF Fwds, i
<1>7. S2 = Mark(S1, q, G)
  <2>1. CASE F0.MoreLines
    BY <1>4, <2>1 DEF Mark, States
  <2>2. CASE ~F0.MoreLines
    <3> DEFINE K == WithIndex(F0, i - 1)
    <3>0. i - 1 \in -2..(ScriptEnd + 1)
      BY <1>5 DEF ScriptEnd
    <3>1. SetIndex(S1, q, i - 1) = Mark(S1, q, K) /\ K \in Fwds
      BY <1>1, <1>4, <3>0, SetIndexIs
    <3>2. Mark(S1, q, K) \in States /\ Mark(S1, q, K).fwd[q] = K
      <4> HIDE DEF K, q
      <4> QED BY <1>1, <1>4, <3>1, MarkFields
    <3>3. [Mark(S1, q, K) EXCEPT !.fwd[q].MoreLines = TRUE]
            = [Mark(S1, q, K) EXCEPT !.fwd[q] = G]
      <4> DEFINE M == Mark(S1, q, K)
      <4>1. M.fwd[q] = K /\ G = [K EXCEPT !.MoreLines = TRUE]
        BY <2>2, <3>2
      <4> HIDE DEF M, K, G, q
      <4>2. [M EXCEPT !.fwd[q].MoreLines = TRUE] = [M EXCEPT !.fwd[q] = G]
        BY <4>1
      <4> QED BY <4>2 DEF M
    <3> HIDE DEF G, K
    <3>4. [Mark(S1, q, K) EXCEPT !.fwd[q] = G] = Mark(Mark(S1, q, K), q, G)
      BY <1>4, <3>2, Parts
    <3>5. Mark(Mark(S1, q, K), q, G) = Mark(S1, q, G)
      BY <1>1, <1>4, <3>1, MarkTwice
    <3>6. S2 = [Mark(S1, q, K) EXCEPT !.fwd[q].MoreLines = TRUE]
      BY <2>2, <3>1
    <3> QED BY <3>3, <3>4, <3>5, <3>6
  <2> QED BY <2>1, <2>2
<1>8. T = IF i \in 0..(ScriptEnd - 1) \/ (i = -1 /\ junk)
          THEN IF i = -1 /\ ~F0.MoreLines THEN S2
               ELSE ProcessBBSConnectScript(S2, n, "failure", stray)
          ELSE Close(S1, n)
  BY <1>1, <1>4 DEF Disconnected
<1> HIDE DEF S2, T, G
<1>9. S2 = Put(S, n, C0, H1, q, G)
  BY <1>3, <1>7 DEF Put
<1>10. \A r \in Partner : r # q => ~Holds(C0, H0, r)
  BY DEF Holds
<1>11. CASE i = -1 /\ ~F0.MoreLines /\ T = S2
  <2>1. LocalOK(C0, H1)
    BY <1>1, <1>2 DEF LocalOK
  <2>2. StillHeld(C0, H0, F0, C0, H1, q, G)
    BY <1>6, <1>11 DEF StillHeld, Astray
  <2>3. NotTaken(C0, H0, C0, H1)
    BY <1>2 DEF NotTaken, Taken
  <2>4. SInv(T)
    <3> HIDE DEF C0, H0, q, F0
    <3>1. S.conn[n] = C0 /\ S.host[n] = H0 /\ S.fwd[q] = F0
      BY DEF C0, H0, F0
    <3> QED BY <1>1, <1>2, <1>6, <1>9, <1>10, <1>11, <2>1, <2>2, <2>3, <3>1, PutKeeps
  <2>5. Only(S, T, n) /\ T.conn[n] = C0 /\ T.host[n] = H1
    <3> HIDE DEF C0, q
    <3> QED BY <1>1, <1>2, <1>6, <1>9, <1>11, PutFields DEF Only
  <2>6. Handled(C0, H1)
    BY <1>2 DEF Handled, Polled
  <2> QED BY <2>4, <2>5, <2>6 DEF Settled, T, S1
<1>12. CASE /\ ~(i = -1 /\ ~F0.MoreLines) /\ i # 2
            /\ T = ProcessBBSConnectScript(S2, n, "failure", stray)
  <2>1. /\ S2 \in States /\ S2.conn[n] = C0 /\ S2.host[n] = H1 /\ S2.fwd[q] = G
    <3> HIDE DEF C0, q
    <3> QED BY <1>1, <1>2, <1>6, <1>9, PutFields
  <2>2. G.ScriptIndex \in -1..1
    BY <1>5, <1>6, <1>12
  <2>3. PICK C \in Conns, H \in Hosts, F \in Fwds :
           T = Put(S2, n, C, H, q, F) /\ Scripted(S2, n, q, "failure", C, H, F)
    <3>1. S2.conn[n].user = q /\ S2.fwd[q].ScriptIndex \in -1..ScriptEnd
      BY <2>1, <2>2 DEF ScriptEnd
    <3> HIDE DEF q
    <3> QED BY <1>1, <1>12, <2>1, <3>1, ScriptIs
  <2>4. C = Stopped(C0) /\ H = Asked(H1) /\ FwdStep(G, F)
    BY <1>6, <2>1, <2>2, <2>3 DEF Scripted, ScriptEnd
  <2>5. /\ C.running = FALSE /\ C.outward = C0.outward /\ C.Active = C0.Active
        /\ C.timed = C0.timed /\ C.user = q
        /\ H.sess = "none" /\ H.change /\ ~H.disc /\ H.line = "none"
    <3> HIDE DEF C0
    <3> QED BY <1>1, <1>2, <2>4, Fields, ZenonT(40) DEF C0
  <2>6. F.Forwarding = F0.Forwarding /\ ~Astray(F)
    BY <1>6, <2>4 DEF FwdStep, Astray
  <2>7. T = Put(S, n, C, H, q, F)
    BY <1>1, <1>2, <1>9, <2>3 DEF Put, Set, Mark, States
  <2>8. LocalOK(C, H)
    BY <1>1, <2>5 DEF LocalOK
  <2>9. Holds(C, H, q)
    BY <1>1, <2>5 DEF Holds
  <2>10. StillHeld(C0, H0, F0, C, H, q, F)
    BY <2>5, <2>9 DEF StillHeld
  <2>11. NotTaken(C0, H0, C, H)
    BY <2>5 DEF NotTaken, Taken
  <2>12. SInv(T)
    <3> HIDE DEF C0, H0, q, F0
    <3>1. S.conn[n] = C0 /\ S.host[n] = H0 /\ S.fwd[q] = F0
      BY DEF C0, H0, F0
    <3> QED BY <1>1, <1>10, <2>7, <2>8, <2>10, <2>11, <3>1, PutKeeps
  <2>13. Only(S, T, n) /\ T.conn[n] = C /\ T.host[n] = H
    BY <1>1, <2>7, PutFields DEF Only
  <2>14. Handled(C, H)
    BY <2>5 DEF Handled, Polled
  <2> QED BY <2>5, <2>12, <2>13, <2>14 DEF Settled, T, S1
<1>13. CASE T = Close(S1, n)
  <2>1. LocalOK(IdleConn, H1) /\ Handled(IdleConn, H1)
    BY <1>2 DEF LocalOK, IdleConn, Handled, Polled
  <2>2. SInv(T) /\ Only(S, T, n) /\ T.conn[n] = IdleConn /\ T.host[n] = H1
    BY <1>1, <1>2, <1>3, <1>4, <1>13, <2>1, CloseKeeps
  <2> QED BY <2>1, <2>2 DEF Settled, T, S1
<1>14. i \in 0..(ScriptEnd - 1) \/ i = -1 => i # 2
  BY <1>5 DEF ScriptEnd
<1> QED BY <1>8, <1>11, <1>12, <1>13, <1>14 DEF T, S1
\* SessionState, which clears the change, and what follows.
LEMMA HandleKeeps ==
    ASSUME NEW S, SInv(S), NEW n \in Stream, NEW stray, NEW junk,
           InScriptAt(S, n), Pending(S.conn[n], S.host[n])
    PROVE  Settled(S, HandleChange(S, n, stray, junk), n)
<1> DEFINE C0 == S.conn[n]
           H0 == S.host[n]
           H1 == Told(H0)
           S1 == [S EXCEPT !.host[n].change = FALSE]
           T == HandleChange(S, n, stray, junk)
<1>1. /\ S \in States /\ C0 \in Conns /\ H0 \in Hosts /\ LocalOK(C0, H0)
      /\ Pending(C0, H0)
  BY Parts DEF SInv
<1>2. S1 = Set(S, n, C0, H1)
  BY <1>1, ToldIs
<1>3. /\ H1 \in Hosts /\ H1.change = FALSE /\ H1.sess = H0.sess /\ H1.port = H0.port
      /\ H1.peer = H0.peer /\ H1.line = H0.line /\ H1.disc = H0.disc
  <2> HIDE DEF H0
  <2> QED BY <1>1, ToldFields
<1>4. T = IF ~H0.change THEN S
          ELSE IF H0.sess # "none" THEN Connected(S1, n, stray)
          ELSE Disconnected(S1, n, stray, junk)
  BY DEF HandleChange
<1> HIDE DEF H1, S1, T
<1>5. /\ S1 \in States /\ S1.conn[n] = C0 /\ S1.host[n] = H1 /\ S1.fwd = S.fwd
      /\ \A m \in Stream : m # n => S1.conn[m] = S.conn[m] /\ S1.host[m] = S.host[m]
  <2> HIDE DEF C0
  <2> QED BY <1>1, <1>2, <1>3, SetFields
<1>6. CASE ~H0.change
  <2>1. T = S
    BY <1>4, <1>6
  <2>2. Handled(C0, H0)
    BY <1>1, <1>6 DEF LocalOK, Pending, Handled, Polled
  <2> QED BY <2>1, <2>2 DEF Settled, Only, T
<1>7. CASE H0.change /\ H0.sess # "none" /\ C0.running
  <2>1. C0.Active /\ C0.user \in Partner /\ C0.timed
    BY <1>1, <1>7 DEF LocalOK
  <2>2. T = ProcessBBSConnectScript(S1, n, "event", stray)
    BY <1>4, <1>5, <1>7, <2>1 DEF Connected
  <2>3. LocalOK(C0, H1)
    BY <1>1, <1>3, <1>7, <2>1 DEF LocalOK
  <2>4. \A r \in Partner : Holds(C0, H0, r) => Holds(C0, H1, r)
    BY <1>3, <1>7 DEF Holds
  <2>5. NotTaken(C0, H0, C0, H1)
    BY <1>3 DEF NotTaken, Taken
  <2>6. SInv(S1)
    <3> HIDE DEF C0, H0
    <3>1. S.conn[n] = C0 /\ S.host[n] = H0
      BY DEF C0, H0
    <3>2. Alone(S1)
      BY <1>1, <1>2, <1>3, <2>5, <3>1, SetAlone
    <3> QED BY <1>1, <1>2, <1>3, <2>3, <2>4, <3>1, <3>2, SetKeeps
  <2>7. InScriptAt(S1, n)
    BY <1>5, <1>7 DEF InScriptAt
  <2>8. /\ SInv(T) /\ Only(S1, T, n) /\ T.conn[n].Active /\ T.host[n].sess # "none"
        /\ T.host[n].change = H1.change
    <3>1. S1.conn[n].running /\ S1.host[n].sess # "none" /\ ~S1.host[n].change
      BY <1>3, <1>5, <1>7
    <3> HIDE DEF C0, H0
    <3> QED BY <1>5, <2>2, <2>6, <2>7, <3>1, ScriptKeeps
  <2>9. Only(S, T, n) /\ Handled(T.conn[n], T.host[n])
    BY <1>3, <1>5, <2>8 DEF Only, Handled, Polled
  <2> QED BY <1>7, <2>8, <2>9 DEF Settled, T
<1>8. CASE H0.change /\ H0.sess # "none" /\ ~C0.running
  <2>1. H0.sess = "linked"
    <3>1. H0.sess \in {"none", "node", "calling", "linked"}
      BY <1>1 DEF Hosts
    <3> QED BY <1>1, <1>8, <3>1 DEF LocalOK, Pending
  <2>2. T = Incoming(S1, n, stray)
    BY <1>4, <1>5, <1>8 DEF Connected
  <2> QED BY <1>8, <2>1, <2>2, IncomingKeeps DEF S1, T
<1>9. CASE H0.change /\ H0.sess = "none" /\ C0.running
  <2>1. T = Disconnected(S1, n, stray, junk)
    BY <1>4, <1>9
  <2>2. ~H0.disc
    BY <1>1, <1>9 DEF Pending
  <2> QED BY <1>9, <2>1, <2>2, EndedKeeps DEF S1, T
<1>10. CASE H0.change /\ H0.sess = "none" /\ ~C0.running
  <2>0. ~H0.disc
    BY <1>1, <1>10 DEF Pending
  <2>1. T = IF ~C0.Active THEN S1 ELSE Close(S1, n)
    BY <1>4, <1>5, <1>10 DEF Disconnected
  <2>2. CASE ~C0.Active
    <3>1. LocalOK(C0, H1)
      BY <1>1, <1>3, <1>10, <2>0, <2>2 DEF LocalOK
    <3>2. (\A r \in Partner : ~Holds(C0, H0, r)) /\ NotTaken(C0, H0, C0, H1)
      BY <2>2 DEF Holds, NotTaken, Taken
    <3>3. SInv(S1)
      <4> HIDE DEF C0, H0
      <4>1. S.conn[n] = C0 /\ S.host[n] = H0
        BY DEF C0, H0
      <4>2. Alone(S1)
        BY <1>1, <1>2, <1>3, <3>2, <4>1, SetAlone
      <4> QED BY <1>1, <1>2, <1>3, <3>1, <3>2, <4>1, <4>2, SetKeeps
    <3>4. Only(S, S1, n) /\ Handled(C0, H1)
      BY <1>3, <1>5, <1>10, <2>0 DEF Only, Handled, Polled
    <3> QED BY <1>5, <1>10, <2>1, <2>2, <3>3, <3>4 DEF Settled, T
  <2>3. CASE C0.Active
    <3>1. LocalOK(IdleConn, H1) /\ Handled(IdleConn, H1) /\ ~IdleConn.running
      BY <1>1, <1>3, <1>10, <2>0 DEF LocalOK, IdleConn, Handled, Polled
    <3>2. SInv(T) /\ Only(S, T, n) /\ T.conn[n] = IdleConn /\ T.host[n] = H1
      BY <1>1, <1>2, <1>3, <1>5, <2>1, <2>3, <3>1, CloseKeeps
    <3> QED BY <3>1, <3>2 DEF Settled, T
  <2> QED BY <2>2, <2>3
<1> QED BY <1>6, <1>7, <1>8, <1>9, <1>10

NoLine(H) == [H EXCEPT !.line = "none"]

LEMMA DiscardKeeps ==
    ASSUME NEW S, SInv(S), NEW n \in Stream
    PROVE  LET T == Discard(S, n) IN
           /\ SInv(T) /\ Only(S, T, n) /\ T.conn[n] = S.conn[n] /\ T.fwd = S.fwd
           /\ T.host[n] = NoLine(S.host[n])
           /\ T.host[n].sess = S.host[n].sess /\ T.host[n].change = S.host[n].change
           /\ T.host[n].disc = S.host[n].disc
<1> DEFINE C0 == S.conn[n]
           H0 == S.host[n]
           H1 == NoLine(H0)
           T == Discard(S, n)
<1>1. S \in States /\ C0 \in Conns /\ H0 \in Hosts /\ LocalOK(C0, H0)
  BY Parts DEF SInv
<1>2. T = Set(S, n, C0, H1)
  <2>1. T = [S EXCEPT !.host[n] = H1]
    BY DEF Discard, NoLine
  <2> HIDE DEF H1, T
  <2> QED BY <1>1, <2>1, Parts
<1>3. /\ H1 \in Hosts /\ H1.line = "none" /\ H1.sess = H0.sess /\ H1.change = H0.change
      /\ H1.disc = H0.disc /\ H1.peer = H0.peer /\ H1.port = H0.port
  BY <1>1 DEF NoLine, Hosts
<1> HIDE DEF H1, T
<1>4. LocalOK(C0, H1)
  BY <1>1, <1>3 DEF LocalOK
<1>5. /\ \A r \in Partner : Holds(C0, H0, r) => Holds(C0, H1, r)
      /\ NotTaken(C0, H0, C0, H1)
  BY <1>3 DEF Holds, NotTaken, Taken
<1> HIDE DEF C0, H0
<1>6. S.conn[n] = C0 /\ S.host[n] = H0
  BY DEF C0, H0
<1>7. Alone(T)
  BY <1>1, <1>2, <1>3, <1>5, <1>6, SetAlone
<1>8. SInv(T)
  BY <1>1, <1>2, <1>3, <1>4, <1>5, <1>6, <1>7, SetKeeps
<1>9. Only(S, T, n) /\ T.conn[n] = C0 /\ T.host[n] = H1 /\ T.fwd = S.fwd
  BY <1>1, <1>2, <1>3, SetFields DEF Only
<1> QED BY <1>3, <1>6, <1>8, <1>9 DEF H1, T
\* What handling a line comes to.
Heard(S, T, n) == /\ SInv(T) /\ Only(S, T, n) /\ InScriptAt(T, n)
                  /\ Pending(T.conn[n], T.host[n])

LEMMA ProcessLineKeeps ==
    ASSUME NEW S, SInv(S), NEW n \in Stream, NEW line,
           S.host[n].sess # "none", ~S.conn[n].running, ~S.host[n].change, S.conn[n].timed
    PROVE  Heard(S, ProcessLine(S, n, line), n)
<1> DEFINE C0 == S.conn[n]
           H0 == S.host[n]
           q == C0.user
           T == ProcessLine(S, n, line)
<1>1. /\ S \in States /\ C0 \in Conns /\ H0 \in Hosts /\ LocalOK(C0, H0)
  BY Parts DEF SInv
<1>2. T = IF line = "quit" THEN Disconnect(S, n)
          ELSE IF line # "sid" \/ q \notin Partner THEN S
          ELSE IF S.fwd[q].Forwarding /\ ~C0.outward THEN Disconnect(S, n)
          ELSE [S EXCEPT !.fwd[q].Forwarding = TRUE]
  BY DEF ProcessLine
<1> HIDE DEF T
<1>3. CASE T = Disconnect(S, n)
  <2> DEFINE H1 == Asked(H0)
  <2>1. T = Set(S, n, C0, H1) /\ H1 \in Hosts
    BY <1>1, <1>3, DisconnectIs
  <2>2. /\ H1.sess = H0.sess /\ H1.peer = H0.peer /\ H1.port = H0.port /\ H1.line = H0.line
        /\ H1.change = H0.change /\ H1.disc
    <3>1. H0.change \in BOOLEAN /\ H1.change \in BOOLEAN
      BY <1>1, <2>1 DEF Hosts
    <3>2. H0.sess # "none"
      OBVIOUS
    <3>3. H0 \in Hosts
      BY <1>1
    <3> HIDE DEF H0
    <3> QED BY <3>1, <3>2, <3>3, AskedFields
  <2> HIDE DEF H1
  <2>3. LocalOK(C0, H1)
    BY <1>1, <2>2 DEF LocalOK
  <2>4. /\ \A r \in Partner : Holds(C0, H0, r) => Holds(C0, H1, r)
        /\ NotTaken(C0, H0, C0, H1)
    BY <2>2 DEF Holds, NotTaken, Taken
  <2>5. Pending(C0, H1) /\ ~C0.running
    BY <2>2 DEF Pending
  <2> HIDE DEF C0, H0
  <2>6. S.conn[n] = C0 /\ S.host[n] = H0
    BY DEF C0, H0
  <2>7. Alone(T)
    BY <1>1, <2>1, <2>4, <2>6, SetAlone
  <2>8. SInv(T)
    BY <1>1, <2>1, <2>3, <2>4, <2>6, <2>7, SetKeeps
  <2>9. Only(S, T, n) /\ T.conn[n] = C0 /\ T.host[n] = H1
    BY <1>1, <2>1, SetFields DEF Only
  <2> QED BY <2>5, <2>8, <2>9 DEF Heard, InScriptAt, T
<1>4. Pending(C0, H0) \/ H0.disc
  BY DEF Pending
<1>5. CASE T = S
  <2>1. Pending(C0, H0)
    BY DEF Pending
  <2> QED BY <1>5, <2>1 DEF Heard, InScriptAt, Only, T
<1>6. CASE q \in Partner /\ T = [S EXCEPT !.fwd[q].Forwarding = TRUE]
  <2> DEFINE F == [S.fwd[q] EXCEPT !.Forwarding = TRUE]
  <2>1. F \in Fwds /\ T = [S EXCEPT !.fwd[q] = F]
    <3>1. S.fwd[q] \in Fwds
      BY <1>1, <1>6, Parts
    <3> QED BY <1>6, <3>1 DEF Fwds
  <2> HIDE DEF F
  <2>2. T = Put(S, n, C0, H0, q, F)
    BY <1>1, <2>1, Parts
  <2>3. Holds(C0, H0, q) /\ ~C0.running
    <3>1. C0.Active
      BY <1>1 DEF LocalOK
    <3> QED BY <3>1 DEF Holds
  <2>4. StillHeld(C0, H0, S.fwd[q], C0, H0, q, F)
    BY <2>3 DEF StillHeld
  <2>5. NotTaken(C0, H0, C0, H0) /\ \A r \in Partner : r # q => ~Holds(C0, H0, r)
    BY DEF NotTaken, Holds
  <2>6. Pending(C0, H0)
    BY DEF Pending
  <2>7. SInv(T)
    <3> HIDE DEF T, C0, H0
    <3>1. S.conn[n] = C0 /\ S.host[n] = H0
      BY DEF C0, H0
    <3> QED BY <1>1, <1>6, <2>1, <2>2, <2>4, <2>5, <3>1, PutKeeps
  <2>8. Only(S, T, n) /\ T.conn[n] = C0 /\ T.host[n] = H0
    BY <1>1, <1>6, <2>1, <2>2, PutFields DEF Only
  <2> QED BY <2>3, <2>6, <2>7, <2>8 DEF Heard, InScriptAt, T
<1> QED BY <1>2, <1>3, <1>5, <1>6

\* BBSStreamReadyForData, and the line that is let through.
LEMMA ReceivedKeeps ==
    ASSUME NEW S, SInv(S), NEW n \in Stream, NEW stray, NEW junk,
           InScriptAt(S, n), LateOK(S.conn[n], S.host[n]), ~S.host[n].disc
    PROVE  Heard(S, DoReceivedData(S, n, stray, junk), n)
<1> DEFINE C0 == S.conn[n]
           H0 == S.host[n]
           ready == C0.Active /\ C0.user # NoUser
           T == IF ready THEN S ELSE HandleChange(S, n, stray, junk)
           D == Discard(T, n)
           line == T.host[n].line
           skip == line = "none" \/ (~ready /\ ~(H0.change /\ GuardPasses(T, n)))
           R == DoReceivedData(S, n, stray, junk)
<1>1. /\ S \in States /\ C0 \in Conns /\ H0 \in Hosts /\ LocalOK(C0, H0)
  BY Parts DEF SInv
<1>2. R = IF skip THEN D
          ELSE IF D.conn[n].running THEN ProcessBBSConnectScript(D, n, line, stray)
          ELSE ProcessLine(D, n, line)
  BY DEF DoReceivedData
<1>3. Pending(C0, H0)
  BY <1>1 DEF LocalOK, LateOK, Pending
<1> HIDE DEF R
<1>4. /\ SInv(T) /\ Only(S, T, n) /\ InScriptAt(T, n)
      /\ Pending(T.conn[n], T.host[n])
      /\ T.host[n].sess # "none" /\ T.host[n].change => T.conn[n].running
  <2>1. CASE ready
    <3>1. T = S
      BY <2>1
    <3>2. H0.sess # "none" /\ H0.change => C0.running
      BY <2>1 DEF LateOK
    <3> HIDE DEF T
    <3> QED BY <1>3, <3>1, <3>2 DEF Only
  <2>2. CASE ~ready
    <3>1. ~C0.running
      BY <1>1, <2>2, CallerAssumption DEF LocalOK
    <3>2. Settled(S, T, n)
      <4>1. T = HandleChange(S, n, stray, junk)
        BY <2>2
      <4> HIDE DEF T
      <4> QED BY <1>3, <4>1, HandleKeeps
    <3> HIDE DEF T
    <3> QED BY <3>1, <3>2 DEF Settled, InScriptAt, Handled, Polled, Pending
  <2> QED BY <2>1, <2>2
<1>5. ~skip /\ ~T.conn[n].running => T.conn[n].timed
  <2>1. T \in States /\ LocalOK(T.conn[n], T.host[n])
    BY <1>4 DEF SInv
  <2>2. CASE ready
    <3>1. T = S
      BY <2>2
    <3> HIDE DEF T, GuardPasses
    <3> QED BY <2>1, <2>2, <3>1 DEF LocalOK
  <2>3. CASE ~ready
    <3> HIDE DEF T
    <3> QED BY <2>1, <2>3 DEF LocalOK, GuardPasses
  <2> QED BY <2>2, <2>3
<1> HIDE DEF T, ready
<1>6. /\ SInv(D) /\ Only(T, D, n) /\ D.conn[n] = T.conn[n] /\ D.fwd = T.fwd
      /\ D.host[n].sess = T.host[n].sess /\ D.host[n].change = T.host[n].change
      /\ D.host[n].disc = T.host[n].disc
  BY <1>4, DiscardKeeps
<1> HIDE DEF D
<1>7. Only(S, D, n) /\ InScriptAt(D, n) /\ Pending(D.conn[n], D.host[n])
  BY <1>4, <1>6 DEF Only, InScriptAt, Pending
<1>8. CASE skip
  BY <1>2, <1>6, <1>7, <1>8 DEF Heard, R
<1>9. CASE ~skip /\ D.conn[n].running
  <2>1. /\ line # "none" /\ T \in States /\ LocalOK(T.conn[n], T.host[n])
    BY <1>4, <1>9 DEF SInv
  <2>2. D.host[n].sess # "none" /\ (D.host[n].sess = "node" => ~D.host[n].change)
    BY <1>6, <2>1 DEF LocalOK
  <2>3. R = ProcessBBSConnectScript(D, n, line, stray)
    BY <1>2, <1>9
  <2>4. line # "event"
    <3>1. T.host[n] \in Hosts
      BY <2>1, Parts
    <3> QED BY <3>1 DEF Hosts, Lines
  <2> HIDE DEF line
  <2>5. /\ SInv(R) /\ Only(D, R, n)
        /\ R.conn[n].Active /\ R.host[n].sess # "none"
        /\ R.host[n].change = D.host[n].change
        /\ R.host[n].sess = "node" => D.host[n].sess = "node"
        /\ InScriptAt(R, n)
    BY <1>6, <1>7, <1>9, <2>2, <2>3, <2>4, ScriptKeeps
  <2>6. Only(S, R, n) /\ Pending(R.conn[n], R.host[n])
    BY <1>7, <2>2, <2>5 DEF Only, Pending
  <2> QED BY <2>5, <2>6 DEF Heard, R
<1>10. CASE ~skip /\ ~D.conn[n].running
  <2>1. /\ line # "none" /\ T \in States /\ LocalOK(T.conn[n], T.host[n])
    BY <1>4, <1>10 DEF SInv
  <2>2. D.host[n].sess # "none" /\ D.conn[n].timed /\ ~D.host[n].change
    BY <1>4, <1>5, <1>6, <1>10, <2>1 DEF LocalOK
  <2>3. R = ProcessLine(D, n, line)
    BY <1>2, <1>10
  <2> HIDE DEF line
  <2>4. Heard(D, R, n)
    BY <1>6, <1>10, <2>2, <2>3, ProcessLineKeeps
  <2> QED BY <1>7, <2>4 DEF Heard, Only, R
<1> QED BY <1>8, <1>9, <1>10

\* PollStreams, for one stream.
LEMMA PollKeeps ==
    ASSUME NEW S, SInv(S), NEW n \in Stream, NEW stray, NEW junk,
           InScriptAt(S, n), LateOK(S.conn[n], S.host[n]), ~S.host[n].disc
    PROVE  LET T == PollStream(S, n, stray, junk) IN
           SInv(T) /\ Only(S, T, n) /\ Handled(T.conn[n], T.host[n])
<1> DEFINE D == DoReceivedData(S, n, stray, junk)
           T == HandleChange(D, n, stray, junk)
<1>1. Heard(S, D, n)
  BY ReceivedKeeps
<1> HIDE DEF D
<1>2. Settled(D, T, n)
  BY <1>1, HandleKeeps DEF Heard
<1> HIDE DEF T
<1>3. PollStream(S, n, stray, junk) = T
  BY DEF PollStream, T, D
<1> QED BY <1>1, <1>2, <1>3 DEF Heard, Settled, Only
-----------------------------------------------------------------------------
(***************************************************************************)
(* The BBS's timers.                                                       *)
(***************************************************************************)
\* What is true of the streams when the BBS has polled them all.
TimerInv(S) == /\ SInv(S)
               /\ \A n \in Stream : /\ Polled(S.conn[n], S.host[n])
                                    /\ LateOK(S.conn[n], S.host[n])

LEMMA OneStream ==
    ASSUME NEW S, NEW T, NEW n \in Stream, TimerInv(S), SInv(T), Only(S, T, n),
           Polled(T.conn[n], T.host[n]), LateOK(T.conn[n], T.host[n])
    PROVE  TimerInv(T)
  BY DEF TimerInv, Only

Dialled(p) == [IdleConn EXCEPT !.Active = TRUE, !.user = p, !.running = TRUE,
                               !.outward = TRUE, !.timed = TRUE]
Attached(H, full) == [H EXCEPT !.change = TRUE,
                               !.sess = IF @ = "none" /\ ~full THEN "node" ELSE @]

\* A partner is dialled on a stream that has no session.
LEMMA DialKeeps ==
    ASSUME NEW S, TimerInv(S), NEW p \in Partner, NEW full \in BOOLEAN
    PROVE  TimerInv(Dial(S, p, full))
<1> DEFINE F0 == S.fwd[p]
           G == WithIndex(F0, -1)
           S1 == SetIndex(S, p, -1)
           free == Stream \ Active(S1)
           n == Max(free)
<1>1. S \in States /\ SInv(S) /\ F0 \in Fwds
  <2>1. SInv(S) /\ S \in States
    BY DEF TimerInv, SInv
  <2> QED BY <2>1 DEF States
<1>2. CASE F0.Forwarding
  BY <1>2 DEF Dial
<1>3. CASE ~F0.Forwarding
  <2>1. S1 = Mark(S, p, G) /\ G \in Fwds
    <3>1. -1 \in -2..(ScriptEnd + 1)
      BY DEF ScriptEnd
    <3> QED BY <1>1, <3>1, SetIndexIs
  <2>2. /\ G.ScriptIndex = -1 /\ G.MoreLines = F0.MoreLines
        /\ G.Forwarding = FALSE
    <3>1. -1 \in -2..(ScriptEnd + 1) /\ F0.Forwarding \in BOOLEAN
      BY <1>1 DEF ScriptEnd, Fwds
    <3> HIDE DEF F0
    <3> QED BY <1>1, <1>3, <3>1, EndedFacts
  <2> HIDE DEF S1, G
  <2>3. /\ S1 \in States /\ S1.conn = S.conn /\ S1.host = S.host /\ S1.fwd[p] = G
        /\ \A r \in Partner : r # p => S1.fwd[r] = S.fwd[r]
    BY <1>1, <2>1, MarkFields
  <2>4. Dial(S, p, full) = ConnecttoBBS(S1, p, full)
    BY <1>3 DEF Dial, S1
  <2>5. CASE S1.fwd[p].locked \/ free = {}
    <3>1. Dial(S, p, full) = S1
      BY <2>4, <2>5 DEF ConnecttoBBS
    <3>2. \A r \in Partner : Held(S1, r)
      BY <1>1, <2>2, <2>3 DEF SInv, Held
    <3> QED BY <2>3, <3>1, <3>2 DEF TimerInv, SInv, Alone
  <2>6. CASE ~(S1.fwd[p].locked \/ free = {})
    <3>1. n \in Stream /\ ~S.conn[n].Active
      <4>1. free \in SUBSET (1..NumberofStreams) /\ free # {}
        BY <2>6 DEF Stream
      <4>2. n \in free
        <5> HIDE DEF free
        <5> QED BY <4>1, StreamFacts, MaxIsGreatest
      <4> QED BY <2>3, <4>2 DEF Active
    <3> DEFINE C0 == S.conn[n]
               H0 == S.host[n]
               C == Dialled(p)
               H == Attached(H0, full)
               T == [S1 EXCEPT !.conn[n] = C, !.fwd[p].MoreLines = TRUE]
               U == ConnectUsingAppl(T, n, full)
               K == [G EXCEPT !.MoreLines = TRUE]
               F == [K EXCEPT !.Forwarding = @ \/ H.sess # "none"]
               R == [U EXCEPT !.fwd[p].Forwarding = @ \/ U.host[n].sess # "none"]
    <3>2. ConnecttoBBS(S1, p, full) = R
      BY <2>6 DEF ConnecttoBBS, Dialled
    <3> HIDE DEF n
    <3>3. /\ C0 \in Conns /\ H0 \in Hosts /\ LocalOK(C0, H0) /\ Polled(C0, H0)
      BY <1>1, <3>1, Parts DEF SInv, TimerInv
    <3>4. H0.sess = "none" /\ ~H0.disc /\ H0.line = "none"
      BY <3>1, <3>3 DEF LocalOK, Polled
    <3>5. /\ C \in Conns /\ C.Active /\ C.user = p /\ C.running /\ C.outward /\ C.timed
      <4>1. p \in Caller
        BY CallerAssumption
      <4> QED BY <4>1 DEF Dialled, IdleConn, Conns
    <3>6. /\ H \in Hosts /\ H.change /\ ~H.disc /\ H.line = "none"
          /\ H.sess = IF full THEN "none" ELSE "node"
      BY <3>3, <3>4 DEF Attached, Hosts
    <3>7. /\ K \in Fwds /\ F \in Fwds /\ F.ScriptIndex = -1 /\ F.MoreLines
          /\ F.Forwarding = (H.sess # "none")
      BY <2>1, <2>2 DEF Fwds
    <3> DEFINE S2 == Mark(S, p, K)
               S3 == Set(S2, n, C, H0)
    <3> HIDE DEF C0, H0, C, H, K, F
    <3>8. T = S3
      <4>1. [S1 EXCEPT !.conn[n] = C, !.fwd[p].MoreLines = TRUE]
              = [conn |-> [S1.conn EXCEPT ![n] = C], host |-> S1.host,
                 fwd |-> [S1.fwd EXCEPT ![p] = [S1.fwd[p] EXCEPT !.MoreLines = TRUE]]]
        <5> DEFINE M == [S1 EXCEPT !.conn[n] = C]
                   L == [S1.fwd[p] EXCEPT !.MoreLines = TRUE]
        <5>1. S1 = [conn |-> S1.conn, host |-> S1.host, fwd |-> S1.fwd]
          BY <2>3 DEF States
        <5>2. M = [conn |-> [S1.conn EXCEPT ![n] = C], host |-> S1.host, fwd |-> S1.fwd]
          BY <5>1
        <5>3. [S1 EXCEPT !.conn[n] = C, !.fwd[p].MoreLines = TRUE]
                = [M EXCEPT !.fwd[p].MoreLines = TRUE]
          BY <5>1
        <5> HIDE DEF M
        <5>4. M.fwd = S1.fwd
          BY <5>2
        <5>5. [M EXCEPT !.fwd[p].MoreLines = TRUE] = [M EXCEPT !.fwd[p] = L]
          BY <5>4
        <5> HIDE DEF L
        <5>6. [M EXCEPT !.fwd[p] = L] = [conn |-> [S1.conn EXCEPT ![n] = C], host |-> S1.host,
                                         fwd |-> [S1.fwd EXCEPT ![p] = L]]
          BY <5>2
        <5> QED BY <5>3, <5>5, <5>6 DEF L
      <4>2. [S1.fwd[p] EXCEPT !.MoreLines = TRUE] = K
        BY <2>3 DEF K
      <4>3. [S1.fwd EXCEPT ![p] = K] = S2.fwd /\ S1.conn = S2.conn /\ S1.host = S2.host
        BY <1>1, <2>1, <2>3 DEF Mark, States
      <4>4. [S2.host EXCEPT ![n] = H0] = S2.host
        BY <1>1, <2>3 DEF H0, States, Mark
      <4> HIDE DEF S2
      <4> QED BY <4>1, <4>2, <4>3, <4>4 DEF Set
    <3> HIDE DEF T
    <3>9. S2 \in States /\ S2.conn = S.conn /\ S2.host = S.host /\ S2.fwd[p] = K
      BY <1>1, <3>7, MarkFields
    <3> HIDE DEF S2
    <3>10. S3 \in States /\ S3.conn[n] = C /\ S3.host[n] = H0 /\ S3.fwd = S2.fwd
      BY <3>1, <3>3, <3>5, <3>9, SetFields
    <3>11. U = Set(S2, n, C, H)
      <4>1. U = [T EXCEPT !.host[n] = H]
        BY <3>8, <3>10 DEF ConnectUsingAppl, H, Attached, H0
      <4>2. [T EXCEPT !.host[n] = H] = Set(S3, n, C, H)
        <5> HIDE DEF S3
        <5> QED BY <3>1, <3>8, <3>10, Parts, ZenonT(40)
      <4> QED BY <3>1, <3>3, <3>5, <3>9, <4>1, <4>2, SetTwice
    <3> HIDE DEF U
    <3>12. U \in States /\ U.host[n] = H /\ U.fwd[p] = K
      BY <3>1, <3>5, <3>6, <3>9, <3>11, SetFields
    <3>13. R = Put(S, n, C, H, p, F)
      <4>1. R = [U EXCEPT !.fwd[p] = F]
        BY <3>12 DEF F
      <4>2. R = Mark(U, p, F)
        BY <3>1, <3>12, <4>1, Parts
      <4>3. Mark(U, p, F) = Put(S, n, C, H, p, F)
        BY <1>1, <3>11 DEF Put, Set, Mark, States, S2
      <4> QED BY <4>2, <4>3
    <3> HIDE DEF R
    <3>14. LocalOK(C, H) /\ Polled(C, H) /\ LateOK(C, H)
      BY <3>5, <3>6 DEF LocalOK, Polled, LateOK
    <3>15. \A r : ~Holds(C0, H0, r)
      BY <3>1 DEF Holds, C0
    <3>16. StillHeld(C0, H0, F0, C, H, p, F)
      BY <3>5, <3>6, <3>7 DEF StillHeld, Holds, Astray
    <3>17. NotTaken(C0, H0, C, H)
      BY <3>5 DEF NotTaken, Taken
    <3>18. SInv(R)
      <4> HIDE DEF F0
      <4>1. S.conn[n] = C0 /\ S.host[n] = H0 /\ S.fwd[p] = F0
        BY DEF C0, H0, F0
      <4> QED BY <1>1, <3>1, <3>5, <3>6, <3>7, <3>13, <3>14, <3>15, <3>16, <3>17, <4>1, PutKeeps
    <3>19. Only(S, R, n) /\ R.conn[n] = C /\ R.host[n] = H
      BY <1>1, <3>1, <3>5, <3>6, <3>7, <3>13, PutFields DEF Only
    <3>20. TimerInv(R)
      BY <3>1, <3>14, <3>18, <3>19, OneStream
    <3> QED BY <2>4, <3>2, <3>20
  <2> QED BY <2>5, <2>6
<1> QED BY <1>2, <1>3
Overtime(C) == [C EXCEPT !.hit = TRUE]
Locked(F) == [F EXCEPT !.locked = TRUE]

\* CheckMaxSessionTime, and the check that closes what has no session.
LEMMA SlowKeeps ==
    ASSUME NEW S, TimerInv(S), NEW n \in Stream, NEW over
    PROVE  TimerInv(SlowTimer(S, n, over))
<1> DEFINE C0 == S.conn[n]
           H0 == S.host[n]
           q == C0.user
           F0 == S.fwd[q]
           R == SlowTimer(S, n, over)
<1>1. /\ S \in States /\ SInv(S) /\ C0 \in Conns /\ H0 \in Hosts /\ LocalOK(C0, H0)
      /\ Polled(C0, H0)
  <2>1. SInv(S) /\ S \in States /\ LocalOK(C0, H0) /\ Polled(C0, H0)
    BY DEF TimerInv, SInv
  <2> QED BY <2>1, Parts
<1>2. R = IF ~C0.Active THEN S
          ELSE IF H0.sess = "none" THEN Close(S, n)
          ELSE IF n \in over /\ Limited(S, n) THEN CheckMaxSessionTime(S, n)
          ELSE S
  BY DEF SlowTimer
<1> HIDE DEF R
<1>3. CASE R = S
  BY <1>3 DEF R
<1>4. CASE R = Close(S, n) /\ H0.sess = "none"
  <2>1. S = Set(S, n, C0, H0)
    BY <1>1 DEF Set, States
  <2>2. LocalOK(IdleConn, H0) /\ Polled(IdleConn, H0) /\ LateOK(IdleConn, H0)
    BY <1>1, <1>4 DEF LocalOK, Polled, LateOK, IdleConn
  <2>3. SInv(R) /\ Only(S, R, n) /\ R.conn[n] = IdleConn /\ R.host[n] = H0
    BY <1>1, <1>4, <2>1, <2>2, CloseKeeps
  <2>4. TimerInv(R)
    BY <2>2, <2>3, OneStream
  <2> QED BY <2>4 DEF R
<1>5. CASE /\ R = CheckMaxSessionTime(S, n) /\ C0.Active /\ H0.sess # "none"
           /\ Limited(S, n)
  <2> DEFINE K == Overtime(C0)
             F == Locked(F0)
             C == Stopped(K)
             H == Asked(H0)
             T == [S EXCEPT !.conn[n].hit = TRUE, !.fwd[q].locked = TRUE]
  <2>1. q \in Partner
    BY <1>5 DEF Limited
  <2>2. F0 \in Fwds
    BY <1>1, <2>1, Parts
  <2>3. /\ K \in Conns /\ K.running = C0.running /\ K.outward = C0.outward
        /\ K.Active = C0.Active /\ K.timed = C0.timed /\ K.user = q
    BY <1>1 DEF Overtime, Conns
  <2>4. /\ F \in Fwds /\ F.Forwarding = F0.Forwarding /\ F.MoreLines = F0.MoreLines
        /\ F.ScriptIndex = F0.ScriptIndex
    BY <2>2 DEF Locked, Fwds
  <2> HIDE DEF K, F
  <2>5. /\ C \in Conns /\ C.running = FALSE /\ C.outward = C0.outward
        /\ C.Active = C0.Active /\ C.timed = C0.timed /\ C.user = q
        /\ H \in Hosts /\ H.sess = H0.sess /\ H.change = H0.change /\ H.line = H0.line
        /\ H.peer = H0.peer /\ H.port = H0.port /\ H.disc
    <3>1. H0.change \in BOOLEAN /\ Asked(H0).change \in BOOLEAN
      BY <1>1, DisconnectIs DEF Hosts
    <3>2. H0.sess # "none"
      BY <1>5
    <3>3. /\ Stopped(K) \in Conns /\ Stopped(K).running = FALSE
          /\ Stopped(K).outward = K.outward /\ Stopped(K).Active = K.Active
          /\ Stopped(K).timed = K.timed /\ Stopped(K).user = K.user
      BY <1>1, <2>3, Fields
    <3>4. /\ Asked(H0) \in Hosts /\ Asked(H0).sess = H0.sess
          /\ Asked(H0).peer = H0.peer /\ Asked(H0).port = H0.port
          /\ Asked(H0).line = H0.line
          /\ Asked(H0).change = (H0.change \/ H0.sess = "none")
          /\ Asked(H0).disc = (H0.disc \/ H0.sess # "none")
      <4>1. H0 \in Hosts
        BY <1>1
      <4> HIDE DEF H0
      <4> QED BY <4>1, AskedFields
    <3>5. Asked(H0).change = H0.change /\ Asked(H0).disc
      BY <3>1, <3>2, <3>4
    <3> HIDE DEF H0, C0, q
    <3> QED BY <2>3, <3>3, <3>4, <3>5
  <2>6. T = Put(S, n, K, H0, q, F)
    <3> DEFINE M == [S EXCEPT !.conn[n] = K]
    <3>1. S = [conn |-> S.conn, host |-> S.host, fwd |-> S.fwd]
      BY <1>1 DEF States
    <3>2. M = [conn |-> [S.conn EXCEPT ![n] = K], host |-> S.host, fwd |-> S.fwd]
      BY <3>1
    <3>3. [S EXCEPT !.conn[n].hit = TRUE] = M
      BY DEF K, Overtime
    <3>4. T = [[S EXCEPT !.conn[n].hit = TRUE] EXCEPT !.fwd[q].locked = TRUE]
      BY <3>1
    <3>5. T = [M EXCEPT !.fwd[q].locked = TRUE]
      BY <3>3, <3>4
    <3> HIDE DEF M, T
    <3>6. M.fwd = S.fwd
      BY <3>2
    <3>7. [M EXCEPT !.fwd[q].locked = TRUE] = [M EXCEPT !.fwd[q] = F]
      BY <3>6 DEF F, Locked
    <3>8. [M EXCEPT !.fwd[q] = F] = [conn |-> [S.conn EXCEPT ![n] = K], host |-> S.host,
                                     fwd |-> [S.fwd EXCEPT ![q] = F]]
      BY <3>2
    <3>9. [S.host EXCEPT ![n] = H0] = S.host
      BY <1>1 DEF States
    <3> QED BY <3>5, <3>7, <3>8, <3>9 DEF Put, Set, Mark
  <2>7. R = Quit(T, n)
    BY <1>5 DEF CheckMaxSessionTime
  <2> HIDE DEF T
  <2>8. T \in States /\ T.conn[n] = K /\ T.host[n] = H0
    <3> HIDE DEF H0
    <3> QED BY <1>1, <2>1, <2>3, <2>4, <2>6, PutFields
  <2>9. R = Put(S, n, C, H, q, F)
    <3>1. R = Set(T, n, C, H)
      BY <2>7, <2>8, QuitIs
    <3>2. Set(Put(S, n, K, H0, q, F), n, C, H) = Put(S, n, C, H, q, F)
      BY <1>1 DEF Put, Set, Mark, States
    <3> QED BY <2>6, <3>1, <3>2
  <2>10. LocalOK(C, H) /\ Polled(C, H) /\ LateOK(C, H)
    BY <1>1, <1>5, <2>5 DEF LocalOK, Polled, LateOK
  <2>11. Holds(C0, H0, q) => Holds(C, H, q)
    BY <2>5 DEF Holds
  <2>12. StillHeld(C0, H0, F0, C, H, q, F)
    BY <2>4, <2>5, <2>11 DEF StillHeld, Astray
  <2>13. NotTaken(C0, H0, C, H) /\ \A r \in Partner : r # q => ~Holds(C0, H0, r)
    BY <2>5 DEF NotTaken, Taken, Holds
  <2> HIDE DEF C, H
  <2>14. SInv(R)
    <3> HIDE DEF C0, H0, q, F0
    <3>1. S.conn[n] = C0 /\ S.host[n] = H0 /\ S.fwd[q] = F0
      BY DEF C0, H0, F0
    <3> QED BY <1>1, <2>1, <2>4, <2>5, <2>9, <2>10, <2>12, <2>13, <3>1, PutKeeps
  <2>15. Only(S, R, n) /\ R.conn[n] = C /\ R.host[n] = H
    <3>1. LET P == Put(S, n, C, H, q, F) IN
             /\ P.conn[n] = C /\ P.host[n] = H
             /\ \A m \in Stream : m # n => P.conn[m] = S.conn[m] /\ P.host[m] = S.host[m]
      <4> HIDE DEF C0, H0, F0
      <4> QED BY <1>1, <2>1, <2>4, <2>5, PutFields
    <3> QED BY <2>9, <3>1 DEF Only
  <2>16. TimerInv(R)
    BY <2>10, <2>14, <2>15, OneStream
  <2> QED BY <2>16 DEF R
<1> QED BY <1>2, <1>3, <1>4, <1>5

Good == {S \in States : TimerInv(S)}

DialAll(S0, due, full) ==
    FoldLeft(LAMBDA S, p : IF p \in due THEN Dial(S, p, p \in full) ELSE S, S0, Chain)
SlowAlong(s, S0, over) == FoldLeft(LAMBDA S, m : SlowTimer(S, m, over), S0, s)
SlowAll(S0, over) == SlowAlong([m \in Stream |-> m], S0, over)

\* FWDTimerProc goes through BBSChain.
LEMMA DialAllKeeps ==
    ASSUME NEW S0 \in Good, NEW due, NEW full
    PROVE  DialAll(S0, due, full) \in Good
<1> DEFINE n == Len(Chain)
           op(S, p) == IF p \in due THEN Dial(S, p, p \in full) ELSE S
           Rec(g) == [x \in SUBSET (1..n) |->
                        IF x = {} THEN S0 ELSE op(g[x \ {Max(x)}], Chain[Max(x)])]
           iter == CHOOSE g : g = Rec(g)
           St == [k \in 0..n |-> Good]
<1>1. /\ Chain \in Seq(Partner) /\ n \in Nat /\ DOMAIN Chain = 1..n
      /\ \A i \in 1..n : Chain[i] \in Partner
  BY ChainAssumption
<1>2. DialAll(S0, due, full) = iter[1..n]
  BY <1>1 DEF DialAll, FoldLeft, MapThenFoldSet
<1>3. ASSUME NEW S \in Good, NEW p \in Partner PROVE op(S, p) \in Good
  <2>1. CASE p \in due
    <3>1. TimerInv(Dial(S, p, p \in full))
      <4>1. (p \in full) \in BOOLEAN
        OBVIOUS
      <4>2. \A b \in BOOLEAN : TimerInv(Dial(S, p, b))
        BY DialKeeps DEF Good
      <4> DEFINE b == p \in full
      <4>3. b \in BOOLEAN
        BY <4>1
      <4> HIDE DEF b
      <4>4. TimerInv(Dial(S, p, b))
        BY <4>2, <4>3
      <4> QED BY <4>4 DEF b
    <3>2. Dial(S, p, p \in full) \in States
      BY <3>1 DEF TimerInv, SInv
    <3> QED BY <2>1, <3>1, <3>2 DEF Good
  <2>2. CASE p \notin due
    BY <2>2
  <2> QED BY <2>1, <2>2
<1> HIDE DEF op
<1>4. \A x \in SUBSET (1..n) : iter[x] = IF x = {} THEN S0
                                         ELSE op(iter[x \ {Max(x)}], Chain[Max(x)])
  <2>0. PICK step \in [1..n -> [Good -> Good]] :
             step = [i \in 1..n |-> [t \in Good |-> op(t, Chain[i])]]
    <3>1. \A i \in 1..n, t \in Good : op(t, Chain[i]) \in Good
      BY <1>1, <1>3
    <3> QED BY <3>1
  <2>1. PICK f \in [SUBSET (1..n) -> Good] : IsFold(f, S0, step, n)
    <3> HIDE DEF iter, Rec, n
    <3> QED BY <1>1, FoldExists
  <2>2. \A x \in SUBSET (1..n) : x # {} => Max(x) \in 1..n
    BY <1>1, MaxIsGreatest
  <2>3. \A x \in SUBSET (1..n) :
           f[x] = IF x = {} THEN S0 ELSE op(f[x \ {Max(x)}], Chain[Max(x)])
    BY <2>0, <2>1, <2>2 DEF IsFold
  <2>4. f = Rec(f)
    BY <2>3
  <2>5. iter = Rec(iter)
    BY <2>4
  <2> HIDE DEF iter
  <2> QED BY <2>5
<1>5. iter[{}] \in St[0]
  <2>1. iter[{}] = S0
    <3> HIDE DEF iter
    <3> QED BY <1>4
  <2>2. 0 \in 0..n
    BY <1>1
  <2> QED BY <2>1, <2>2
<1>6. ASSUME NEW k \in 0..(n - 1), iter[1..k] \in St[k]
      PROVE  iter[1..(k + 1)] \in St[k + 1]
  <2> HIDE DEF iter
  <2>1. /\ k \in Nat /\ k + 1 \in 0..n /\ k \in 0..n /\ k + 1 \in 1..n
        /\ 1..(k + 1) \in SUBSET (1..n)
    BY <1>1
  <2>2. iter[1..(k + 1)] = op(iter[1..k], Chain[k + 1])
    <3>1. /\ 1..(k + 1) # {} /\ Max(1..(k + 1)) = k + 1
          /\ (1..(k + 1)) \ {k + 1} = 1..k
      BY <2>1, FirstButLast
    <3> QED BY <2>1, <1>4, <3>1
  <2> QED BY <1>1, <1>3, <1>6, <2>1, <2>2
<1>7. iter[1..n] \in St[n]
  <2> HIDE DEF iter, St, n
  <2> QED BY <1>1, <1>5, <1>6, FoldKeeps
<1>8. n \in 0..n
  BY <1>1
<1> QED BY <1>2, <1>7, <1>8

\* BBSSlowTimer goes through the streams.
LEMMA SlowAllKeeps ==
    ASSUME NEW S0 \in Good, NEW over
    PROVE  SlowAll(S0, over) \in Good
<1> DEFINE s == [m \in Stream |-> m]
           n == Len(s)
           op(S, p) == SlowTimer(S, p, over)
           Rec(g) == [x \in SUBSET (1..n) |->
                        IF x = {} THEN S0 ELSE op(g[x \ {Max(x)}], s[Max(x)])]
           iter == CHOOSE g : g = Rec(g)
           St == [k \in 0..n |-> Good]
<1>1. /\ n \in Nat /\ DOMAIN s = 1..n /\ \A i \in 1..n : s[i] \in Stream
  <2>1. s \in Seq(Stream)
    BY StreamFacts DEF Stream
  <2> QED BY <2>1
<1>0. SlowAll(S0, over) = SlowAlong(s, S0, over)
  BY DEF SlowAll
<1> HIDE DEF s
<1>2. SlowAlong(s, S0, over) = iter[1..n]
  BY <1>1 DEF SlowAlong, FoldLeft, MapThenFoldSet
<1>3. ASSUME NEW S \in Good, NEW p \in Stream PROVE op(S, p) \in Good
  <2>1. TimerInv(SlowTimer(S, p, over))
    BY SlowKeeps DEF Good
  <2>2. SlowTimer(S, p, over) \in States
    BY <2>1 DEF TimerInv, SInv
  <2> QED BY <2>1, <2>2 DEF Good
<1> HIDE DEF op
<1>4. \A x \in SUBSET (1..n) : iter[x] = IF x = {} THEN S0
                                         ELSE op(iter[x \ {Max(x)}], s[Max(x)])
  <2>0. PICK step \in [1..n -> [Good -> Good]] :
             step = [i \in 1..n |-> [t \in Good |-> op(t, s[i])]]
    <3>1. \A i \in 1..n, t \in Good : op(t, s[i]) \in Good
      BY <1>1, <1>3
    <3> QED BY <3>1
  <2>1. PICK f \in [SUBSET (1..n) -> Good] : IsFold(f, S0, step, n)
    <3> HIDE DEF iter, Rec, n
    <3> QED BY <1>1, FoldExists
  <2>2. \A x \in SUBSET (1..n) : x # {} => Max(x) \in 1..n
    BY <1>1, MaxIsGreatest
  <2>3. \A x \in SUBSET (1..n) :
           f[x] = IF x = {} THEN S0 ELSE op(f[x \ {Max(x)}], s[Max(x)])
    BY <2>0, <2>1, <2>2 DEF IsFold
  <2>4. f = Rec(f)
    BY <2>3
  <2>5. iter = Rec(iter)
    BY <2>4
  <2> HIDE DEF iter
  <2> QED BY <2>5
<1>5. iter[{}] \in St[0]
  <2>1. iter[{}] = S0
    <3> HIDE DEF iter
    <3> QED BY <1>4
  <2>2. 0 \in 0..n
    BY <1>1
  <2> QED BY <2>1, <2>2
<1>6. ASSUME NEW k \in 0..(n - 1), iter[1..k] \in St[k]
      PROVE  iter[1..(k + 1)] \in St[k + 1]
  <2> HIDE DEF iter
  <2>1. /\ k \in Nat /\ k + 1 \in 0..n /\ k \in 0..n /\ k + 1 \in 1..n
        /\ 1..(k + 1) \in SUBSET (1..n)
    BY <1>1
  <2>2. iter[1..(k + 1)] = op(iter[1..k], s[k + 1])
    <3>1. /\ 1..(k + 1) # {} /\ Max(1..(k + 1)) = k + 1
          /\ (1..(k + 1)) \ {k + 1} = 1..k
      BY <2>1, FirstButLast
    <3> QED BY <2>1, <1>4, <3>1
  <2> QED BY <1>1, <1>3, <1>6, <2>1, <2>2
<1>7. iter[1..n] \in St[n]
  <2> HIDE DEF iter, St, n
  <2> QED BY <1>1, <1>5, <1>6, FoldKeeps
<1>8. n \in 0..n
  BY <1>1
<1> QED BY <1>0, <1>2, <1>7, <1>8
-----------------------------------------------------------------------------
(***************************************************************************)
(* The steps.                                                              *)
(***************************************************************************)

\* State is a state, and nothing but its three parts.
LEMMA Whole ==
    ASSUME NEW S \in States
    PROVE  S = [conn |-> S.conn, host |-> S.host, fwd |-> S.fwd]
  BY DEF States

NodeInv == SInv(State) /\ \A n \in Stream : LateOK(conn[n], host[n])

LEMMA AtNode ==
    ASSUME turn = NodeTurn
    PROVE  IInv <=> NodeInv
<1>1. \A n \in Stream : ~(turn > n) /\ ~(turn \in 1..n)
  BY StreamFacts DEF NodeTurn
<1>2. turn \in NodeTurn..SlowTurn
  BY StreamFacts DEF NodeTurn, SlowTurn
<1> QED BY <1>1, <1>2 DEF IInv, NodeInv

\* The node changes one stream.
LEMMA OneHost ==
    ASSUME NodeInv, turn = NodeTurn, NEW n \in Stream, NEW H \in Hosts,
           conn' = conn, fwd' = fwd, turn' = turn, host' = [host EXCEPT ![n] = H],
           LocalOK(conn[n], H), LateOK(conn[n], H),
           \A q \in Partner : Holds(conn[n], host[n], q) => Holds(conn[n], H, q),
           NotTaken(conn[n], host[n], conn[n], H)
    PROVE  IInv'
<1>1. /\ State \in States /\ SInv(State) /\ State.conn = conn /\ State.host = host
      /\ State.fwd = fwd /\ conn \in [Stream -> Conns]
  BY DEF NodeInv, SInv, State, States
<1>2. State' = Set(State, n, conn[n], H)
  <2>1. [conn EXCEPT ![n] = conn[n]] = conn
    BY <1>1
  <2> QED BY <1>1, <2>1 DEF State, Set
<1>3. conn[n] \in Conns
  BY <1>1
<1>4. SInv(State')
  <2>1. Alone(Set(State, n, conn[n], H))
    BY <1>1, <1>3, SetAlone
  <2>2. SInv(Set(State, n, conn[n], H))
    BY <1>1, <1>3, <2>1, SetKeeps
  <2> QED BY <1>2, <2>2
<1>5. \A m \in Stream : LateOK(conn'[m], host'[m])
  BY <1>1 DEF NodeInv, States
<1>6. turn' = NodeTurn
  OBVIOUS
<1>7. \A m \in Stream : ~(turn' > m) /\ ~(turn' \in 1..m)
  BY <1>6, StreamFacts DEF NodeTurn
<1>8. turn' \in NodeTurn..SlowTurn
  BY <1>6, StreamFacts DEF NodeTurn, SlowTurn
<1> QED BY <1>4, <1>5, <1>7, <1>8 DEF IInv

LEMMA InitOK == Init => IInv
<1> SUFFICES ASSUME Init PROVE IInv
  OBVIOUS
<1>1. /\ IdleConn \in Conns /\ ~IdleConn.Active /\ ~IdleConn.running /\ ~IdleConn.outward
      /\ ~IdleConn.timed
  BY DEF IdleConn, Conns
<1>2. /\ IdleHost \in Hosts /\ IdleHost.sess = "none" /\ ~IdleHost.disc /\ ~IdleHost.change
      /\ IdleHost.line = "none"
  BY DEF IdleHost, Hosts
<1>3. IdleFwd \in Fwds /\ ~IdleFwd.Forwarding
  BY DEF IdleFwd, Fwds, ScriptEnd
<1>4. LocalOK(IdleConn, IdleHost) /\ LateOK(IdleConn, IdleHost)
  BY <1>1, <1>2 DEF LocalOK, LateOK
<1>5. /\ \A n \in Stream : conn[n] = IdleConn /\ host[n] = IdleHost
      /\ \A p \in Partner : fwd[p] = IdleFwd
  BY DEF Init
<1>6. State \in States
  BY <1>1, <1>2, <1>3 DEF Init, State, States
<1>7. \A q \in Partner : Held(State, q)
  BY <1>3, <1>5 DEF Held, State
<1>8. Alone(State)
  BY <1>1, <1>5 DEF Alone, Taken, State
<1>9. SInv(State)
  BY <1>4, <1>5, <1>6, <1>7, <1>8 DEF SInv, State
<1> QED BY <1>4, <1>5, <1>9, AtNode DEF NodeInv, Init

LEMMA NodeFacts ==
    ASSUME IInv, turn = NodeTurn, NEW n \in Stream
    PROVE  /\ NodeInv /\ conn[n] \in Conns /\ host[n] \in Hosts
           /\ LocalOK(conn[n], host[n]) /\ LateOK(conn[n], host[n])
           /\ host \in [Stream -> Hosts]
<1>1. NodeInv
  BY AtNode
<1> QED BY <1>1 DEF NodeInv, SInv, State, States

LEMMA CallInOK ==
    ASSUME IInv, NEW c \in Caller, NEW port \in Port, NEW direct, CallIn(c, port, direct)
    PROVE  IInv'
<1> DEFINE n == Min(Free)
           H == [host[n] EXCEPT !.sess = "linked", !.peer = c, !.port = port, !.change = TRUE]
<1>1. turn = NodeTurn /\ turn' = turn
  BY DEF CallIn, InTurn
<1>2. n \in Free
  <2>1. Free \in SUBSET Nat /\ Free # {}
    BY StreamFacts DEF CallIn, Free
  <2> QED BY <2>1, MinIsLeast
<1>3. host' = [host EXCEPT ![n] = H] /\ conn' = conn /\ fwd' = fwd
  BY DEF CallIn
<1> HIDE DEF n
<1>4. n \in Stream /\ host[n].sess = "none" /\ ~host[n].change
  BY <1>2 DEF Free
<1>5. /\ NodeInv /\ conn[n] \in Conns /\ host[n] \in Hosts /\ LocalOK(conn[n], host[n])
  BY <1>1, <1>4, NodeFacts
<1>6. /\ H \in Hosts /\ H.sess = "linked" /\ H.peer = c /\ H.change /\ H.disc = host[n].disc
      /\ H.line = host[n].line
  BY <1>5 DEF Hosts
<1> HIDE DEF H
<1>7. LocalOK(conn[n], H) /\ LateOK(conn[n], H)
  BY <1>4, <1>5, <1>6 DEF LocalOK, LateOK
<1>8. \A q : ~Holds(conn[n], host[n], q)
  BY <1>4, <1>5 DEF LocalOK, Holds
<1>9. NotTaken(conn[n], host[n], conn[n], H)
  BY <1>4, <1>5 DEF LocalOK, NotTaken, Taken
<1> QED BY <1>1, <1>3, <1>4, <1>5, <1>6, <1>7, <1>8, <1>9, OneHost

LEMMA CallOK ==
    ASSUME IInv, NEW n \in Stream, Call(n)
    PROVE  IInv'
<1> DEFINE H == [host[n] EXCEPT !.port = InterlockPort]
<1>1. turn = NodeTurn /\ turn' = turn /\ host[n].sess = "calling" /\ conn' = conn /\ fwd' = fwd
  BY DEF Call, InTurn, Waiting
<1>2. /\ NodeInv /\ conn[n] \in Conns /\ host[n] \in Hosts /\ LocalOK(conn[n], host[n])
      /\ host \in [Stream -> Hosts] /\ LateOK(conn[n], host[n])
  BY <1>1, NodeFacts DEF NodeInv
<1>3. host' = [host EXCEPT ![n] = H]
  BY <1>2 DEF Call
<1>4. /\ H \in Hosts /\ H.sess = host[n].sess /\ H.change = host[n].change
      /\ H.disc = host[n].disc /\ H.peer = host[n].peer /\ H.line = host[n].line
  BY <1>2, PortAssumption DEF Hosts
<1> HIDE DEF H
<1>5. LocalOK(conn[n], H)
  BY <1>2, <1>4 DEF LocalOK
<1>6. LateOK(conn[n], H) /\ NotTaken(conn[n], host[n], conn[n], H)
  BY <1>1, <1>2, <1>4 DEF LateOK, NotTaken, Taken
<1>7. \A q : Holds(conn[n], host[n], q) => Holds(conn[n], H, q)
  BY <1>4 DEF Holds
<1> QED BY <1>1, <1>2, <1>3, <1>4, <1>5, <1>6, <1>7, OneHost

LEMMA CallOutOK ==
    ASSUME IInv, NEW n \in Stream, CallOut(n)
    PROVE  IInv'
<1> DEFINE F == [host[n] EXCEPT !.sess = "node", !.port = 0, !.line = "failure"]
           L == [host[n] EXCEPT !.sess = "linked", !.peer = conn[n].user,
                   !.line = "connected"]
<1>1. turn = NodeTurn /\ turn' = turn /\ host[n].sess = "calling" /\ conn' = conn /\ fwd' = fwd
  BY DEF CallOut, InTurn
<1>2. /\ NodeInv /\ conn[n] \in Conns /\ host[n] \in Hosts /\ LocalOK(conn[n], host[n])
      /\ host \in [Stream -> Hosts]
  BY <1>1, NodeFacts
<1>3. host' = [host EXCEPT ![n] = F] \/ host' = [host EXCEPT ![n] = L]
  <2>1. \/ host' = [host EXCEPT ![n].sess = "node", ![n].port = 0,
                                    ![n].line = "failure"]
        \/ host' = [host EXCEPT ![n].sess = "linked", ![n].peer = conn[n].user,
                        ![n].line = "connected"]
    BY DEF CallOut
  <2>2. [host EXCEPT ![n].sess = "node", ![n].port = 0,
                                    ![n].line = "failure"] = [host EXCEPT ![n] = F]
    BY <1>2
  <2>3. [host EXCEPT ![n].sess = "linked", ![n].peer = conn[n].user,
                        ![n].line = "connected"]
          = [host EXCEPT ![n] = L]
    BY <1>2
  <2> QED BY <2>1, <2>2, <2>3
<1>4. /\ conn[n].outward /\ conn[n].Active /\ conn[n].timed /\ conn[n].user \in Caller
      /\ ~host[n].change
  BY <1>1, <1>2, CallerAssumption DEF LocalOK
<1>5. /\ F \in Hosts /\ F.sess = "node" /\ F.change = host[n].change /\ F.disc = host[n].disc
  BY <1>2 DEF Hosts, Lines
<1>6. /\ L \in Hosts /\ L.sess = "linked" /\ L.change = host[n].change
      /\ L.disc = host[n].disc /\ L.peer = conn[n].user
  BY <1>2, <1>4 DEF Hosts, Lines
<1> HIDE DEF F, L
<1>7. ASSUME NEW H, H = F \/ H = L
      PROVE  /\ H \in Hosts /\ LocalOK(conn[n], H) /\ LateOK(conn[n], H)
             /\ \A q : Holds(conn[n], host[n], q) => Holds(conn[n], H, q)
             /\ NotTaken(conn[n], host[n], conn[n], H)
  <2>1. /\ H \in Hosts /\ H.sess \in {"node", "linked"} /\ ~H.change
        /\ H.sess = "linked" => H.peer \in Caller
    BY <1>4, <1>5, <1>6, <1>7
  <2>2. LocalOK(conn[n], H)
    BY <1>2, <1>4, <2>1 DEF LocalOK
  <2>3. LateOK(conn[n], H) /\ NotTaken(conn[n], host[n], conn[n], H)
    BY <1>4, <2>1 DEF LateOK, NotTaken, Taken
  <2>4. \A q : Holds(conn[n], host[n], q) => Holds(conn[n], H, q)
    BY <2>1 DEF Holds
  <2> QED BY <2>1, <2>2, <2>3, <2>4
<1>8. CASE host' = [host EXCEPT ![n] = F]
  BY <1>1, <1>2, <1>7, <1>8, OneHost
<1>9. CASE host' = [host EXCEPT ![n] = L]
  BY <1>1, <1>2, <1>7, <1>9, OneHost
<1> QED BY <1>3, <1>8, <1>9

LEMMA LineInOK ==
    ASSUME IInv, NEW n \in Stream, NEW line \in {"sid", "prompt", "quit"}, LineIn(n, line)
    PROVE  IInv'
<1> DEFINE H == [host[n] EXCEPT !.line = line]
<1>1. turn = NodeTurn /\ turn' = turn /\ host[n].sess = "linked" /\ conn' = conn /\ fwd' = fwd
  BY DEF LineIn, InTurn
<1>2. /\ NodeInv /\ conn[n] \in Conns /\ host[n] \in Hosts /\ LocalOK(conn[n], host[n])
      /\ LateOK(conn[n], host[n])
  BY <1>1, NodeFacts
<1>3. host' = [host EXCEPT ![n] = H]
  BY DEF LineIn
<1>4. /\ H \in Hosts /\ H.sess = host[n].sess /\ H.peer = host[n].peer
      /\ H.port = host[n].port /\ H.change = host[n].change /\ H.disc = host[n].disc
  BY <1>2 DEF Hosts, Lines
<1> HIDE DEF H
<1>5. LocalOK(conn[n], H) /\ LateOK(conn[n], H)
  BY <1>1, <1>2, <1>4 DEF LocalOK, LateOK
<1>6. /\ \A q : Holds(conn[n], host[n], q) => Holds(conn[n], H, q)
      /\ NotTaken(conn[n], host[n], conn[n], H)
  BY <1>4 DEF Holds, NotTaken, Taken
<1> QED BY <1>1, <1>2, <1>3, <1>4, <1>5, <1>6, OneHost

LEMMA DroppedFields ==
    ASSUME NEW H \in Hosts
    PROVE  /\ Dropped(H) \in Hosts /\ Dropped(H).sess = "none" /\ Dropped(H).change = TRUE
           /\ Dropped(H).line = "none" /\ Dropped(H).disc = H.disc
           /\ [Dropped(H) EXCEPT !.disc = FALSE] \in Hosts
           /\ [Dropped(H) EXCEPT !.disc = FALSE].sess = "none"
           /\ [Dropped(H) EXCEPT !.disc = FALSE].change = TRUE
           /\ [Dropped(H) EXCEPT !.disc = FALSE].line = "none"
           /\ [Dropped(H) EXCEPT !.disc = FALSE].disc = FALSE
  BY DEF Dropped, IdleHost, Hosts

LEMMA DropOK ==
    ASSUME IInv, NEW n \in Stream, Drop(n)
    PROVE  IInv'
<1> DEFINE H == Dropped(host[n])
<1>1. turn = NodeTurn /\ turn' = turn /\ conn' = conn /\ fwd' = fwd
      /\ host' = [host EXCEPT ![n] = H]
  BY DEF Drop, InTurn
<1>2. /\ NodeInv /\ conn[n] \in Conns /\ host[n] \in Hosts /\ LocalOK(conn[n], host[n])
  BY <1>1, NodeFacts
<1>3. /\ H \in Hosts /\ H.sess = "none" /\ H.change = TRUE /\ H.line = "none"
      /\ H.disc = host[n].disc
  BY <1>2, DroppedFields
<1> HIDE DEF H
<1>4. LocalOK(conn[n], H) /\ LateOK(conn[n], H)
  BY <1>2, <1>3 DEF LocalOK, LateOK
<1>5. /\ \A q : Holds(conn[n], host[n], q) => Holds(conn[n], H, q)
      /\ NotTaken(conn[n], host[n], conn[n], H)
  BY <1>3 DEF Holds, NotTaken, Taken
<1> QED BY <1>1, <1>2, <1>3, <1>4, <1>5, OneHost
LEMMA LockoutEndsOK ==
    ASSUME IInv, NEW p \in Partner, LockoutEnds(p)
    PROVE  IInv'
<1> DEFINE F0 == fwd[p]
           F == [F0 EXCEPT !.locked = FALSE]
<1>1. turn = NodeTurn /\ turn' = turn /\ conn' = conn /\ host' = host
      /\ fwd' = [fwd EXCEPT ![p] = F]
  BY DEF LockoutEnds, InTurn
<1>2. NodeInv /\ SInv(State) /\ State \in States
      /\ fwd \in [Partner -> Fwds] /\ F0 \in Fwds
  <2>1. NodeInv
    BY <1>1, AtNode
  <2> QED BY <2>1 DEF NodeInv, SInv, State, States
<1>3. /\ F \in Fwds /\ F.Forwarding = F0.Forwarding /\ F.ScriptIndex = F0.ScriptIndex
      /\ F.MoreLines = F0.MoreLines
  BY <1>2 DEF Fwds
<1> HIDE DEF F
<1>4. State' = Mark(State, p, F)
  BY <1>1 DEF State, Mark
<1>5. /\ State' \in States /\ State'.conn = State.conn /\ State'.host = State.host
      /\ State'.fwd[p] = F
      /\ \A r \in Partner : r # p => State'.fwd[r] = State.fwd[r]
  BY <1>2, <1>3, <1>4, MarkFields, ZenonT(40)
<1>6. ASSUME NEW q \in Partner PROVE Held(State', q)
  <2>1. Held(State, q)
    BY <1>2 DEF SInv
  <2>2. CASE q # p
    BY <1>5, <2>1, <2>2 DEF Held
  <2>3. CASE q = p
    <3>1. State'.fwd[q] = F /\ State.fwd[q] = F0
      BY <1>5, <2>3 DEF State
    <3> HIDE DEF F0
    <3>2. Astray(F) <=> Astray(F0)
      BY <1>3 DEF Astray
    <3> QED BY <1>3, <1>5, <2>1, <3>1, <3>2 DEF Held
  <2> QED BY <2>2, <2>3
<1>7. SInv(State')
  BY <1>2, <1>5, <1>6 DEF SInv, Alone
<1>8. \A m \in Stream : LateOK(conn'[m], host'[m])
  BY <1>1, <1>2 DEF NodeInv
<1>9. \A m \in Stream : ~(turn' > m) /\ ~(turn' \in 1..m)
  BY <1>1, StreamFacts DEF NodeTurn
<1>10. turn' \in NodeTurn..SlowTurn
  BY <1>1, StreamFacts DEF NodeTurn, SlowTurn
<1> QED BY <1>7, <1>8, <1>9, <1>10 DEF IInv

\* What TNCTimerProc makes of a stream.
TNC(H) == IF H.disc THEN [Dropped(H) EXCEPT !.disc = FALSE] ELSE H

LEMMA TNCTimerProcOK ==
    ASSUME IInv, TNCTimerProc
    PROVE  IInv'
<1>1. /\ turn = NodeTurn /\ turn' = 1 /\ conn' = conn /\ fwd' = fwd
      /\ host' = [n \in Stream |-> TNC(host[n])]
  BY DEF TNCTimerProc, TNC
<1>2. NodeInv /\ SInv(State) /\ conn \in [Stream -> Conns] /\ host \in [Stream -> Hosts]
      /\ fwd \in [Partner -> Fwds]
  <2>1. NodeInv
    BY <1>1, AtNode
  <2> QED BY <2>1 DEF NodeInv, SInv, State, States
<1>3. ASSUME NEW n \in Stream
      PROVE  /\ host'[n] \in Hosts /\ LocalOK(conn[n], host'[n])
             /\ LateOK(conn[n], host'[n]) /\ ~host'[n].disc
             /\ \A q : Holds(conn[n], host[n], q) => Holds(conn[n], host'[n], q)
             /\ NotTaken(conn[n], host[n], conn[n], host'[n])
  <2> DEFINE H0 == host[n]
             H == TNC(H0)
  <2>1. host'[n] = H
    BY <1>1
  <2>2. H0 \in Hosts /\ LocalOK(conn[n], H0) /\ LateOK(conn[n], H0)
    BY <1>2, NodeFacts DEF NodeInv, SInv, State
  <2>3. CASE H0.disc
    <3>1. H = [Dropped(H0) EXCEPT !.disc = FALSE]
      BY <2>3 DEF TNC
    <3> HIDE DEF H, H0
    <3>a. /\ [Dropped(H0) EXCEPT !.disc = FALSE] \in Hosts
          /\ [Dropped(H0) EXCEPT !.disc = FALSE].sess = "none"
          /\ [Dropped(H0) EXCEPT !.disc = FALSE].change = TRUE
          /\ [Dropped(H0) EXCEPT !.disc = FALSE].line = "none"
          /\ [Dropped(H0) EXCEPT !.disc = FALSE].disc = FALSE
      BY <2>2, DroppedFields
    <3>2. H \in Hosts /\ H.sess = "none" /\ H.change = TRUE /\ H.line = "none" /\ H.disc = FALSE
      BY <3>1, <3>a
    <3>3. LocalOK(conn[n], H) /\ LateOK(conn[n], H)
      BY <2>2, <3>2 DEF LocalOK, LateOK
    <3>4. /\ \A q : Holds(conn[n], H0, q) => Holds(conn[n], H, q)
          /\ NotTaken(conn[n], H0, conn[n], H)
      BY <3>2 DEF Holds, NotTaken, Taken
    <3> QED BY <2>1, <3>2, <3>3, <3>4 DEF H0
  <2>4. CASE ~H0.disc
    <3>1. H = H0
      BY <2>4 DEF TNC
    <3> QED BY <2>1, <2>2, <2>4, <3>1 DEF NotTaken
  <2> QED BY <2>3, <2>4
<1>4. State' \in States
  BY <1>1, <1>2, <1>3 DEF State, States
<1>5. ASSUME NEW q \in Partner PROVE Held(State', q)
  <2>1. Held(State, q)
    BY <1>2 DEF SInv
  <2> QED BY <1>1, <1>3, <2>1 DEF Held, State
<1>6. Alone(State')
  <2>1. Alone(State)
    BY <1>2 DEF SInv
  <2> QED BY <1>1, <1>3, <2>1 DEF Alone, State, NotTaken
<1>7. SInv(State')
  BY <1>1, <1>3, <1>4, <1>5, <1>6 DEF SInv, State
<1>8. \A n \in Stream : ~(turn' > n) /\ ~host'[n].disc /\ LateOK(conn'[n], host'[n])
  BY <1>1, <1>3, StreamFacts
<1>9. turn' \in NodeTurn..SlowTurn
  BY <1>1, StreamFacts DEF NodeTurn, SlowTurn
<1> QED BY <1>7, <1>8, <1>9 DEF IInv

LEMMA BecomesIs ==
    ASSUME NEW S \in States, Becomes(S)
    PROVE  State' = S
<1>1. S = [conn |-> S.conn, host |-> S.host, fwd |-> S.fwd]
  BY Whole
<1> QED BY <1>1 DEF Becomes, State

LEMMA PollOK ==
    ASSUME IInv, NEW n \in Stream, Poll(n)
    PROVE  IInv'
<1>1. turn = n /\ turn' = n + 1 /\ InScript
  BY DEF Poll
<1>2. PICK stray \in Port \cup {0}, junk \in BOOLEAN :
         Becomes(PollStream(State, n, stray, junk))
  BY DEF Poll
<1> DEFINE T == PollStream(State, n, stray, junk)
<1>3. /\ SInv(State) /\ LateOK(conn[n], host[n]) /\ State \in States
      /\ State.conn = conn /\ State.host = host /\ State.fwd = fwd
  BY DEF IInv, SInv, State
<1>4. ~host[n].disc
  <2>1. turn \in 1..n
    BY <1>1, StreamFacts
  <2> QED BY <2>1 DEF IInv
<1>5. InScriptAt(State, n)
  <2>1. LocalOK(conn[n], host[n])
    BY <1>3 DEF SInv
  <2> QED BY <1>1, <1>3, <2>1 DEF InScriptAt, InScript, LocalOK
<1>6. SInv(T) /\ Only(State, T, n) /\ Handled(T.conn[n], T.host[n])
  BY <1>3, <1>4, <1>5, PollKeeps
<1> HIDE DEF T
<1>7. State' = T /\ conn' = T.conn /\ host' = T.host
  BY <1>2, <1>6, BecomesIs DEF SInv, Becomes, T
<1>8. /\ Polled(conn'[n], host'[n]) /\ LateOK(conn'[n], host'[n])
      /\ \A m \in Stream : m # n => conn'[m] = conn[m] /\ host'[m] = host[m]
  BY <1>3, <1>6, <1>7 DEF Handled, LateOK, Only
<1>9. ASSUME NEW m \in Stream
      PROVE  /\ LateOK(conn'[m], host'[m])
             /\ turn' > m => Polled(conn'[m], host'[m])
             /\ turn' \in 1..m => ~host'[m].disc
  <2>1. CASE m = n
    <3>1. ~(turn' \in 1..m)
      BY <1>1, <2>1, StreamFacts
    <3> QED BY <1>8, <2>1, <3>1
  <2>2. CASE m # n
    <3>1. (turn' > m => turn > m) /\ (turn' \in 1..m => turn \in 1..m)
      BY <1>1, <2>2, StreamFacts
    <3> QED BY <1>8, <2>2, <3>1 DEF IInv
  <2> QED BY <2>1, <2>2
<1>10. turn' \in NodeTurn..SlowTurn
  BY <1>1, StreamFacts DEF NodeTurn, SlowTurn
<1> QED BY <1>6, <1>7, <1>9, <1>10 DEF IInv

\* The streams have been polled when the timers run.
LEMMA AtTimers ==
    ASSUME IInv, turn > NumberofStreams
    PROVE  State \in Good
<1>1. \A n \in Stream : turn > n
  <2>1. turn \in Int
    BY StreamFacts DEF IInv, NodeTurn, SlowTurn
  <2> QED BY <2>1, StreamFacts
<1> QED BY <1>1 DEF IInv, Good, TimerInv, SInv, State

LEMMA FWDTimerOK ==
    ASSUME IInv, FWDTimerProc
    PROVE  IInv'
<1>1. turn = NumberofStreams + 1 /\ turn' = NumberofStreams + 2
  BY DEF FWDTimerProc, FwdTurn, SlowTurn
<1>2. PICK due \in SUBSET Partner : \E full \in SUBSET due :
          Becomes(FoldLeft(LAMBDA S, p : IF p \in due THEN Dial(S, p, p \in full)
                                         ELSE S, State, Chain))
  BY DEF FWDTimerProc
<1>3. PICK full \in SUBSET due : Becomes(DialAll(State, due, full))
  BY <1>2 DEF DialAll
<1> DEFINE T == DialAll(State, due, full)
<1>4. State \in Good
  BY <1>1, StreamFacts, AtTimers
<1>5. T \in Good
  BY <1>4, DialAllKeeps
<1>6. Becomes(T)
  BY <1>3
<1> HIDE DEF T
<1>7. State' = T /\ conn' = T.conn /\ host' = T.host
  BY <1>5, <1>6, BecomesIs DEF Good, Becomes
<1>8. \A m \in Stream : ~(turn' \in 1..m)
  BY <1>1, StreamFacts
<1>9. turn' \in NodeTurn..SlowTurn
  BY <1>1, StreamFacts DEF NodeTurn, SlowTurn
<1> QED BY <1>5, <1>7, <1>8, <1>9 DEF IInv, Good, TimerInv

LEMMA SlowTimerOK ==
    ASSUME IInv, NEW over, BBSSlowTimer(over)
    PROVE  IInv'
<1> DEFINE T == SlowAll(State, over)
<1>1. turn = NumberofStreams + 2 /\ turn' = NodeTurn
  BY DEF BBSSlowTimer, SlowTurn
<1>2. State \in Good
  BY <1>1, StreamFacts, AtTimers
<1>3. T \in Good
  BY <1>2, SlowAllKeeps
<1>4. Becomes(T)
  BY DEF BBSSlowTimer, SlowAll, SlowAlong
<1> HIDE DEF T
<1>5. State' = T /\ conn' = T.conn /\ host' = T.host
  BY <1>3, <1>4, BecomesIs DEF Good, Becomes
<1>6. \A m \in Stream : ~(turn' > m) /\ ~(turn' \in 1..m)
  BY <1>1, StreamFacts DEF NodeTurn
<1>7. turn' \in NodeTurn..SlowTurn
  BY <1>1, StreamFacts DEF NodeTurn, SlowTurn
<1> QED BY <1>3, <1>5, <1>6, <1>7 DEF IInv, Good, TimerInv

LEMMA NoSlowTimerOK ==
    ASSUME IInv, NoSlowTimer
    PROVE  IInv'
<1>1. turn' = NodeTurn /\ UNCHANGED << conn, host, fwd >>
  BY DEF NoSlowTimer
<1>2. State' = State
  BY <1>1 DEF State
<1>3. \A m \in Stream : ~(turn' > m) /\ ~(turn' \in 1..m)
  BY <1>1, StreamFacts DEF NodeTurn
<1>4. turn' \in NodeTurn..SlowTurn
  BY <1>1, StreamFacts DEF NodeTurn, SlowTurn
<1> QED BY <1>1, <1>2, <1>3, <1>4 DEF IInv

LEMMA NextOK == IInv /\ [Next]_vars => IInv'
<1> SUFFICES ASSUME IInv, [Next]_vars PROVE IInv'
  OBVIOUS
<1>1. CASE UNCHANGED vars
  <2>1. State' = State
    BY <1>1 DEF vars, State
  <2> QED BY <1>1, <2>1 DEF IInv, vars
<1> QED BY <1>1, CallInOK, CallOK, CallOutOK, LineInOK, DropOK, LockoutEndsOK, TNCTimerProcOK, PollOK,
           FWDTimerOK, SlowTimerOK, NoSlowTimerOK DEF Next

LEMMA Inductive == Spec => []IInv
  BY InitOK, NextOK, PTL DEF Spec

-----------------------------------------------------------------------------
(***************************************************************************)
(* The properties.                                                         *)
(***************************************************************************)

\* The records of the streams and of the partners keep the types of their
\* structs, with the script index at most one line beyond the script, and a
\* script runs only on a stream that is open and has a partner.
THEOREM RecordsAreInOrder == Spec => []TypeOK
<1>1. IInv => TypeOK
  BY DEF IInv, SInv, State, States, LocalOK, TypeOK
<1> QED BY <1>1, Inductive, PTL

\* No disconnect request outlives its session: cATTACHTOBBS and ConnecttoBBS
\* never give a stream to a new call on which one is pending.
THEOREM NoStaleRequest == Spec => []FreeHasNoDisc
<1>1. IInv => FreeHasNoDisc
  <2> SUFFICES ASSUME IInv, NEW n \in Stream,
                      n \in Free \/ (~conn[n].Active /\ turn # NodeTurn)
               PROVE  ~host[n].disc
    BY DEF FreeHasNoDisc
  <2>1. LocalOK(conn[n], host[n])
    BY DEF IInv, SInv, State
  <2>2. CASE n \in Free
    BY <2>1, <2>2 DEF Free, LocalOK
  <2>3. CASE ~conn[n].Active /\ turn # NodeTurn
    <3>1. turn > n \/ turn \in 1..n
      BY <2>3, StreamFacts DEF IInv, NodeTurn, SlowTurn
    <3> QED BY <2>3, <3>1 DEF IInv, Polled
  <2> QED BY <2>2, <2>3
<1> QED BY <1>1, Inductive, PTL

\* The mark that a partner is being forwarded to stands for a session with it
\* that is open and was accepted or dialled, whatever other sessions with the
\* same partner have come and gone.
THEOREM MarkHasSession == Spec => []ForwardingHasSession
<1>1. IInv => ForwardingHasSession
  <2> SUFFICES ASSUME IInv, NEW p \in Partner, fwd[p].Forwarding
               PROVE  \E n \in Stream : conn[n].Active /\ conn[n].user = p /\ conn[n].timed
    BY DEF ForwardingHasSession
  <2>1. Held(State, p)
    BY DEF IInv, SInv
  <2> QED BY <2>1 DEF Held, Holds, State
<1> QED BY <1>1, Inductive, PTL

\* Of the callers accepted on the interlocked port a partner is alone.
THEOREM PartnerIsAlone == Spec => []IncomingAlone
<1>1. IInv => IncomingAlone
  BY DEF IInv, SInv, Alone, State, Taken, IncomingAlone, AcceptedCall
<1> QED BY <1>1, Inductive, PTL

\* A link request that L2SABM answers with DM is one that the BBS would have
\* refused when it polled the caller's stream.
THEOREM RefusedEitherWay == Spec => []DMOnlyIfRefused
<1>1. IInv => DMOnlyIfRefused
  <2> SUFFICES ASSUME IInv, NEW p \in Partner, NEW port \in Port, NEW n \in Stream,
                      NEW stray \in Port \cup {0},
                      RefuseBBSLinkRequest(State, p, port), ~conn[n].Active
               PROVE  RefuseIncomingSession(Arrived(n, p, port), p, port, stray)
    BY DEF DMOnlyIfRefused
  <2> DEFINE C == [IdleConn EXCEPT !.Active = TRUE, !.user = p]
             H == [IdleHost EXCEPT !.sess = "linked", !.peer = p, !.port = port]
             A == Arrived(n, p, port)
  <2>1. State \in States /\ p \in Caller
    BY CallerAssumption DEF IInv, SInv
  <2>2. C \in Conns /\ C.Active
    BY <2>1 DEF IdleConn, Conns
  <2>3. H \in Hosts /\ H.sess = "linked" /\ H.port = port
    BY <2>1 DEF IdleHost, Hosts
  <2>4. A = Set(State, n, C, H)
    <3>1. A = [[State EXCEPT !.host[n] = H] EXCEPT !.conn[n] = C]
      BY DEF Arrived, State
    <3>2. [State EXCEPT !.host[n] = H] = Set(State, n, State.conn[n], H)
      BY <2>1, Parts
    <3> QED BY <3>1, <3>2 DEF Set
  <2> HIDE DEF C, H, A
  <2>5. /\ A \in States /\ A.conn[n] = C /\ A.host[n] = H /\ A.fwd = fwd
        /\ \A m \in Stream : m # n => A.conn[m] = conn[m] /\ A.host[m] = host[m]
    BY <2>1, <2>2, <2>3, <2>4, SetFields DEF State
  <2>6. CASE fwd[p].locked
    BY <2>5, <2>6 DEF RefuseIncomingSession, A
  <2>7. CASE ~fwd[p].locked
    <3>1. port = InterlockPort /\ CountLocked(State, Active(State), port) > 0
      BY <2>7 DEF RefuseBBSLinkRequest, Against, State
    <3>2. PICK m \in Active(State) : LinkPort(State.host[m]) = port
      <4>1. Active(State) \in SUBSET Stream
        BY DEF Active
      <4> QED BY <2>1, <3>1, <4>1, CountedLocked
    <3>3. m \in Stream /\ m # n /\ conn[m].Active /\ LinkPort(host[m]) = port
      BY <3>2 DEF Active, State
    <3>4. host[m].sess # "none"
      BY <3>1, <3>3, PortAssumption DEF LinkPort
    <3>5. /\ m \in Active(A) /\ n \in Active(A) /\ Active(A) \in SUBSET Stream
          /\ A.host[m].sess # "none" /\ LinkPort(A.host[m]) = port
          /\ A.host[n].sess # "none" /\ LinkPort(A.host[n]) = port
      BY <2>2, <2>3, <2>5, <3>3, <3>4 DEF Active, LinkPort
    <3>6. CountOnPort(A, Active(A), port, stray) > 1
      BY <2>5, <3>3, <3>5, Counted
    <3> QED BY <3>1, <3>6 DEF RefuseIncomingSession, Against, A
  <2> QED BY <2>6, <2>7
<1> QED BY <1>1, Inductive, PTL
=============================================================================
