---------------------------- MODULE L2DataProofs ----------------------------
(***************************************************************************)
(* TypeOK is an invariant of L2Data for every value of the constants, and  *)
(* WindowInv under Covered.  The order is that of the code: arithmetic     *)
(* modulo SeqMod, what makes a window (WindowIntro, WindowElim), the       *)
(* routines that move it (LoadFrames, ACKMSG, GoBack), those that do not   *)
(* (SameWindow), then one lemma for each action.  The second part is that  *)
(* L2Data implements Stream; that no N(R) is for more than is held, which  *)
(* the first part takes for granted (HeadAcks), follows from it.           *)
(***************************************************************************)
EXTENDS L2Data, SequenceTheorems, TLAPS

\* Dist without the modulus: the steps from i up to j.
LEMMA DistArith ==
    ASSUME NEW i \in SeqNo, NEW j \in SeqNo
    PROVE  Dist(i, j) = IF j >= i THEN j - i ELSE j - i + SeqMod
<1>1. CASE SeqMod = 4
  <2>1. i \in 0..3 /\ j \in 0..3
    BY <1>1 DEF SeqNo
  <2>2. (j - i) % 4 = IF j >= i THEN j - i ELSE j - i + 4
    BY <2>1
  <2> QED
    BY <1>1, <2>2 DEF Dist
<1>2. CASE SeqMod = 8
  <2>1. i \in 0..7 /\ j \in 0..7
    BY <1>2 DEF SeqNo
  <2>2. (j - i) % 8 = IF j >= i THEN j - i ELSE j - i + 8
    BY <2>1
  <2> QED
    BY <1>2, <2>2 DEF Dist
<1> QED
  BY <1>1, <1>2, SeqModAssumption

\* Plus without the modulus, for up to one turn.
LEMMA PlusArith ==
    ASSUME NEW i \in SeqNo, NEW n \in 0..SeqMod
    PROVE  Plus(i, n) = IF i + n < SeqMod THEN i + n ELSE i + n - SeqMod
<1>1. CASE SeqMod = 4
  <2>1. i \in 0..3 /\ n \in 0..4
    BY <1>1 DEF SeqNo
  <2>2. (i + n) % 4 = IF i + n < 4 THEN i + n ELSE i + n - 4
    BY <2>1
  <2> QED
    BY <1>1, <2>2 DEF Plus
<1>2. CASE SeqMod = 8
  <2>1. i \in 0..7 /\ n \in 0..8
    BY <1>2 DEF SeqNo
  <2>2. (i + n) % 8 = IF i + n < 8 THEN i + n ELSE i + n - 8
    BY <2>1
  <2> QED
    BY <1>2, <2>2 DEF Plus
<1> QED
  BY <1>1, <1>2, SeqModAssumption

\* SeqNo by its bounds, which is all the other lemmas use of it.
LEMMA SeqModType == /\ SeqMod \in Nat /\ SeqMod > 0
                    /\ \A i : i \in SeqNo <=> i \in Int /\ 0 <= i /\ i < SeqMod
  BY SeqModAssumption DEF SeqNo

\* A distance is less than the modulus.
LEMMA DistType ==
    ASSUME NEW i \in SeqNo, NEW j \in SeqNo
    PROVE  Dist(i, j) \in SeqNo
  BY DistArith, SeqModType

\* Adding up to one turn to a sequence number gives one.
LEMMA PlusType ==
    ASSUME NEW i \in SeqNo, NEW n \in 0..SeqMod
    PROVE  Plus(i, n) \in SeqNo
  BY PlusArith, SeqModType

\* So does adding any number, as PROC_I_FRAME does with a whole run.
LEMMA PlusAny ==
    ASSUME NEW i \in SeqNo, NEW n \in Nat
    PROVE  Plus(i, n) \in SeqNo
<1>1. i + n \in Int
  BY SeqModType
<1>2. (i + n) % 4 \in 0..3 /\ (i + n) % 8 \in 0..7
  BY <1>1
<1> QED
  BY <1>2, SeqModAssumption DEF SeqNo, Plus

\* Distances from a slot h further on.
LEMMA DistOffset ==
    ASSUME NEW i \in SeqNo, NEW h \in SeqNo, NEW j \in SeqNo
    PROVE  Dist(Plus(i, h), j) = IF Dist(i, j) >= h THEN Dist(i, j) - h
                                 ELSE Dist(i, j) - h + SeqMod
<1>1. h \in 0..SeqMod /\ Plus(i, h) \in SeqNo
  BY SeqModType, PlusType
<1>2. Plus(i, h) = IF i + h < SeqMod THEN i + h ELSE i + h - SeqMod
  BY <1>1, PlusArith
<1>3. Dist(i, j) = IF j >= i THEN j - i ELSE j - i + SeqMod
  BY DistArith
<1>4. Dist(Plus(i, h), j) = IF j >= Plus(i, h) THEN j - Plus(i, h)
                            ELSE j - Plus(i, h) + SeqMod
  BY <1>1, DistArith
<1> QED
  BY <1>1, <1>2, <1>3, <1>4, SeqModType

\* Moving j on by n moves the distance on by n, short of a full turn.
LEMMA DistPlus ==
    ASSUME NEW i \in SeqNo, NEW j \in SeqNo, NEW n \in 0..SeqMod,
           Dist(i, j) + n < SeqMod
    PROVE  Dist(i, Plus(j, n)) = Dist(i, j) + n
<1>1. Plus(j, n) \in SeqNo
  BY PlusType
<1>2. Plus(j, n) = IF j + n < SeqMod THEN j + n ELSE j + n - SeqMod
  BY PlusArith
<1>3. Dist(i, j) = IF j >= i THEN j - i ELSE j - i + SeqMod
  BY DistArith
<1>4. Dist(i, Plus(j, n)) = IF Plus(j, n) >= i THEN Plus(j, n) - i
                            ELSE Plus(j, n) - i + SeqMod
  BY <1>1, DistArith
<1> QED
  BY <1>1, <1>2, <1>3, <1>4, SeqModType

\* Least finds the least element of a set of slot counts.
LEMMA LeastIsLeast ==
    ASSUME NEW S \in SUBSET (0..SeqMod), S # {}
    PROVE  Least(S) \in S /\ \A k \in S : Least(S) <= k
<1>1. SUFFICES ASSUME \A n \in S : \E k \in S : k < n
              PROVE  FALSE
  <2>1. PICK n \in S : \A k \in S : ~(k < n)
    BY <1>1
  <2>2. \A k \in S : n <= k
    BY <2>1, SeqModAssumption
  <2> QED
    BY <2>1, <2>2 DEF Least
<1>2. S \subseteq 0..8
  BY SeqModAssumption
<1>3. 0 \notin S
  BY <1>1, <1>2
<1>4. 1 \notin S
  BY <1>1, <1>2, <1>3
<1>5. 2 \notin S
  BY <1>1, <1>2, <1>3, <1>4
<1>6. 3 \notin S
  BY <1>1, <1>2, <1>3, <1>4, <1>5
<1>7. 4 \notin S
  BY <1>1, <1>2, <1>3, <1>4, <1>5, <1>6
<1>8. 5 \notin S
  BY <1>1, <1>2, <1>3, <1>4, <1>5, <1>6, <1>7
<1>9. 6 \notin S
  BY <1>1, <1>2, <1>3, <1>4, <1>5, <1>6, <1>7, <1>8
<1>10. 7 \notin S
  BY <1>1, <1>2, <1>3, <1>4, <1>5, <1>6, <1>7, <1>8, <1>9
<1>11. 8 \notin S
  BY <1>1, <1>2, <1>3, <1>4, <1>5, <1>6, <1>7, <1>8, <1>9, <1>10
<1>12. PICK n \in S : TRUE
  OBVIOUS
<1>13. n \in 0..8
  BY <1>2
<1> QED
  BY <1>12, <1>13, <1>3, <1>4, <1>5, <1>6, <1>7, <1>8, <1>9, <1>10, <1>11

-----------------------------------------------------------------------------
(* The window of one entry.                                                *)

\* What it takes to establish Window(L): FRAMES holds h messages after a.
LEMMA WindowIntro ==
    ASSUME NEW L \in Links, NEW h \in 0..SeqMod, NEW a \in Nat,
           L.SDTSLOT = Plus(L.LINKWS, h),
           \A i \in SeqNo : L.FRAMES[i] = IF Dist(L.LINKWS, i) < h
                                          THEN a + 1 + Dist(L.LINKWS, i)
                                          ELSE NoMsg,
           L.loaded = a + h, L.loaded <= L.queued
    PROVE  Held(L) = h /\ Acked(L) = a /\ Window(L)
<1> DEFINE ws == L.LINKWS
<1>1. ws \in SeqNo /\ L.SDTSLOT \in SeqNo /\ L.loaded \in Nat
  BY DEF Links
<1>2. Dist(ws, ws) = 0
  BY <1>1, SeqModType, DistArith
<1>3. L.FRAMES[ws] = IF 0 < h THEN a + 1 ELSE NoMsg
  BY <1>1, <1>2
<1>4. Held(L) = h
  <2>1. CASE h = 0
    BY <1>3, <2>1 DEF Held
  <2>2. CASE h # 0
    <3>1. L.FRAMES[ws] # NoMsg
      BY <1>3, <2>2 DEF NoMsg
    <3>2. L.SDTSLOT = IF ws + h < SeqMod THEN ws + h ELSE ws + h - SeqMod
      BY <1>1, SeqModAssumption, DistArith, PlusArith
    <3>3. CASE h = SeqMod
      BY <1>1, <3>1, <3>2, <3>3, SeqModType, DistArith, PlusArith DEF Held
    <3>4. CASE h # SeqMod
      <4>1. L.SDTSLOT # ws
        BY <1>1, <3>2, <3>4, <2>2, SeqModType, DistArith, PlusArith
      <4>2. Dist(ws, L.SDTSLOT) = h
        BY <1>1, <3>2, <3>4, <2>2, SeqModType, DistArith, PlusArith
      <4> QED
        BY <3>1, <4>1, <4>2 DEF Held
    <3> QED
      BY <3>3, <3>4
  <2> QED
    BY <2>1, <2>2
<1>5. Acked(L) = a
  BY <1>4 DEF Acked
<1> QED
  BY <1>4, <1>5 DEF Window

\* The same the other way.
LEMMA WindowElim ==
    ASSUME NEW L \in Links, Window(L)
    PROVE  \E h \in 0..SeqMod, a \in Nat :
             /\ L.SDTSLOT = Plus(L.LINKWS, h)
             /\ \A i \in SeqNo : L.FRAMES[i] = IF Dist(L.LINKWS, i) < h
                                               THEN a + 1 + Dist(L.LINKWS, i)
                                               ELSE NoMsg
             /\ L.loaded = a + h /\ L.loaded <= L.queued
             /\ Held(L) = h /\ Acked(L) = a
<1>1. L.LINKWS \in SeqNo /\ L.SDTSLOT \in SeqNo /\ L.loaded \in Nat
  BY DEF Links
<1>2. Dist(L.LINKWS, L.SDTSLOT) \in 0..SeqMod
  BY <1>1, SeqModType, DistType
<1>3. Held(L) \in 0..SeqMod
  BY <1>2, SeqModType DEF Held
<1>4. Acked(L) \in Nat /\ L.loaded = Acked(L) + Held(L)
  BY <1>1, <1>3, SeqModType DEF Window, Acked
<1> QED
  BY <1>3, <1>4 DEF Window

\* Window(L) speaks of these fields only.
LEMMA WindowSame ==
    ASSUME NEW L \in Links, NEW N \in Links, Window(L),
           N.SDTSLOT = L.SDTSLOT, N.FRAMES = L.FRAMES,
           N.LINKWS = L.LINKWS, N.loaded = L.loaded, N.queued = L.queued
    PROVE  Window(N)
<1>1. Held(N) = Held(L) /\ Acked(N) = Acked(L)
  BY DEF Held, Acked
<1> QED
  BY <1>1 DEF Window

-----------------------------------------------------------------------------
(* Each routine keeps the type and the window of the entry.                *)

\* What the runs' instances have in common: MAXFRAME is no more than the frames
\* a receiver saves, and an end that may close is sent nothing.  Only then is
\* the window kept; the second part says why.
Covered == /\ LINKWINDOW <= RcvWindow
           /\ \A s \in Closers : MaxMsgs[Other(s)] = 0

OK(L) == L \in Links /\ (Covered => Window(L))
ResultOK(r) == OK(r.link) /\ r.out \in Seq(Frames)

\* The fields that the window is made of.
LEMMA WindowFields ==
    ASSUME NEW L \in Links
    PROVE  /\ L.LINKWS \in SeqNo /\ L.LINKNS \in SeqNo /\ L.SDTSLOT \in SeqNo
           /\ L.FRAMES \in [SeqNo -> Nat]
           /\ L.loaded \in Nat /\ L.queued \in Nat
  BY DEF Links

\* N has the fields of L that the window is made of.
SameWindow(L, N) ==
    /\ N.FRAMES = L.FRAMES /\ N.SDTSLOT = L.SDTSLOT /\ N.loaded = L.loaded
    /\ N.LINKWS = L.LINKWS /\ N.queued = L.queued

\* What leaves the fields of the window alone keeps it.
LEMMA SameWindowOK ==
    ASSUME NEW L, OK(L), NEW N \in Links, SameWindow(L, N)
    PROVE  OK(N)
  BY WindowSame DEF OK, SameWindow

\* SDETX, first loop: moving frames from TX_Q to FRAMES keeps the types.
LEMMA LoadSomeType ==
    ASSUME NEW L \in Links, NEW n \in 0..SeqMod,
           NEW M, M = [L EXCEPT !.FRAMES = [i \in SeqNo |->
                     IF Dist(L.SDTSLOT, i) < n
                     THEN L.loaded + 1 + Dist(L.SDTSLOT, i) ELSE @[i]],
                  !.SDTSLOT = Plus(@, n),
                  !.loaded = @ + n]
    PROVE  M \in Links
<1> DEFINE F == [i \in SeqNo |-> IF Dist(L.SDTSLOT, i) < n
                     THEN L.loaded + 1 + Dist(L.SDTSLOT, i) ELSE L.FRAMES[i]]
           N == [L EXCEPT !.FRAMES = F, !.SDTSLOT = Plus(@, n), !.loaded = @ + n]
<1>1. /\ L.SDTSLOT \in SeqNo /\ L.loaded \in Nat
      /\ L.FRAMES \in [SeqNo -> Nat]
  BY WindowFields
<1>2. F \in [SeqNo -> Nat]
  <2>1. \A i \in SeqNo : Dist(L.SDTSLOT, i) \in Nat
    BY <1>1, DistType, SeqModType
  <2> QED
    BY <1>1, <2>1
<1>3. Plus(L.SDTSLOT, n) \in SeqNo /\ L.loaded + n \in Nat
  BY <1>1, PlusType, SeqModType
<1>4. N \in Links
  <2> HIDE DEF F
  <2> QED
    BY <1>1, <1>2, <1>3 DEF Links
<1> QED
  BY <1>4

\* SDETX, first loop: n frames that fit extend what FRAMES holds.
LEMMA LoadSome ==
    ASSUME NEW L \in Links, Window(L), NEW n \in 0..SeqMod, Loadable(L, n),
           NEW M, M = [L EXCEPT !.FRAMES = [i \in SeqNo |->
                     IF Dist(L.SDTSLOT, i) < n
                     THEN L.loaded + 1 + Dist(L.SDTSLOT, i) ELSE @[i]],
                  !.SDTSLOT = Plus(@, n),
                  !.loaded = @ + n]
    PROVE  Window(M) /\ Acked(M) = Acked(L)
<1> DEFINE F == [i \in SeqNo |-> IF Dist(L.SDTSLOT, i) < n
                     THEN L.loaded + 1 + Dist(L.SDTSLOT, i) ELSE L.FRAMES[i]]
           N == [L EXCEPT !.FRAMES = F, !.SDTSLOT = Plus(@, n), !.loaded = @ + n]
           ws == L.LINKWS
<1>1. /\ ws \in SeqNo /\ L.SDTSLOT \in SeqNo /\ L.LINKNS \in SeqNo
      /\ L.loaded \in Nat /\ L.queued \in Nat /\ L.FRAMES \in [SeqNo -> Nat]
  BY WindowFields
<1>2. PICK h \in 0..SeqMod, a \in Nat :
             /\ L.SDTSLOT = Plus(ws, h)
             /\ \A i \in SeqNo : L.FRAMES[i] = IF Dist(ws, i) < h
                                               THEN a + 1 + Dist(ws, i)
                                               ELSE NoMsg
             /\ L.loaded = a + h /\ L.loaded <= L.queued
             /\ Acked(L) = a
  BY WindowElim
<1>3. L.SDTSLOT = IF ws + h < SeqMod THEN ws + h ELSE ws + h - SeqMod
  BY <1>1, <1>2, PlusArith
<1>4. h + n <= SeqMod
  <2>1. SUFFICES ASSUME h + n > SeqMod
                 PROVE  FALSE
    BY SeqModType
  <2>2. SeqMod - h \in 0..(n - 1) /\ SeqMod - h \in 0..SeqMod
    BY <2>1, SeqModType
  <2>3. L.FRAMES[Plus(L.SDTSLOT, SeqMod - h)] = NoMsg
    BY <2>2 DEF Loadable
  <2>4. Plus(L.SDTSLOT, SeqMod - h) = ws
    <3>1. Plus(L.SDTSLOT, SeqMod - h) =
            IF L.SDTSLOT + (SeqMod - h) < SeqMod THEN L.SDTSLOT + (SeqMod - h)
            ELSE L.SDTSLOT + (SeqMod - h) - SeqMod
      BY <1>1, <2>2, PlusArith
    <3> QED
      BY <1>1, <1>3, <3>1, SeqModType
  <2>5. Dist(ws, ws) = 0
    BY <1>1, SeqModType, DistArith
  <2>6. h = 0
    BY <1>1, <1>2, <2>3, <2>4, <2>5 DEF NoMsg
  <2> QED
    BY <2>1, <2>6, SeqModType
<1>5. M = N
  OBVIOUS
<1>6. N \in Links
  BY <1>5, LoadSomeType
<1>7. /\ N.FRAMES = F /\ N.SDTSLOT = Plus(L.SDTSLOT, n) /\ N.loaded = L.loaded + n
      /\ N.LINKWS = ws /\ N.queued = L.queued
  BY DEF Links
<1>8. Plus(L.SDTSLOT, n) = Plus(ws, h + n)
  <2>1. Plus(L.SDTSLOT, n) = IF L.SDTSLOT + n < SeqMod THEN L.SDTSLOT + n
                             ELSE L.SDTSLOT + n - SeqMod
    BY <1>1, PlusArith
  <2>2. h + n \in 0..SeqMod
    BY <1>4, SeqModType
  <2>3. Plus(ws, h + n) = IF ws + (h + n) < SeqMod THEN ws + (h + n)
                          ELSE ws + (h + n) - SeqMod
    BY <1>1, <2>2, PlusArith
  <2> QED
    BY <1>1, <1>3, <1>4, <2>1, <2>3, SeqModType
<1>9. ASSUME NEW i \in SeqNo
      PROVE  F[i] = IF Dist(ws, i) < h + n THEN a + 1 + Dist(ws, i) ELSE NoMsg
  <2>1. Dist(ws, i) \in SeqNo /\ Dist(L.SDTSLOT, i) \in SeqNo
    BY <1>1, DistType
  <2>2. L.FRAMES[i] = IF Dist(ws, i) < h THEN a + 1 + Dist(ws, i) ELSE NoMsg
    BY <1>2
  <2>3. F[i] = IF Dist(L.SDTSLOT, i) < n THEN L.loaded + 1 + Dist(L.SDTSLOT, i)
               ELSE L.FRAMES[i]
    OBVIOUS
  <2>4. CASE h = SeqMod
    <3>1. n = 0
      BY <1>4, <2>4, SeqModType
    <3> QED
      BY <2>1, <2>2, <2>3, <2>4, <3>1, SeqModType
  <2>5. CASE h # SeqMod
    <3>1. h \in SeqNo
      BY <2>5, SeqModType
    <3>2. Dist(L.SDTSLOT, i) = IF Dist(ws, i) >= h THEN Dist(ws, i) - h
                               ELSE Dist(ws, i) - h + SeqMod
      <4>1. Dist(Plus(ws, h), i) = IF Dist(ws, i) >= h THEN Dist(ws, i) - h
                                   ELSE Dist(ws, i) - h + SeqMod
        BY <1>1, <3>1, DistOffset
      <4> QED
        BY <1>2, <4>1
    <3> QED
      BY <1>2, <1>4, <2>1, <2>2, <2>3, <3>1, <3>2, SeqModType
  <2> QED
    BY <2>4, <2>5
<1>10. L.loaded + n <= L.queued
  BY DEF Loadable
<1>11. L.loaded + n = a + (h + n) /\ h + n \in 0..SeqMod
  BY <1>2, <1>4, SeqModType
<1> HIDE DEF F, N
<1>12. Window(N) /\ Acked(N) = a
  BY <1>2, <1>6, <1>7, <1>8, <1>9, <1>10, <1>11, WindowIntro
<1> QED
  BY <1>2, <1>5, <1>12

\* LoadFrames keeps the type and the window.
LEMMA LoadFramesOK ==
    ASSUME NEW L, OK(L)
    PROVE  /\ OK(LoadFrames(L))
           /\ Covered => Acked(LoadFrames(L)) = Acked(L)
           /\ LoadFrames(L).LINKWS = L.LINKWS /\ LoadFrames(L).LINKNS = L.LINKNS
           /\ L.loaded <= LoadFrames(L).loaded
<1> DEFINE S == {k \in 0..SeqMod : k = SeqMod \/ ~Loadable(L, k + 1)}
           n == Least(S)
<1>1. S \in SUBSET (0..SeqMod) /\ SeqMod \in S
  BY SeqModType
<1>2. n \in S /\ \A k \in S : n <= k
  BY <1>1, LeastIsLeast
<1>3. n \in 0..SeqMod
  BY <1>2
<1>4. \A k \in 0..SeqMod : k \notin S => Loadable(L, k + 1)
  OBVIOUS
<1> HIDE DEF n
<1>5. Covered => Loadable(L, n)
  <2> SUFFICES ASSUME Covered
               PROVE  Loadable(L, n)
    OBVIOUS
  <2>1. CASE n = 0
    <3>1. L.loaded <= L.queued /\ L.loaded \in Nat
      BY DEF OK, Links, Window
    <3> QED
      BY <2>1, <3>1 DEF Loadable
  <2>2. CASE n # 0
    <3>1. n - 1 \in 0..SeqMod /\ n - 1 + 1 = n
      BY <1>3, <2>2, SeqModType
    <3>2. n - 1 \notin S
      <4> HIDE DEF S
      <4> QED
        BY <1>2, <1>3
    <3> QED
      BY <1>4, <3>1, <3>2
  <2> QED
    BY <2>1, <2>2
<1>6. LoadFrames(L) =
        [L EXCEPT !.FRAMES = [i \in SeqNo |->
                     IF Dist(L.SDTSLOT, i) < n
                     THEN L.loaded + 1 + Dist(L.SDTSLOT, i) ELSE @[i]],
                  !.SDTSLOT = Plus(@, n),
                  !.loaded = @ + n]
  BY DEF LoadFrames, n
<1>7. L \in Links /\ L.loaded \in Nat
  BY DEF OK, Links
<1>8. LoadFrames(L) \in Links
  BY <1>3, <1>6, <1>7, LoadSomeType
<1>9. Covered => Window(LoadFrames(L)) /\ Acked(LoadFrames(L)) = Acked(L)
  BY <1>3, <1>5, <1>6, <1>7, LoadSome DEF OK
<1>10. /\ LoadFrames(L).LINKWS = L.LINKWS /\ LoadFrames(L).LINKNS = L.LINKNS
       /\ LoadFrames(L).loaded = L.loaded + n
  BY <1>6, <1>7 DEF Links
<1>11. L.loaded <= LoadFrames(L).loaded
  BY <1>3, <1>7, <1>10, SeqModType
<1> QED
  BY <1>8, <1>9, <1>10, <1>11 DEF OK

\* An I frame built from a slot has the type of a frame.
LEMMA IFrameType ==
    ASSUME NEW L \in Links, NEW ns \in SeqNo, NEW p \in BOOLEAN
    PROVE  IFrame(L, ns, p) \in Frames
  BY DEF Links, Frames, Frame, IFrame, FrameTypes

\* N(S) moves on: the window does not depend on it.
LEMMA SendSome ==
    ASSUME NEW L, OK(L), NEW n \in 0..SeqMod
    PROVE  OK([L EXCEPT !.LINKNS = Plus(@, n), !.L2ACKREQ = FALSE,
                        !.POLLSENT = TRUE, !.L2TIMER = TRUE])
<1> DEFINE N == [L EXCEPT !.LINKNS = Plus(@, n), !.L2ACKREQ = FALSE,
                          !.POLLSENT = TRUE, !.L2TIMER = TRUE]
<1>1. L \in Links /\ L.LINKNS \in SeqNo
  BY DEF OK, Links
<1>2. Plus(L.LINKNS, n) \in SeqNo
  BY <1>1, PlusType
<1>3. N \in Links /\ SameWindow(L, N)
  BY <1>1, <1>2 DEF Links, SameWindow
<1> HIDE DEF N
<1>4. OK(N)
  BY <1>3, SameWindowOK
<1> QED
  BY <1>4 DEF N

\* SendFrames keeps them, and what it sends are frames.
LEMMA SendFramesOK ==
    ASSUME NEW L, OK(L), Dist(L.LINKWS, L.LINKNS) < LINKWINDOW
    PROVE  ResultOK(SendFrames(L))
<1> DEFINE w == LINKWINDOW - Dist(L.LINKWS, L.LINKNS)
           S == {n \in 0..w : \/ n = w
                              \/ L.FRAMES[Plus(L.LINKNS, n)] = NoMsg}
           n == Sendable(L)
<1>1. L \in Links /\ L.LINKNS \in SeqNo /\ L.LINKWS \in SeqNo
  BY DEF OK, Links
<1>2. Dist(L.LINKWS, L.LINKNS) \in 0..LINKWINDOW
  BY <1>1, DistType, SeqModType, LinkWindowAssumption
<1>3. w \in 0..SeqMod /\ w < SeqMod /\ w \in S
  BY <1>2, LinkWindowAssumption, SeqModType
<1>4. S \in SUBSET (0..SeqMod)
  BY <1>3, SeqModType
<1>5. Least(S) \in S /\ \A k \in S : Least(S) <= k
  BY <1>3, <1>4, LeastIsLeast
<1>6. n = 0 \/ n = Least(S)
  BY DEF Sendable
<1>7. n \in 0..w
  BY <1>3, <1>5, <1>6, SeqModType
<1> HIDE DEF n
<1>8. n \in 0..SeqMod
  BY <1>2, <1>3, <1>7, LinkWindowAssumption, SeqModType
<1>9. CASE n = 0
  BY <1>9, <1>1 DEF SendFrames, ResultOK, OK, n
<1>10. CASE n # 0
  <2> DEFINE q == [k \in 1..n |-> IFrame(L, Plus(L.LINKNS, k - 1), k = n)]
  <2>1. ASSUME NEW k \in 1..n
        PROVE  Plus(L.LINKNS, k - 1) \in SeqNo
    <3>1. k - 1 \in 0..SeqMod
      BY <1>8, SeqModType
    <3> QED
      BY <1>1, <3>1, PlusType
  <2>2. \A k \in 1..n : q[k] \in Frames
    BY <1>1, <2>1, IFrameType
  <2>3. q \in Seq(Frames)
    BY <1>8, <2>2, SeqModType, IsASeq
  <2>4. SendFrames(L) = [link |-> [L EXCEPT !.LINKNS = Plus(@, n), !.L2ACKREQ = FALSE,
                                 !.POLLSENT = TRUE, !.L2TIMER = TRUE],
                         out |-> q]
    BY <1>10 DEF SendFrames, n
  <2>5. OK(SendFrames(L).link)
    <3>1. OK([L EXCEPT !.LINKNS = Plus(@, n), !.L2ACKREQ = FALSE,
                       !.POLLSENT = TRUE, !.L2TIMER = TRUE])
      BY <1>8, SendSome
    <3> QED
      BY <2>4, <3>1
  <2> QED
    BY <2>3, <2>4, <2>5 DEF ResultOK
<1> QED
  BY <1>9, <1>10

\* SDETX keeps the type and the window.
LEMMA SDETXOK ==
    ASSUME NEW L, OK(L)
    PROVE  ResultOK(SDETX(L))
<1>1. CASE Dist(L.LINKWS, L.LINKNS) >= LINKWINDOW
  <2>1. SDETX(L) = [link |-> L, out |-> << >>]
    BY <1>1 DEF SDETX
  <2> QED
    BY <2>1 DEF ResultOK
<1>2. CASE ~(Dist(L.LINKWS, L.LINKNS) >= LINKWINDOW)
  <2> DEFINE N == LoadFrames(L)
  <2>1. SDETX(L) = SendFrames(N)
    BY <1>2 DEF SDETX
  <2>2. Dist(L.LINKWS, L.LINKNS) < LINKWINDOW
    <3>1. L.LINKWS \in SeqNo /\ L.LINKNS \in SeqNo
      BY DEF OK, Links
    <3> QED
      BY <1>2, <3>1, DistType, SeqModType, LinkWindowAssumption
  <2>3. OK(N) /\ Dist(N.LINKWS, N.LINKNS) < LINKWINDOW
    BY <2>2, LoadFramesOK
  <2> HIDE DEF N
  <2> QED
    BY <2>1, <2>3, SendFramesOK
<1> QED
  BY <1>1, <1>2

-----------------------------------------------------------------------------
(* Acknowledgements.                                                       *)

\* The end of ACKMSG keeps them and leaves N(R) alone.
LEMMA AckTailOK ==
    ASSUME NEW L, OK(L)
    PROVE  /\ OK(AckTail(L)) /\ AckTail(L).LINKNR = L.LINKNR
           /\ Acked(AckTail(L)) = Acked(L)
<1> DEFINE N == AckTail(L)
<1>1. L \in Links
  BY DEF OK
<1>2. N \in Links
  <2> DEFINE idle == L.L2RETRIES = 0
             close == L.DISCPENDING /\ TX_QEmpty(L)
             timer == close \/ (L.L2TIMER /\ ~idle)
             poll == L.POLLSENT /\ ~idle
             pending == L.DISCPENDING /\ ~close
             state == IF close THEN 4 ELSE L.L2STATE
  <2>1. timer \in BOOLEAN /\ poll \in BOOLEAN /\ pending \in BOOLEAN
    OBVIOUS
  <2>2. state \in LinkStates
    BY <1>1 DEF Links, LinkStates
  <2>3. N = IF L.LINKWS # L.LINKNS THEN [L EXCEPT !.L2TIMER = TRUE]
            ELSE [L EXCEPT !.L2TIMER = timer, !.POLLSENT = poll,
                           !.DISCPENDING = pending, !.L2STATE = state]
    BY DEF AckTail
  <2> HIDE DEF N, timer, poll, pending, state
  <2>4. [L EXCEPT !.L2TIMER = TRUE] \in Links
    BY <1>1 DEF Links
  <2>5. [L EXCEPT !.L2TIMER = timer, !.POLLSENT = poll,
                  !.DISCPENDING = pending, !.L2STATE = state] \in Links
    BY <1>1, <2>1, <2>2 DEF Links
  <2> QED
    BY <2>3, <2>4, <2>5
<1>3. /\ N.FRAMES = L.FRAMES /\ N.SDTSLOT = L.SDTSLOT /\ N.loaded = L.loaded
      /\ N.LINKWS = L.LINKWS /\ N.queued = L.queued
      /\ N.LINKNR = L.LINKNR
  BY <1>1 DEF AckTail, Links
<1> HIDE DEF N
<1>4. OK(N)
  BY <1>2, <1>3, SameWindowOK DEF SameWindow
<1>5. Acked(N) = Acked(L)
  BY <1>3 DEF Acked, Held
<1> QED
  BY <1>3, <1>4, <1>5 DEF N

\* N(R) acknowledges no more than FRAMES holds.  SDNRCHK does not see to it:
\* it compares N(R) with N(S), which need not lie in the window.
AcksHeld(L, nr) == Dist(L.LINKWS, nr) <= Held(L)

\* The window starts at N(R): what lies below it is released.
LEMMA ReleaseAcked ==
    ASSUME NEW L \in Links, Window(L), NEW nr \in SeqNo, AcksHeld(L, nr),
           NEW F, F = [i \in SeqNo |-> IF Dist(L.LINKWS, i) < Dist(L.LINKWS, nr)
                                       THEN NoMsg ELSE L.FRAMES[i]],
           NEW N \in Links, N.LINKWS = nr, N.FRAMES = F,
           N.SDTSLOT = L.SDTSLOT, N.loaded = L.loaded, N.queued = L.queued
    PROVE  Window(N) /\ Acked(N) = Acked(L) + Dist(L.LINKWS, nr)
<1> DEFINE ws == L.LINKWS
           k == Dist(ws, nr)
<1>1. /\ ws \in SeqNo /\ L.SDTSLOT \in SeqNo
      /\ L.loaded \in Nat /\ L.queued \in Nat /\ L.FRAMES \in [SeqNo -> Nat]
      /\ k \in SeqNo
  BY WindowFields, DistType
<1>2. PICK h \in 0..SeqMod, a \in Nat :
             /\ L.SDTSLOT = Plus(ws, h)
             /\ \A i \in SeqNo : L.FRAMES[i] = IF Dist(ws, i) < h
                                               THEN a + 1 + Dist(ws, i)
                                               ELSE NoMsg
             /\ L.loaded = a + h /\ L.loaded <= L.queued
             /\ Held(L) = h /\ Acked(L) = a
  BY WindowElim
<1>3. k <= h
  BY <1>2 DEF AcksHeld
<1>4. nr = Plus(ws, k)
  <2>1. k = IF nr >= ws THEN nr - ws ELSE nr - ws + SeqMod
    BY <1>1, DistArith
  <2>2. k \in 0..SeqMod
    BY <1>1, SeqModType
  <2>3. Plus(ws, k) = IF ws + k < SeqMod THEN ws + k ELSE ws + k - SeqMod
    BY <1>1, <2>2, PlusArith
  <2> QED
    BY <1>1, <2>1, <2>3, SeqModType
<1>5. ASSUME NEW i \in SeqNo
      PROVE  Dist(nr, i) = IF Dist(ws, i) >= k THEN Dist(ws, i) - k
                           ELSE Dist(ws, i) - k + SeqMod
  <2> HIDE DEF k
  <2>1. Dist(Plus(ws, k), i) = IF Dist(ws, i) >= k THEN Dist(ws, i) - k
                               ELSE Dist(ws, i) - k + SeqMod
    BY <1>1, DistOffset
  <2> QED
    BY <1>4, <2>1
<1>6. h - k \in 0..SeqMod /\ a + k \in Nat
  BY <1>1, <1>2, <1>3, SeqModType
<1>7. L.SDTSLOT = Plus(nr, h - k)
  <2> HIDE DEF k
  <2>1. L.SDTSLOT = IF ws + h < SeqMod THEN ws + h ELSE ws + h - SeqMod
    BY <1>1, <1>2, PlusArith
  <2>2. nr = IF ws + k < SeqMod THEN ws + k ELSE ws + k - SeqMod
    <3>1. k \in 0..SeqMod
      BY <1>1, SeqModType
    <3> QED
      BY <1>1, <1>4, <3>1, PlusArith
  <2>3. Plus(nr, h - k) = IF nr + (h - k) < SeqMod THEN nr + (h - k)
                          ELSE nr + (h - k) - SeqMod
    BY <1>6, PlusArith
  <2> QED
    BY <1>1, <1>6, <2>1, <2>2, <2>3, SeqModType
<1>8. ASSUME NEW i \in SeqNo
      PROVE  N.FRAMES[i] = IF Dist(nr, i) < h - k
                           THEN (a + k) + 1 + Dist(nr, i) ELSE NoMsg
  <2> HIDE DEF k
  <2>1. Dist(ws, i) \in SeqNo
    BY <1>1, DistType
  <2>2. N.FRAMES[i] = IF Dist(ws, i) < k THEN NoMsg ELSE L.FRAMES[i]
    BY DEF k
  <2>3. L.FRAMES[i] = IF Dist(ws, i) < h THEN a + 1 + Dist(ws, i) ELSE NoMsg
    BY <1>2
  <2> QED
    BY <1>1, <1>2, <1>5, <1>6, <2>1, <2>2, <2>3, SeqModType
<1>9. N.loaded = (a + k) + (h - k)
  BY <1>1, <1>2, SeqModType
<1>10. Window(N) /\ Acked(N) = a + k
  <2> HIDE DEF k
  <2> QED
    BY <1>2, <1>6, <1>7, <1>8, <1>9, WindowIntro
<1> QED
  BY <1>2, <1>10

\* ACKMSG on such an N(R) keeps the type and the window.
LEMMA ACKMSGOK ==
    ASSUME NEW L, OK(L), NEW nr \in SeqNo, Covered => AcksHeld(L, nr)
    PROVE  /\ OK(ACKMSG(L, nr)) /\ ACKMSG(L, nr).LINKNR = L.LINKNR
           /\ Covered => Acked(ACKMSG(L, nr)) = Acked(L) + Dist(L.LINKWS, nr)
<1> DEFINE acked == Dist(L.LINKWS, nr)
           F == [i \in SeqNo |-> IF Dist(L.LINKWS, i) < acked
                                 THEN NoMsg ELSE L.FRAMES[i]]
           N == [L EXCEPT
                   !.LINKWS = nr,
                   !.FRAMES = F,
                   !.IFrameRetryCounter = IF acked > 0 THEN 0 ELSE @,
                   !.L2RETRIES = IF acked > 0 /\ @ > 0 THEN 1 ELSE @]
<1>1. L \in Links /\ L.FRAMES \in [SeqNo -> Nat]
  BY DEF OK, Links
<1>2. F \in [SeqNo -> Nat]
  BY <1>1 DEF NoMsg
<1>3. N \in Links
  <2> HIDE DEF F, acked
  <2> QED
    BY <1>1, <1>2 DEF Links
<1>4. /\ N.FRAMES = F /\ N.SDTSLOT = L.SDTSLOT /\ N.loaded = L.loaded
      /\ N.LINKWS = nr /\ N.queued = L.queued
      /\ N.LINKNR = L.LINKNR
  <2> HIDE DEF F, acked
  <2> QED
    BY <1>1 DEF Links
<1>5. ACKMSG(L, nr) = AckTail(N)
  BY <1>1 DEF ACKMSG, Links
<1> HIDE DEF N
<1>6. Covered => Window(N) /\ Acked(N) = Acked(L) + Dist(L.LINKWS, nr)
  BY <1>1, <1>3, <1>4, ReleaseAcked DEF OK
<1> QED
  BY <1>3, <1>4, <1>5, <1>6, AckTailOK DEF OK

\* So does SDNRCHK.
LEMMA SDNRCHKOK ==
    ASSUME NEW L, OK(L), NEW f \in Frames,
           Covered => AcksHeld(L, f.nr)
    PROVE  OK(SDNRCHK(L, f))
  BY ACKMSGOK DEF SDNRCHK, Frames

-----------------------------------------------------------------------------
(* The receiving side leaves the window alone.                             *)

\* PROC_I_FRAME moves N(R) on and passes up data only.
LEMMA PROC_I_FRAMEOK ==
    ASSUME NEW L, OK(L), NEW ms \in Seq(Nat)
    PROVE  OK(PROC_I_FRAME(L, ms))
<1> DEFINE N == PROC_I_FRAME(L, ms)
<1>1. L \in Links /\ L.LINKNR \in SeqNo /\ L.RX_Q \in Seq(Nat)
  BY DEF OK, Links
<1>2. Plus(L.LINKNR, Len(ms)) \in SeqNo
  BY <1>1, PlusAny, LenProperties
<1>3. L.RX_Q \o ms \in Seq(Nat)
  BY <1>1, ConcatProperties
<1>4. N = IF ms = << >> \/ L.DISCPENDING
          THEN [L EXCEPT !.LINKNR = Plus(@, Len(ms))]
          ELSE [L EXCEPT !.LINKNR = Plus(@, Len(ms)),
                         !.RX_Q = @ \o ms, !.L2ACKREQ = TRUE]
  BY <1>1 DEF PROC_I_FRAME, Links
<1>5. N \in Links
  <2> HIDE DEF N
  <2> QED
    BY <1>1, <1>2, <1>3, <1>4 DEF Links
<1>6. SameWindow(L, N)
  <2> HIDE DEF N
  <2> QED
    BY <1>1, <1>4 DEF Links, SameWindow
<1> HIDE DEF N
<1> QED
  BY <1>5, <1>6, SameWindowOK DEF N

\* A run of saved frames is at most one turn long.
LEMMA SavedRunType ==
    ASSUME NEW L, NEW limit \in 0..SeqMod
    PROVE  SavedRun(L, limit) \in 0..SeqMod
<1> DEFINE S == {n \in 0..limit :
                   n = limit \/ L.RXFRAMES[Plus(L.LINKNR, n)] = NoMsg}
<1>1. S \in SUBSET (0..SeqMod) /\ limit \in S
  BY SeqModType
<1>2. Least(S) \in S
  BY <1>1, LeastIsLeast
<1> QED
  BY <1>1, <1>2 DEF SavedRun

\* Passing up saved frames keeps the type and the window.
LEMMA TakeSavedOK ==
    ASSUME NEW L, OK(L), NEW n \in 0..SeqMod
    PROVE  OK(TakeSaved(L, n))
<1> DEFINE R == [i \in SeqNo |-> IF Dist(L.LINKNR, i) < n THEN NoMsg
                                 ELSE L.RXFRAMES[i]]
           N == [L EXCEPT !.RXFRAMES = R]
           ms == [k \in 1..n |-> L.RXFRAMES[Plus(L.LINKNR, k - 1)]]
<1>1. L \in Links /\ L.LINKNR \in SeqNo /\ L.RXFRAMES \in [SeqNo -> Nat]
  BY DEF OK, Links
<1>2. R \in [SeqNo -> Nat]
  BY <1>1 DEF NoMsg
<1>3. N \in Links /\ SameWindow(L, N)
  <2> HIDE DEF R
  <2> QED
    BY <1>1, <1>2 DEF Links, SameWindow
<1>4. OK(N)
  <2> HIDE DEF N
  <2> QED
    BY <1>3, SameWindowOK
<1>5. ms \in Seq(Nat)
  <2>1. ASSUME NEW k \in 1..n
        PROVE  Plus(L.LINKNR, k - 1) \in SeqNo
    <3>1. k - 1 \in 0..SeqMod
      BY SeqModType
    <3> QED
      BY <1>1, <3>1, PlusType
  <2>2. n \in Nat
    BY SeqModType
  <2>3. \A k \in 1..n : ms[k] \in Nat
    BY <1>1, <2>1
  <2> QED
    BY <2>2, <2>3, IsASeq
<1>6. TakeSaved(L, n) = PROC_I_FRAME(N, ms)
  BY DEF TakeSaved
<1> HIDE DEF N, ms
<1> QED
  BY <1>4, <1>5, <1>6, PROC_I_FRAMEOK

\* CancelREJ changes the state only.
LEMMA CancelREJOK ==
    ASSUME NEW L, OK(L)
    PROVE  OK(CancelREJ(L))
<1> DEFINE N == [L EXCEPT !.L2STATE = 5, !.REJSENT = FALSE]
<1>1. N \in Links /\ SameWindow(L, N)
  BY DEF OK, Links, LinkStates, SameWindow
<1>2. OK(N)
  <2> HIDE DEF N
  <2> QED
    BY <1>1, SameWindowOK
<1> QED
  BY <1>2 DEF CancelREJ

\* Flags, counters and states that the window does not depend on.
LEMMA SetFlags ==
    ASSUME NEW L, OK(L), NEW b \in BOOLEAN
    PROVE  /\ OK([L EXCEPT !.RNRSENT = b])
           /\ OK([L EXCEPT !.L2ACKREQ = b])
           /\ OK([L EXCEPT !.L2TIMER = b])
           /\ OK([L EXCEPT !.RNRSET = b])
           /\ OK([L EXCEPT !.REJSENT = b])
           /\ OK([L EXCEPT !.POLLSENT = b, !.L2TIMER = TRUE])
<1>1. L \in Links
  BY DEF OK
<1>2. /\ [L EXCEPT !.RNRSENT = b] \in Links
      /\ [L EXCEPT !.L2ACKREQ = b] \in Links
      /\ [L EXCEPT !.L2TIMER = b] \in Links
      /\ [L EXCEPT !.RNRSET = b] \in Links
      /\ [L EXCEPT !.REJSENT = b] \in Links
      /\ [L EXCEPT !.POLLSENT = b, !.L2TIMER = TRUE] \in Links
  BY <1>1 DEF Links
<1>3. /\ SameWindow(L, [L EXCEPT !.RNRSENT = b])
      /\ SameWindow(L, [L EXCEPT !.L2ACKREQ = b])
      /\ SameWindow(L, [L EXCEPT !.L2TIMER = b])
      /\ SameWindow(L, [L EXCEPT !.RNRSET = b])
      /\ SameWindow(L, [L EXCEPT !.REJSENT = b])
      /\ SameWindow(L, [L EXCEPT !.POLLSENT = b, !.L2TIMER = TRUE])
  BY <1>1 DEF Links, SameWindow
<1> QED
  BY <1>2, <1>3, SameWindowOK

\* A supervisory frame has the type of a frame.
LEMMA FrameType ==
    ASSUME NEW t \in FrameTypes, NEW c \in BOOLEAN, NEW p \in BOOLEAN,
           NEW nr \in SeqNo
    PROVE  << Frame(t, c, p, nr, 0, NoMsg) >> \in Seq(Frames)
<1>1. 0 \in SeqNo
  BY SeqModType
<1>2. Frame(t, c, p, nr, 0, NoMsg) \in Frames
  BY <1>1 DEF Frames, Frame, NoMsg
<1> QED
  BY <1>2

\* RR_OR_RNR keeps the type and the window and names a frame type.
LEMMA RR_OR_RNROK ==
    ASSUME NEW L, OK(L), NEW busy \in BOOLEAN, NEW isCmd \in BOOLEAN
    PROVE  /\ OK(RR_OR_RNR(L, busy, isCmd).link)
           /\ RR_OR_RNR(L, busy, isCmd).type \in FrameTypes
<1> DEFINE n == IF L.L2STATE = 6 THEN SavedRun(L, SeqMod) ELSE 0
           F == [L EXCEPT !.RNRSENT = FALSE]
           D == IF n = 0 THEN F
                ELSE [CancelREJ(TakeSaved(F, n)) EXCEPT !.L2ACKREQ = FALSE]
<1>1. n \in 0..SeqMod
  BY SavedRunType, SeqModType
<1>2. OK(F) /\ OK([L EXCEPT !.RNRSENT = TRUE])
  BY SetFlags
<1>3. OK(D)
  <2> HIDE DEF n, F
  <2>1. OK(CancelREJ(TakeSaved(F, n)))
    BY <1>1, <1>2, TakeSavedOK, CancelREJOK
  <2> QED
    BY <1>2, <2>1, SetFlags
<1>4. CASE busy
  BY <1>2, <1>4 DEF RR_OR_RNR, FrameTypes
<1>5. CASE ~busy
  <2>1. RR_OR_RNR(L, busy, isCmd) =
           [link |-> D,
            type |-> IF D.L2STATE # 6 THEN "RR"
                     ELSE IF L.Ver2point2 /\ ~L.RNRSENT /\ ~isCmd
                          THEN "SREJ" ELSE "REJ"]
    BY <1>5 DEF RR_OR_RNR
  <2> HIDE DEF D
  <2> QED
    BY <1>3, <2>1 DEF FrameTypes
<1> QED
  BY <1>4, <1>5

\* SEND_RR_RESP keeps the type and the window.
LEMMA SEND_RR_RESPOK ==
    ASSUME NEW L, OK(L), NEW busy \in BOOLEAN, NEW pf \in BOOLEAN
    PROVE  ResultOK(SEND_RR_RESP(L, busy, pf))
<1> DEFINE r == RR_OR_RNR(L, busy, FALSE)
<1>1. OK(r.link) /\ r.type \in FrameTypes
  BY RR_OR_RNROK
<1> HIDE DEF r
<1>2. r.link.LINKNR \in SeqNo /\ OK(AckTail(r.link))
  BY <1>1, AckTailOK DEF OK, Links
<1>3. << Frame(r.type, FALSE, pf, r.link.LINKNR, 0, NoMsg) >> \in Seq(Frames)
  BY <1>1, <1>2, FrameType
<1> QED
  BY <1>2, <1>3 DEF SEND_RR_RESP, ResultOK, r

\* SendSupervisCmd keeps the type and the window.
LEMMA SendSupervisCmdOK ==
    ASSUME NEW L, OK(L), NEW busy \in BOOLEAN
    PROVE  ResultOK(SendSupervisCmd(L, busy))
<1> DEFINE r == RR_OR_RNR([L EXCEPT !.L2ACKREQ = FALSE], busy, TRUE)
<1>1. OK(r.link) /\ r.type \in FrameTypes
  BY RR_OR_RNROK, SetFlags
<1> HIDE DEF r
<1>2. r.link.LINKNR \in SeqNo
  BY <1>1 DEF OK, Links
<1>3. OK([r.link EXCEPT !.POLLSENT = TRUE, !.L2TIMER = TRUE])
  BY <1>1, SetFlags
<1>4. << Frame(r.type, TRUE, TRUE, r.link.LINKNR, 0, NoMsg) >> \in Seq(Frames)
  BY <1>1, <1>2, FrameType
<1> QED
  BY <1>3, <1>4 DEF SendSupervisCmd, ResultOK, r

\* A handler that sends nothing.
LEMMA SilentOK ==
    ASSUME NEW L, OK(L)
    PROVE  ResultOK(Silent(L))
  BY DEF Silent, ResultOK

\* The answer to a poll keeps the type and the window.
LEMMA AnswerPollOK ==
    ASSUME NEW L, OK(L), NEW busy \in BOOLEAN
    PROVE  ResultOK(AnswerPoll(L, busy))
  BY SetFlags, SEND_RR_RESPOK DEF AnswerPoll

\* Frames saved out of sequence may be dropped or added to.
LEMMA SetSaved ==
    ASSUME NEW L, OK(L), NEW R \in [SeqNo -> Nat]
    PROVE  /\ OK([L EXCEPT !.RXFRAMES = R])
           /\ OK([L EXCEPT !.L2STATE = 6, !.L2ACKREQ = TRUE, !.RXFRAMES = R])
<1>1. L \in Links
  BY DEF OK
<1>2. /\ [L EXCEPT !.RXFRAMES = R] \in Links
      /\ [L EXCEPT !.L2STATE = 6, !.L2ACKREQ = TRUE, !.RXFRAMES = R] \in Links
  BY <1>1 DEF Links, LinkStates
<1>3. /\ SameWindow(L, [L EXCEPT !.RXFRAMES = R])
      /\ SameWindow(L, [L EXCEPT !.L2STATE = 6, !.L2ACKREQ = TRUE,
                                 !.RXFRAMES = R])
  BY <1>1 DEF Links, SameWindow
<1> QED
  BY <1>2, <1>3, SameWindowOK

\* So may the state and the pending acknowledgement change.
LEMMA SetREJState ==
    ASSUME NEW L, OK(L)
    PROVE  OK([L EXCEPT !.L2STATE = 6, !.L2ACKREQ = FALSE])
<1>1. L \in Links
  BY DEF OK
<1>2. [L EXCEPT !.L2STATE = 6, !.L2ACKREQ = FALSE] \in Links
  BY <1>1 DEF Links, LinkStates
<1>3. SameWindow(L, [L EXCEPT !.L2STATE = 6, !.L2ACKREQ = FALSE])
  BY <1>1 DEF Links, SameWindow
<1> QED
  BY <1>2, <1>3, SameWindowOK

\* SDIFRM from CheckPF on keeps the type and the window.
LEMMA CheckPFOK ==
    ASSUME NEW L, OK(L), NEW f, NEW busy \in BOOLEAN
    PROVE  ResultOK(CheckPF(L, f, busy))
<1>1. [i \in SeqNo |-> NoMsg] \in [SeqNo -> Nat]
  BY DEF NoMsg
<1>2. /\ OK([L EXCEPT !.REJSENT = TRUE])
      /\ OK([L EXCEPT !.RXFRAMES = [i \in SeqNo |-> NoMsg]])
  BY <1>1, SetFlags, SetSaved
<1> QED
  BY <1>2, SilentOK, AnswerPollOK, SEND_RR_RESPOK DEF CheckPF

\* SDIFRM keeps the type and the window, for every N(S) and N(R).
LEMMA SDIFRMOK ==
    ASSUME NEW L, OK(L), NEW f \in Frames, NEW busy \in BOOLEAN,
           NEW recent \in BOOLEAN
    PROVE  ResultOK(SDIFRM(L, f, busy, recent))
<1> DEFINE R == [L EXCEPT !.L2STATE = 6, !.L2ACKREQ = FALSE]
           n == SavedRun(L, Dist(L.LINKNR, f.ns))
           D == TakeSaved(L, n)
<1>1. f.ns \in SeqNo /\ f.m \in Nat /\ L.LINKNR \in SeqNo
  BY DEF Frames, OK, Links
<1>2. OK(R)
  BY SetREJState
<1>3. OK(D)
  <2>1. Dist(L.LINKNR, f.ns) \in 0..SeqMod
    BY <1>1, DistType, SeqModType
  <2>2. n \in 0..SeqMod
    BY <2>1, SavedRunType
  <2> QED
    BY <2>2, TakeSavedOK
<1>4. CASE Plus(f.ns, 1) = L.LINKNR /\ f.pf
  <2> HIDE DEF R
  <2> QED
    BY <1>2, <1>4, SilentOK, AnswerPollOK DEF SDIFRM, R
<1>5. CASE ~(Plus(f.ns, 1) = L.LINKNR /\ f.pf)
  <2> DEFINE C == [D EXCEPT !.RXFRAMES[f.ns] = NoMsg]
             P == PROC_I_FRAME(CancelREJ(C), << f.m >>)
             E == [D EXCEPT !.L2STATE = 6, !.L2ACKREQ = TRUE,
                            !.RXFRAMES[f.ns] = f.m]
  <2> HIDE DEF D
  <2>1. D.RXFRAMES \in [SeqNo -> Nat]
    BY <1>3 DEF OK, Links
  <2>2. OK(C)
    <3>1. [D.RXFRAMES EXCEPT ![f.ns] = NoMsg] \in [SeqNo -> Nat]
      BY <2>1 DEF NoMsg
    <3> QED
      BY <1>3, <3>1, SetSaved
  <2>3. OK(E)
    <3> DEFINE S == [D.RXFRAMES EXCEPT ![f.ns] = f.m]
    <3>1. S \in [SeqNo -> Nat]
      BY <1>1, <2>1
    <3>2. E = [D EXCEPT !.L2STATE = 6, !.L2ACKREQ = TRUE, !.RXFRAMES = S]
      OBVIOUS
    <3> HIDE DEF S, E
    <3>3. OK([D EXCEPT !.L2STATE = 6, !.L2ACKREQ = TRUE, !.RXFRAMES = S])
      BY <1>3, <3>1, SetSaved
    <3> QED
      BY <3>2, <3>3
  <2>4. OK(P)
    <3> HIDE DEF C
    <3>1. << f.m >> \in Seq(Nat)
      BY <1>1
    <3> QED
      BY <2>2, <3>1, CancelREJOK, PROC_I_FRAMEOK
  <2>5. SDIFRM(L, f, busy, recent) =
           IF D.LINKNR = f.ns THEN CheckPF(P, f, busy)
           ELSE IF IsRepeat(D, f)
           THEN IF f.pf THEN AnswerPoll(D, busy) ELSE Silent(D)
           ELSE CheckPF(E, f, busy)
    BY <1>5 DEF SDIFRM, D
  <2> HIDE DEF P, E
  <2> QED
    BY <1>3, <2>3, <2>4, <2>5, CheckPFOK, AnswerPollOK, SilentOK
<1> QED
  BY <1>4, <1>5

-----------------------------------------------------------------------------
(* Supervisory frames.                                                     *)

\* After SDNRCHK has taken an N(R), the window starts at it.
LEMMA ACKMSGMoves ==
    ASSUME NEW L \in Links, NEW nr
    PROVE  ACKMSG(L, nr).LINKWS = nr
  BY DEF ACKMSG, AckTail, Links

\* Going back to N(R) moves N(S) only: what is outstanding goes again.
LEMMA GoBack ==
    ASSUME NEW L, OK(L), NEW nr \in SeqNo, NEW c \in Nat
    PROVE  OK([L EXCEPT !.LINKNS = nr, !.L2RETRIES = 0, !.L2TIMER = FALSE,
                        !.POLLSENT = FALSE, !.IFrameRetryCounter = c])
<1> DEFINE N == [L EXCEPT !.LINKNS = nr, !.L2RETRIES = 0, !.L2TIMER = FALSE,
                          !.POLLSENT = FALSE, !.IFrameRetryCounter = c]
<1>1. L \in Links
  BY DEF OK
<1>2. N \in Links /\ SameWindow(L, N)
  BY <1>1 DEF Links, SameWindow
<1> HIDE DEF N
<1>3. OK(N)
  BY <1>2, SameWindowOK
<1> QED
  BY <1>3 DEF N

\* Giving up after too many repeats keeps them.
LEMMA CloseRepeatingOK ==
    ASSUME NEW L, OK(L)
    PROVE  ResultOK(CloseRepeating(L))
<1> DEFINE N == [L EXCEPT !.IFrameRetryCounter = @ + 1, !.L2TIMER = TRUE,
                          !.L2STATE = 4]
<1>1. L \in Links
  BY DEF OK
<1>2. N \in Links
  <2>1. L.IFrameRetryCounter + 1 \in Nat /\ 4 \in LinkStates
    BY <1>1 DEF Links, LinkStates
  <2> QED
    BY <1>1, <2>1 DEF Links
<1>3. SameWindow(L, N)
  BY <1>1 DEF Links, SameWindow
<1>4. OK(N)
  BY <1>2, <1>3, SameWindowOK
<1> QED
  BY <1>4, SilentOK DEF CloseRepeating

\* A handler that sends one frame.
LEMMA OneFrameResult ==
    ASSUME NEW L, OK(L), NEW x \in Frames
    PROVE  ResultOK([link |-> L, out |-> << x >>])
<1>1. << x >> \in Seq(Frames)
  OBVIOUS
<1> QED
  BY <1>1 DEF ResultOK

\* Sending one frame again on SREJ keeps them.
LEMMA ResendOneOK ==
    ASSUME NEW L, OK(L), NEW nr \in SeqNo
    PROVE  ResultOK(ResendOne(L, nr))
<1> DEFINE C == [L EXCEPT !.IFrameRetryCounter = @ + 1, !.POLLSENT = FALSE]
           E == [C EXCEPT !.L2ACKREQ = FALSE, !.POLLSENT = TRUE,
                          !.L2TIMER = TRUE]
<1>1. L \in Links
  BY DEF OK
<1>2. C \in Links /\ E \in Links
  <2>1. L.IFrameRetryCounter + 1 \in Nat
    BY <1>1 DEF Links
  <2> QED
    BY <1>1, <2>1 DEF Links
<1>3. SameWindow(L, C) /\ SameWindow(L, E)
  BY <1>1 DEF Links, SameWindow
<1>4. OK(C) /\ OK(E)
  BY <1>2, <1>3, SameWindowOK
<1>5. IFrame(C, nr, TRUE) \in Frames
  BY <1>2, IFrameType
<1>6. ResultOK([link |-> E, out |-> << IFrame(C, nr, TRUE) >>])
  <2> HIDE DEF C, E
  <2> QED
    BY <1>4, <1>5, OneFrameResult
<1>7. ResendOne(L, nr) = IF TooManyRepeats(L) THEN CloseRepeating(L)
                         ELSE IF L.FRAMES[nr] = NoMsg THEN Silent(C)
                         ELSE [link |-> E, out |-> << IFrame(C, nr, TRUE) >>]
  BY DEF ResendOne
<1> HIDE DEF C, E
<1> QED
  BY <1>4, <1>6, <1>7, CloseRepeatingOK, SilentOK

\* Answering a supervisory command keeps them.
LEMMA AnswerCommandOK ==
    ASSUME NEW L, OK(L), NEW busy \in BOOLEAN, NEW recent \in BOOLEAN
    PROVE  ResultOK(AnswerCommand(L, busy, recent))
<1> DEFINE r == RR_OR_RNR(L, busy, FALSE)
<1>1. OK(r.link) /\ r.type \in FrameTypes
  BY RR_OR_RNROK
<1> HIDE DEF r
<1>2. r.link.LINKNR \in SeqNo
  BY <1>1 DEF OK, Links
<1>3. OK([r.link EXCEPT !.L2ACKREQ = FALSE])
  BY <1>1, SetFlags
<1>4. << Frame(r.type, FALSE, TRUE, r.link.LINKNR, 0, NoMsg) >> \in Seq(Frames)
  BY <1>1, <1>2, FrameType
<1>5. ResultOK([link |-> [r.link EXCEPT !.L2ACKREQ = FALSE],
                out  |-> << Frame(r.type, FALSE, TRUE, r.link.LINKNR, 0, NoMsg) >>])
  BY <1>3, <1>4 DEF ResultOK
<1> QED
  BY <1>5, SilentOK DEF AnswerCommand, r

\* Going back on an answered poll keeps them.
LEMMA PollAnsweredOK ==
    ASSUME NEW L, OK(L), NEW f \in Frames
    PROVE  ResultOK(PollAnswered(L, f))
<1> DEFINE c == IF L.LINKWS # L.LINKNS THEN L.IFrameRetryCounter + 1
                ELSE L.IFrameRetryCounter
           G == [L EXCEPT !.LINKNS = f.nr, !.L2RETRIES = 0, !.L2TIMER = FALSE,
                          !.POLLSENT = FALSE, !.IFrameRetryCounter = c]
           R == IF ~L.POLLSENT THEN L ELSE G
<1>1. f.nr \in SeqNo /\ c \in Nat
  <2>1. L.IFrameRetryCounter \in Nat
    BY DEF OK, Links
  <2> QED
    BY <2>1 DEF Frames
<1>2. OK(G)
  <2> HIDE DEF c
  <2> QED
    BY <1>1, GoBack
<1>3. OK(R)
  <2> HIDE DEF G
  <2> QED
    BY <1>2
<1>4. PollAnswered(L, f) =
        IF L.POLLSENT /\ L.LINKWS # L.LINKNS /\ TooManyRepeats(L)
        THEN CloseRepeating(L)
        ELSE Silent([R EXCEPT !.L2TIMER = R.L2TIMER \/ f.type = "RNR"])
  BY DEF PollAnswered, Repeats
<1> HIDE DEF R
<1>5. (R.L2TIMER \/ f.type = "RNR") \in BOOLEAN
  BY Zenon
<1>6. OK([R EXCEPT !.L2TIMER = R.L2TIMER \/ f.type = "RNR"])
  BY <1>3, <1>5, SetFlags
<1> QED
  BY <1>4, <1>6, CloseRepeatingOK, SilentOK

\* Noting RNR leaves the window where it was.
LEMMA NoteRNROK ==
    ASSUME NEW L, OK(L), NEW f
    PROVE  OK(NoteRNR(L, f))
<1>1. (f.type = "RNR") \in BOOLEAN
  BY Zenon
<1> QED
  BY <1>1, SetFlags DEF NoteRNR

\* SDNRCHK and SFRAME on such an N(R) keep the type and the window.
LEMMA SFRAMEOK ==
    ASSUME NEW L, OK(L), NEW f \in Frames, NEW busy \in BOOLEAN,
           NEW recent \in BOOLEAN, Covered => AcksHeld(L, f.nr)
    PROVE  ResultOK(SFRAME(SDNRCHK(L, f), f, busy, recent))
<1> DEFINE D == SDNRCHK(L, f)
           N == NoteRNR(D, f)
<1>1. OK(D)
  BY SDNRCHKOK
<1>2. OK(N)
  BY <1>1, NoteRNROK
<1> HIDE DEF D, N
<1>3. ResultOK(ResendOne(D, f.nr))
  BY <1>1, ResendOneOK DEF Frames
<1>4. ResultOK(AnswerCommand(N, busy, recent))
  BY <1>2, AnswerCommandOK
<1>5. ResultOK(PollAnswered(N, f))
  BY <1>2, PollAnsweredOK
<1>6. ResultOK(Silent(D)) /\ ResultOK(Silent(N))
  BY <1>1, <1>2, SilentOK
<1> QED
  BY <1>3, <1>4, <1>5, <1>6 DEF SFRAME, D, N

-----------------------------------------------------------------------------
(* A link entry that starts again.                                         *)

\* With nothing in FRAMES and the sequence numbers at 0 the window is empty.
LEMMA EmptyWindow ==
    ASSUME NEW L \in Links, L.LINKWS = 0, L.SDTSLOT = 0,
           L.FRAMES = [i \in SeqNo |-> NoMsg], L.loaded = L.queued
    PROVE  OK(L)
<1>1. 0 \in SeqNo
  BY SeqModType
<1>2. Dist(0, 0) = 0 /\ Plus(0, 0) = 0
  BY <1>1, DistArith, PlusArith, SeqModType
<1>3. \A i \in SeqNo : ~(Dist(0, i) < 0)
  BY <1>1, DistType, SeqModType
<1>4. Held(L) = 0 /\ Acked(L) = L.loaded /\ L.loaded \in Nat
  BY <1>1 DEF Held, Acked, Links
<1>5. \A i \in SeqNo : L.FRAMES[i] = NoMsg
  OBVIOUS
<1> QED
  BY <1>2, <1>3, <1>4, <1>5 DEF Window, OK

\* An unnumbered frame has the type of a frame.
LEMMA UFrameType ==
    ASSUME NEW t \in FrameTypes, NEW c \in BOOLEAN, NEW p \in BOOLEAN
    PROVE  UFrame(t, c, p) \in Frames
<1>1. 0 \in SeqNo
  BY SeqModType
<1> QED
  BY <1>1 DEF UFrame, Frame, Frames, NoMsg

\* A link entry that has just been set up is sound.
LEMMA NewLinkOK == NewLink \in Links /\ OK(NewLink)
<1>1. 0 \in SeqNo
  BY SeqModType
<1>2. [i \in SeqNo |-> NoMsg] \in [SeqNo -> Nat] /\ << >> \in Seq(Nat)
  BY DEF NoMsg
<1>3. NewLink \in Links
  BY <1>1, <1>2 DEF NewLink, Links, LinkStates
<1>4. OK(NewLink)
  BY <1>3, EmptyWindow DEF NewLink
<1> QED
  BY <1>3, <1>4

\* A reset leaves an empty window.
LEMMA SDFRMROK ==
    ASSUME NEW L, OK(L)
    PROVE  ResultOK(SDFRMR(L))
<1> DEFINE N == [NewLink EXCEPT !.L2STATE = 2, !.L2TIMER = TRUE,
                  !.Ver2point2 = L.Ver2point2, !.circuit = L.circuit,
                  !.queued = L.queued, !.loaded = L.queued, !.RX_Q = L.RX_Q,
                  !.IFrameRetryCounter = L.IFrameRetryCounter]
<1>1. /\ L.Ver2point2 \in BOOLEAN /\ L.circuit \in BOOLEAN /\ L.queued \in Nat /\ L.RX_Q \in Seq(Nat)
      /\ L.IFrameRetryCounter \in Nat /\ 2 \in LinkStates
  BY DEF OK, Links, LinkStates
<1>2. N \in Links
  BY <1>1, NewLinkOK DEF Links
<1>3. OK(N)
  <2>1. /\ N.LINKWS = 0 /\ N.SDTSLOT = 0
        /\ N.FRAMES = [i \in SeqNo |-> NoMsg] /\ N.loaded = N.queued
    BY DEF NewLink
  <2> HIDE DEF N
  <2> QED
    BY <1>2, <2>1, EmptyWindow
<1>4. UFrame("SABM", TRUE, TRUE) \in Frames
  BY UFrameType DEF FrameTypes
<1> HIDE DEF N
<1>5. ResultOK([link |-> N, out |-> << UFrame("SABM", TRUE, TRUE) >>])
  BY <1>3, <1>4, OneFrameResult
<1> QED
  BY <1>5 DEF SDFRMR, N

\* So does clearing the entry.
LEMMA CLEAROUTLINKOK ==
    ASSUME NEW L, OK(L)
    PROVE  OK(CLEAROUTLINK(L))
<1> DEFINE N == [NewLink EXCEPT !.L2STATE = 0, !.circuit = L.circuit,
                    !.queued = L.queued, !.loaded = L.queued, !.RX_Q = L.RX_Q]
<1>1. /\ L.circuit \in BOOLEAN /\ L.queued \in Nat /\ L.RX_Q \in Seq(Nat)
      /\ 0 \in LinkStates
  BY DEF OK, Links, LinkStates
<1>2. N \in Links
  BY <1>1, NewLinkOK DEF Links
<1>3. /\ N.LINKWS = 0 /\ N.SDTSLOT = 0
      /\ N.FRAMES = [i \in SeqNo |-> NoMsg] /\ N.loaded = N.queued
  BY DEF NewLink
<1> HIDE DEF N
<1>4. OK(N)
  BY <1>2, <1>3, EmptyWindow
<1> QED
  BY <1>4 DEF CLEAROUTLINK, N

\* InformPartner leaves the window alone.
LEMMA InformPartnerOK ==
    ASSUME NEW L, OK(L)
    PROVE  OK(InformPartner(L))
<1>1. L \in Links
  BY DEF OK
<1>2. InformPartner(L) \in Links /\ SameWindow(L, InformPartner(L))
  BY <1>1 DEF InformPartner, Links, SameWindow
<1> QED
  BY <1>2, SameWindowOK

\* Counting a try leaves the window alone.
LEMMA RetriedOK ==
    ASSUME NEW L, OK(L)
    PROVE  OK(Retried(L))
<1>1. L \in Links /\ L.L2RETRIES + 1 \in Nat
  BY DEF OK, Links
<1>2. Retried(L) \in Links
  BY <1>1 DEF Retried, Links
<1>3. SameWindow(L, Retried(L))
  BY <1>1 DEF Retried, Links, SameWindow
<1> QED
  BY <1>2, <1>3, SameWindowOK

-----------------------------------------------------------------------------
(* The two stations and the air.                                           *)

IInv == TypeOK /\ (Covered => WindowInv)

\* A station has exactly one other end.
LEMMA OtherType ==
    ASSUME NEW s \in Station
    PROVE  Other(s) \in Station /\ Other(s) # s
  BY StationAssumption DEF Other

\* What the air holds are frames.
LEMMA ClipType ==
    ASSUME NEW q \in Seq(Frames)
    PROVE  Clip(q) \in Seq(Frames)
<1>1. Len(q) \in Nat
  BY LenProperties
<1>2. \A n \in 0..Len(q) : SubSeq(q, 1, n) \in Seq(Frames)
  BY <1>1, SubSeqProperties
<1> QED
  BY <1>1, <1>2, AirCapAssumption DEF Clip

\* An action that stores a sound result keeps the invariant.
LEMMA SendsOK ==
    ASSUME IInv, NEW s \in Station, NEW r, ResultOK(r), Sends(s, r)
    PROVE  IInv'
<1>1. Other(s) \in Station
  BY OtherType
<1>2. air[Other(s)] \o r.out \in Seq(Frames)
  BY <1>1, ConcatProperties DEF IInv, TypeOK, ResultOK
<1>3. Clip(air[Other(s)] \o r.out) \in Seq(Frames)
  BY <1>2, ClipType
<1>4. air' \in [Station -> Seq(Frames)]
  BY <1>1, <1>3 DEF Sends, IInv, TypeOK
<1>5. r.link \in Links /\ (Covered => Window(r.link))
  BY DEF ResultOK, OK
<1>6. /\ link' \in [Station -> Links]
      /\ Covered => \A t \in Station : Window(link'[t])
  BY <1>5 DEF Sends, IInv, TypeOK, WindowInv
<1> QED
  BY <1>4, <1>6 DEF IInv, TypeOK, WindowInv

\* So does one that also takes the frame it answers off the air.
LEMMA AnswersOK ==
    ASSUME IInv, NEW s \in Station, air[s] # << >>, NEW r, ResultOK(r),
           Answers(s, r)
    PROVE  IInv'
<1>1. Other(s) \in Station /\ Other(s) # s
  BY OtherType
<1>2. air[Other(s)] \o r.out \in Seq(Frames)
  BY <1>1, ConcatProperties DEF IInv, TypeOK, ResultOK
<1>3. Clip(air[Other(s)] \o r.out) \in Seq(Frames)
  BY <1>2, ClipType
<1>4. Tail(air[s]) \in Seq(Frames)
  BY HeadTailProperties DEF IInv, TypeOK
<1>5. air' \in [Station -> Seq(Frames)]
  BY <1>1, <1>3, <1>4 DEF Answers, IInv, TypeOK
<1>6. r.link \in Links /\ (Covered => Window(r.link))
  BY DEF ResultOK, OK
<1>7. /\ link' \in [Station -> Links]
      /\ Covered => \A t \in Station : Window(link'[t])
  BY <1>6 DEF Answers, IInv, TypeOK, WindowInv
<1> QED
  BY <1>5, <1>7 DEF IInv, TypeOK, WindowInv

\* Stopping the timer on a final response leaves the window alone.
LEMMA HeardOK ==
    ASSUME IInv, NEW s \in Station
    PROVE  /\ OK(link[s]) /\ OK(Heard(s))
           /\ \A nr : AcksHeld(Heard(s), nr) <=> AcksHeld(link[s], nr)
<1>1. OK(link[s])
  BY DEF IInv, TypeOK, WindowInv, OK
<1>2. OK(Heard(s))
  BY <1>1, SetFlags DEF Heard
<1>3. SameWindow(link[s], Heard(s))
  BY <1>1 DEF Heard, OK, Links, SameWindow
<1> QED
  BY <1>1, <1>2, <1>3 DEF AcksHeld, SameWindow, Held

\* What is received is a frame.
LEMMA HeadType ==
    ASSUME IInv, NEW s \in Station, air[s] # << >>
    PROVE  Head(air[s]) \in Frames
  BY HeadTailProperties DEF IInv, TypeOK

\* What the window needs of the air: no N(R) that comes in is for more than is
\* held.  That follows from what the two ends have in common (Main below).
HeadAcks ==
    Covered => \A s \in Station :
       /\ Hears(s, {"I", "RR", "RNR", "REJ", "SREJ"}) /\ link[s].L2STATE >= 5
       => AcksHeld(link[s], Head(air[s]).nr)

-----------------------------------------------------------------------------
(* One lemma for each action that builds a new entry out of several calls. *)

\* Two links that have just come up satisfy the invariant.
LEMMA InitOK == Init => IInv
<1>1. NewLink \in Links
  BY NewLinkOK
<1>2. << >> \in Seq(Frames)
  OBVIOUS
<1>3. ASSUME NEW srej \in BOOLEAN
      PROVE  /\ [NewLink EXCEPT !.Ver2point2 = srej] \in Links
             /\ Covered => Window([NewLink EXCEPT !.Ver2point2 = srej])
  <2> DEFINE N == [NewLink EXCEPT !.Ver2point2 = srej]
  <2>1. N \in Links
    BY <1>1 DEF Links
  <2>2. /\ N.LINKWS = 0 /\ N.SDTSLOT = 0
        /\ N.FRAMES = [i \in SeqNo |-> NoMsg] /\ N.loaded = N.queued
    BY DEF NewLink
  <2> HIDE DEF N
  <2>3. OK(N)
    BY <2>1, <2>2, EmptyWindow
  <2> QED
    BY <2>1, <2>3 DEF N, OK
<1> QED
  BY <1>2, <1>3, VersionsAssumption DEF Init, IInv, TypeOK, WindowInv

\* Level 4 adding to TX_Q keeps the invariant.
LEMMA QueueMessagesOK ==
    ASSUME IInv, NEW s \in Station, QueueMessages(s)
    PROVE  IInv'
<1> DEFINE N == [link[s] EXCEPT !.queued = link[s].queued + Batch]
<1>1. link[s] \in Links /\ (Covered => Window(link[s]))
  BY DEF IInv, TypeOK, WindowInv
<1>2. link[s].queued \in Nat /\ Batch \in Nat
  BY <1>1, BatchAssumption DEF Links
<1>3. N \in Links
  <2>1. link[s].queued + Batch \in Nat
    BY <1>2
  <2> QED
    BY <1>1, <2>1 DEF Links
<1>4. /\ N.SDTSLOT = link[s].SDTSLOT /\ N.FRAMES = link[s].FRAMES
      /\ N.LINKWS = link[s].LINKWS
      /\ N.loaded = link[s].loaded /\ N.queued = link[s].queued + Batch
  BY <1>1 DEF Links
<1> HIDE DEF N
<1>5. Held(N) = Held(link[s]) /\ Acked(N) = Acked(link[s])
  BY <1>4 DEF Held, Acked
<1>6. link[s].loaded \in Nat
  BY <1>1 DEF Links
<1>7. Covered => Window(N)
  BY <1>1, <1>2, <1>4, <1>5, <1>6 DEF Window
<1>8. link' = [link EXCEPT ![s] = N] /\ air' = air
  BY DEF QueueMessages, N
<1> QED
  BY <1>3, <1>7, <1>8 DEF IInv, TypeOK, WindowInv

\* CLOSECURRENTSESSION keeps the invariant.
LEMMA CloseSessionOK ==
    ASSUME IInv, NEW s \in Station, CloseSession(s)
    PROVE  IInv'
<1> DEFINE P == [link[s] EXCEPT !.circuit = FALSE, !.DISCPENDING = TRUE]
           D == [link[s] EXCEPT !.circuit = FALSE, !.L2STATE = 4,
                                !.L2TIMER = TRUE]
<1>1. link[s] \in Links /\ OK(link[s])
  BY DEF IInv, TypeOK, WindowInv, OK
<1>2. P \in Links /\ D \in Links
  BY <1>1 DEF Links, LinkStates
<1>3. SameWindow(link[s], P) /\ SameWindow(link[s], D)
  BY <1>1 DEF Links, SameWindow
<1>4. OK(P) /\ OK(D)
  BY <1>1, <1>2, <1>3, SameWindowOK
<1>5. /\ link' = [link EXCEPT ![s] = P] \/ link' = [link EXCEPT ![s] = D]
      /\ air' = air
  BY DEF CloseSession
<1> HIDE DEF P, D
<1> QED
  BY <1>4, <1>5 DEF OK, IInv, TypeOK, WindowInv

\* The main loop's send pass keeps the invariant.
LEMMA SendPassOK ==
    ASSUME IInv, NEW s \in Station, SendPass(s)
    PROVE  IInv'
<1>1. OK(link[s])
  BY HeardOK
<1>2. ResultOK(SDETX(link[s]))
  BY <1>1, SDETXOK
<1> QED
  BY <1>2, SendsOK DEF SendPass

\* An I frame, with a good N(R) or a bad one, keeps the invariant.
LEMMA RecvIFrameOK ==
    ASSUME IInv, HeadAcks, NEW s \in Station, RecvIFrame(s)
    PROVE  IInv'
<1> DEFINE f == Head(air[s])
<1>1. air[s] # << >>
  BY DEF RecvIFrame, Hears
<1>2. f \in Frames
  BY <1>1, HeadType
<1>3. PICK busy \in BOOLEAN, recent \in BOOLEAN :
        Answers(s, IF GoodNR(link[s], f.nr)
                   THEN SDIFRM(SDNRCHK(Heard(s), f), f, busy, recent)
                   ELSE SDFRMR(link[s]))
  BY Zenon DEF RecvIFrame, BusyChoice
<1>4. Covered => AcksHeld(Heard(s), f.nr)
  <2>1. Covered => AcksHeld(link[s], f.nr)
    BY DEF HeadAcks, RecvIFrame, Hears
  <2> HIDE DEF f
  <2> QED
    BY <2>1, HeardOK
<1> HIDE DEF f
<1>5. ResultOK(SDIFRM(SDNRCHK(Heard(s), f), f, busy, recent))
  <2>1. OK(SDNRCHK(Heard(s), f))
    BY <1>2, <1>4, HeardOK, SDNRCHKOK
  <2> QED
    BY <1>2, <2>1, SDIFRMOK
<1>6. ResultOK(SDFRMR(link[s]))
  BY HeardOK, SDFRMROK
<1> QED
  BY <1>1, <1>3, <1>5, <1>6, AnswersOK

\* So does a supervisory frame.
LEMMA RecvSFrameOK ==
    ASSUME IInv, HeadAcks, NEW s \in Station, RecvSFrame(s)
    PROVE  IInv'
<1> DEFINE f == Head(air[s])
<1>1. air[s] # << >>
  BY DEF RecvSFrame, Hears
<1>2. f \in Frames
  BY <1>1, HeadType
<1>3. PICK busy \in BOOLEAN, recent \in BOOLEAN :
        Answers(s, IF GoodNR(link[s], f.nr)
                   THEN SFRAME(SDNRCHK(Heard(s), f), f, busy, recent)
                   ELSE SDFRMR(link[s]))
  BY Zenon DEF RecvSFrame, BusyChoice
<1>4. Covered => AcksHeld(Heard(s), f.nr)
  <2>1. Covered => AcksHeld(link[s], f.nr)
    BY DEF HeadAcks, RecvSFrame, Hears
  <2> HIDE DEF f
  <2> QED
    BY <2>1, HeardOK
<1> HIDE DEF f
<1>5. ResultOK(SFRAME(SDNRCHK(Heard(s), f), f, busy, recent))
  BY <1>2, <1>4, HeardOK, SFRAMEOK
<1>6. ResultOK(SDFRMR(link[s]))
  BY HeardOK, SDFRMROK
<1> QED
  BY <1>1, <1>3, <1>5, <1>6, AnswersOK

\* The frames that end the link, and those that find no link to act on.
LEMMA RecvOtherOK ==
    ASSUME IInv, NEW s \in Station,
           RecvDISC(s) \/ RecvUA(s) \/ RecvDM(s) \/ RecvWhileClosing(s)
           \/ RecvNoLink(s)
    PROVE  IInv'
<1> DEFINE C == CLEAROUTLINK(InformPartner(link[s]))
<1>1. air[s] # << >>
  BY DEF RecvDISC, RecvUA, RecvDM, RecvWhileClosing, RecvNoLink, Hears
<1>2. OK(link[s]) /\ OK(Heard(s)) /\ OK(C)
  BY HeardOK, InformPartnerOK, CLEAROUTLINKOK
<1>3. ResultOK(Silent(Heard(s))) /\ ResultOK(Silent(C))
  BY <1>2, SilentOK
<1>4. UFrame("UA", FALSE, TRUE) \in Frames /\ UFrame("DM", FALSE, TRUE) \in Frames
  BY UFrameType DEF FrameTypes
<1>5. /\ ResultOK([link |-> C, out |-> << UFrame("UA", FALSE, TRUE) >>])
      /\ ResultOK([link |-> link[s], out |-> << UFrame("DM", FALSE, TRUE) >>])
  BY <1>2, <1>4, OneFrameResult
<1>6. ResultOK([link |-> link[s], out |-> << >>])
  BY <1>2 DEF ResultOK
<1> HIDE DEF C
<1>7. CASE RecvDISC(s)
  BY <1>1, <1>5, <1>7, AnswersOK DEF RecvDISC, C
<1>8. CASE RecvUA(s)
  BY <1>1, <1>3, <1>8, AnswersOK DEF RecvUA, C
<1>9. CASE RecvDM(s)
  BY <1>1, <1>3, <1>9, AnswersOK DEF RecvDM, C
<1>10. CASE RecvWhileClosing(s)
  BY <1>1, <1>3, <1>10, AnswersOK DEF RecvWhileClosing
<1>11. CASE RecvNoLink(s)
  BY <1>1, <1>5, <1>6, <1>11, AnswersOK DEF RecvNoLink
<1> QED
  BY <1>7, <1>8, <1>9, <1>10, <1>11

\* So does losing a frame.
LEMMA LoseFrameOK ==
    ASSUME IInv, NEW s \in Station, LoseFrame(s)
    PROVE  IInv'
<1>1. Tail(air[s]) \in Seq(Frames)
  BY HeadTailProperties DEF LoseFrame, IInv, TypeOK
<1> QED
  BY <1>1 DEF LoseFrame, IInv, TypeOK, WindowInv

\* So does the retry timer, up to and past N2.
LEMMA L2TIMEOUTOK ==
    ASSUME IInv, NEW s \in Station, L2TIMEOUT(s)
    PROVE  IInv'
<1> DEFINE G == [InformPartner(link[s]) EXCEPT !.L2STATE = 4]
           T == [Retried(link[s]) EXCEPT !.L2TIMER = TRUE]
           q == UFrame("DISC", TRUE, TRUE)
<1>1. OK(link[s])
  BY HeardOK
<1>2. OK(Retried(link[s])) /\ OK(InformPartner(link[s]))
  BY <1>1, RetriedOK, InformPartnerOK
<1>3. q \in Frames
  BY UFrameType DEF FrameTypes
<1>4. OK(G)
  <2>1. G \in Links /\ SameWindow(InformPartner(link[s]), G)
    BY <1>2 DEF OK, Links, LinkStates, SameWindow
  <2> QED
    BY <1>2, <2>1, SameWindowOK
<1>5. OK(T)
  BY <1>2, SetFlags
<1> HIDE DEF G, T, q
<1>6. CASE RetryPoll(s)
  <2>1. PICK busy \in BOOLEAN :
          Sends(s, SendSupervisCmd(Retried(link[s]), busy))
    BY <1>6, Zenon DEF RetryPoll, BusyChoice
  <2> QED
    BY <1>2, <2>1, SendSupervisCmdOK, SendsOK
<1>7. CASE RetriedOut(s)
  <2>1. Sends(s, [link |-> G, out |-> << q >>])
    BY <1>7 DEF RetriedOut, G, q
  <2> QED
    BY <1>3, <1>4, <2>1, OneFrameResult, SendsOK
<1>8. CASE RetryDISC(s)
  <2>1. \/ Sends(s, Silent(CLEAROUTLINK(link[s])))
        \/ Sends(s, [link |-> T, out |-> << q >>])
    BY <1>8 DEF RetryDISC, T, q
  <2>2. ResultOK(Silent(CLEAROUTLINK(link[s])))
    BY <1>1, CLEAROUTLINKOK, SilentOK
  <2> QED
    BY <1>3, <1>5, <2>1, <2>2, OneFrameResult, SendsOK
<1> QED
  BY <1>6, <1>7, <1>8 DEF L2TIMEOUT

\* The delayed acknowledgement, the validation poll and the end of busy.
LEMMA OtherTimersOK ==
    ASSUME IInv, NEW s \in Station, SendAck(s) \/ ValidateLink(s) \/ BusyOver(s)
    PROVE  IInv'
<1> DEFINE A == [link[s] EXCEPT !.L2ACKREQ = FALSE]
           B == [RR_OR_RNR(link[s], FALSE, FALSE).link EXCEPT !.L2ACKREQ = FALSE]
<1>1. OK(link[s])
  BY HeardOK
<1>2. OK(A)
  BY <1>1, SetFlags
<1>3. OK(B)
  BY <1>1, RR_OR_RNROK, SetFlags
<1> HIDE DEF A, B
<1>4. CASE SendAck(s)
  <2>1. PICK busy \in BOOLEAN : Sends(s, SEND_RR_RESP(A, busy, FALSE))
    BY <1>4, Zenon DEF SendAck, BusyChoice, A
  <2> QED
    BY <1>2, <2>1, SEND_RR_RESPOK, SendsOK
<1>5. CASE ValidateLink(s)
  <2>1. PICK busy \in BOOLEAN : Sends(s, SendSupervisCmd(link[s], busy))
    BY <1>5, Zenon DEF ValidateLink, BusyChoice
  <2> QED
    BY <1>1, <2>1, SendSupervisCmdOK, SendsOK
<1>6. CASE BusyOver(s)
  <2>1. \/ \E busy \in BOOLEAN : Sends(s, SendSupervisCmd(B, busy))
        \/ Sends(s, Silent(B))
    BY <1>6, Zenon DEF BusyOver, BusyChoice, B
  <2> QED
    BY <1>3, <2>1, SendSupervisCmdOK, SilentOK, SendsOK
<1> QED
  BY <1>4, <1>5, <1>6

\* Every step keeps the types and, when no N(R) is for more than is held, the
\* window: FRAMES stays in step with LINKWS and SDTSLOT.
LEMMA NextOK == IInv /\ HeadAcks /\ Next => IInv'
<1> SUFFICES ASSUME IInv, HeadAcks, Next
             PROVE  IInv'
  OBVIOUS
<1>1. ASSUME NEW s \in Station, QueueMessages(s)
      PROVE  IInv'
  BY <1>1, QueueMessagesOK
<1>2. ASSUME NEW s \in Station, CloseSession(s)
      PROVE  IInv'
  BY <1>2, CloseSessionOK
<1>3. ASSUME NEW s \in Station, SendPass(s)
      PROVE  IInv'
  BY <1>3, SendPassOK
<1>4. ASSUME NEW s \in Station, Receive(s)
      PROVE  IInv'
  BY <1>4, RecvIFrameOK, RecvSFrameOK, RecvOtherOK DEF Receive
<1>5. ASSUME NEW s \in Station, LoseFrame(s)
      PROVE  IInv'
  BY <1>5, LoseFrameOK
<1>6. ASSUME NEW s \in Station, Timer(s)
      PROVE  IInv'
  BY <1>6, L2TIMEOUTOK, OtherTimersOK DEF Timer
<1> QED
  BY <1>1, <1>2, <1>3, <1>4, <1>5, <1>6 DEF Next

-----------------------------------------------------------------------------
(***************************************************************************)
(* Two link entries and the air between them implement Stream: what one    *)
(* end is handed is what the other end queued, in order, once each.        *)
(*                                                                         *)
(* The argument counts messages where the code counts modulo SeqMod.  Fit  *)
(* is one entry by itself: LINKNR is the number passed up, LINKWS the      *)
(* number acknowledged, and a saved frame is in the slot it will be due    *)
(* in.  Moves and Goes say what a handler may make of an entry and what it *)
(* may send; one lemma for each routine.  Coming and Acks say what may be  *)
(* in the air: an I frame is within a window of what the other end has     *)
(* taken and of any frame behind it, and no N(R) is for more than was      *)
(* passed up.  Way is the two for one direction, Pair for both, and Main   *)
(* is the invariant.  Each action then has a lemma that it keeps Main and  *)
(* is a step of Stream.                                                    *)
(*                                                                         *)
(* Covered is needed.  With MAXFRAME above the frames a receiver saves,    *)
(* the number of an old frame could be taken for that of a later one; an   *)
(* end with a close pending acknowledges frames it drops                   *)
(* (PROC_I_FRAME), which no stream does.  SDNRCHK is no help: it compares  *)
(* N(R) with N(S), which GoBack may leave outside the window, so that only *)
(* the counts show that what it lets pass is not more than is held.        *)
(***************************************************************************)
\* Two counts less than a turn apart have the distance of their numbers.
LEMMA DistMod ==
    ASSUME NEW a \in Nat, NEW b \in Nat
    PROVE  /\ a % SeqMod \in SeqNo /\ b % SeqMod \in SeqNo
           /\ 0 <= b - a /\ b - a < SeqMod
              => Dist(a % SeqMod, b % SeqMod) = b - a
           /\ b - a < 0 /\ -SeqMod <= b - a
              => Dist(a % SeqMod, b % SeqMod) = b - a + SeqMod
<1>1. CASE SeqMod = 4
  <2>1. a % 4 \in 0..3 /\ b % 4 \in 0..3
    OBVIOUS
  <2>2. 0 <= b - a /\ b - a < 4 => ((b % 4) - (a % 4)) % 4 = b - a
    OBVIOUS
  <2>3. b - a < 0 /\ -4 <= b - a => ((b % 4) - (a % 4)) % 4 = b - a + 4
    OBVIOUS
  <2> QED
    BY <1>1, <2>1, <2>2, <2>3 DEF SeqNo, Dist
<1>2. CASE SeqMod = 8
  <2>1. a % 8 \in 0..7 /\ b % 8 \in 0..7
    OBVIOUS
  <2>2. 0 <= b - a /\ b - a < 8 => ((b % 8) - (a % 8)) % 8 = b - a
    OBVIOUS
  <2>3. b - a < 0 /\ -8 <= b - a => ((b % 8) - (a % 8)) % 8 = b - a + 8
    OBVIOUS
  <2> QED
    BY <1>2, <2>1, <2>2, <2>3 DEF SeqNo, Dist
<1> QED
  BY <1>1, <1>2, SeqModAssumption

\* A sequence number moved on by n is that of the count moved on by n.
LEMMA PlusMod ==
    ASSUME NEW a \in Nat, NEW n \in Nat
    PROVE  Plus(a % SeqMod, n) = (a + n) % SeqMod
<1>1. CASE SeqMod = 4
  BY <1>1 DEF Plus
<1>2. CASE SeqMod = 8
  BY <1>2 DEF Plus
<1> QED
  BY <1>1, <1>2, SeqModAssumption

\* The distance from j to k is what is left of that from i when j is on the
\* way.
LEMMA DistShift ==
    ASSUME NEW i \in SeqNo, NEW j \in SeqNo, NEW k \in SeqNo,
           Dist(i, j) <= Dist(i, k)
    PROVE  Dist(j, k) = Dist(i, k) - Dist(i, j)
<1>1. /\ Dist(i, j) = IF j >= i THEN j - i ELSE j - i + SeqMod
      /\ Dist(i, k) = IF k >= i THEN k - i ELSE k - i + SeqMod
      /\ Dist(j, k) = IF k >= j THEN k - j ELSE k - j + SeqMod
  BY DistArith
<1> QED
  BY <1>1, SeqModType

\* The sizes that the window argument rests on.
LEMMA Sizes ==
    /\ LINKWINDOW \in Nat /\ LINKWINDOW >= 1
    /\ RcvWindow \in Nat /\ SeqMod = RcvWindow + RcvWindow
  BY SeqModAssumption, RcvWindowAssumption, LinkWindowAssumption

-----------------------------------------------------------------------------
(* The receiving side of one entry.                                        *)

Taken(L)  == Len(L.RX_Q)                  \* messages passed up
IsData(f) == f.type = "I"
IsAck(f)  == f.type \in {"I", "RR", "RNR", "REJ", "SREJ"}   \* carries N(R)

\* What was passed up is 1, 2, 3, ...; N(R) counts it, and what is saved is
\* what will be due, no further on than the receive window.
Receives(L) ==
    /\ \A k \in 1..Taken(L) : L.RX_Q[k] = k
    /\ L.LINKNR = Taken(L) % SeqMod
    /\ \A i \in SeqNo : L.RXFRAMES[i] # NoMsg =>
          /\ L.RXFRAMES[i] = Taken(L) + 1 + Dist(L.LINKNR, i)
          /\ Dist(L.LINKNR, i) < RcvWindow

\* Neither passed up nor saved is a message after b.
Below(L, b) == Taken(L) <= b /\ \A i \in SeqNo : L.RXFRAMES[i] <= b

\* An entry that is up, or on its way down.
Fit(L) == /\ Covered /\ OK(L) /\ L.L2STATE >= 4
          /\ Receives(L)
          /\ L.LINKWS = Acked(L) % SeqMod
          /\ L.DISCPENDING => Taken(L) = 0 /\ NoneSaved(L)

\* N is what a handler with message m in hand makes of L on the receiving
\* side: the sending side is where it was, nothing is taken back, and nothing
\* is passed up or saved but m and what was saved already.
Moves(L, N, m) ==
    /\ Fit(L) /\ Fit(N)
    /\ N.queued = L.queued /\ L.loaded <= N.loaded
    /\ N.LINKWS = L.LINKWS /\ Acked(N) = Acked(L)
    /\ Taken(L) <= Taken(N)
    /\ \A b \in Nat : Below(L, b) /\ m <= b => Below(N, b)
    /\ L.L2STATE = 4 => N.L2STATE = 4 /\ N.RX_Q = L.RX_Q
    /\ N.DISCPENDING => L.DISCPENDING

\* The types of what the lemmas below read of an entry.
LEMMA FitTypes ==
    ASSUME NEW L, Fit(L)
    PROVE  /\ OK(L) /\ L \in Links /\ Taken(L) \in Nat /\ L.LINKNR \in SeqNo
           /\ L.LINKWS \in SeqNo /\ L.RXFRAMES \in [SeqNo -> Nat]
           /\ L.RX_Q \in Seq(Nat) /\ L.queued \in Nat /\ L.L2STATE \in {4, 5, 6}
           /\ Acked(L) \in Nat
           /\ Covered /\ Window(L)
           /\ L.loaded \in Nat /\ L.loaded <= L.queued
<1>1. /\ Covered /\ OK(L) /\ L \in Links /\ Window(L) /\ L.L2STATE >= 4
      /\ L.loaded <= L.queued
  BY DEF Fit, OK, Window
<1>2. Acked(L) \in Nat
  BY <1>1, WindowElim
<1>3. /\ L.LINKNR \in SeqNo /\ L.LINKWS \in SeqNo
      /\ L.RXFRAMES \in [SeqNo -> Nat]
      /\ L.RX_Q \in Seq(Nat) /\ L.queued \in Nat /\ L.L2STATE \in LinkStates
      /\ L.loaded \in Nat
  BY <1>1 DEF Links
<1>4. Taken(L) \in Nat
  BY <1>3, LenProperties DEF Taken
<1>5. L.L2STATE \in {4, 5, 6}
  BY <1>1, <1>3 DEF LinkStates
<1> QED
  BY <1>1, <1>2, <1>3, <1>4, <1>5

\* An entry left alone has moved nowhere.
LEMMA MovesSelf ==
    ASSUME NEW L, Fit(L)
    PROVE  Moves(L, L, 0)
<1>1. Taken(L) \in Nat /\ L.loaded \in Nat
  BY FitTypes
<1> QED
  BY <1>1 DEF Moves

\* Two moves with the same message in hand are one.
LEMMA MovesTrans ==
    ASSUME NEW L, NEW N, NEW K, NEW m, Moves(L, N, m), Moves(N, K, m)
    PROVE  Moves(L, K, m)
<1>1. Taken(L) <= Taken(K) /\ L.loaded <= K.loaded
  <2>1. /\ Taken(L) \in Nat /\ Taken(N) \in Nat /\ Taken(K) \in Nat
        /\ L.loaded \in Nat /\ N.loaded \in Nat /\ K.loaded \in Nat
    BY FitTypes DEF Moves
  <2>2. /\ Taken(L) <= Taken(N) /\ Taken(N) <= Taken(K)
        /\ L.loaded <= N.loaded /\ N.loaded <= K.loaded
    BY DEF Moves
  <2> QED
    BY <2>1, <2>2
<1> QED
  BY <1>1 DEF Moves

\* A move that used no message is also one with message m in hand.
LEMMA MovesMore ==
    ASSUME NEW L, NEW N, NEW m \in Nat, Moves(L, N, 0)
    PROVE  Moves(L, N, m)
  BY DEF Moves

\* A routine that leaves the receiving side alone and keeps the window's lower
\* edge moves nothing.
LEMMA MovesIntro ==
    ASSUME NEW L, Fit(L), NEW N, OK(N),
           SameWindow(L, N) \/ (Acked(N) = Acked(L) /\ L.loaded <= N.loaded),
           N.LINKWS = L.LINKWS, N.queued = L.queued,
           N.RX_Q = L.RX_Q, N.RXFRAMES = L.RXFRAMES, N.LINKNR = L.LINKNR,
           N.L2STATE >= 4, L.L2STATE = 4 => N.L2STATE = 4,
           N.DISCPENDING => L.DISCPENDING
    PROVE  Moves(L, N, 0)
<1>1. Acked(N) = Acked(L) /\ L.loaded <= N.loaded
  <2>1. L.loaded \in Nat
    BY FitTypes
  <2> QED
    BY <2>1 DEF SameWindow, Acked, Held
<1>2. Taken(N) = Taken(L) /\ Taken(L) \in Nat
  BY FitTypes DEF Taken
<1>3. Receives(N)
  BY <1>2 DEF Fit, Receives
<1>4. NoneSaved(L) => NoneSaved(N)
  BY DEF NoneSaved
<1>5. Fit(N)
  BY <1>1, <1>2, <1>3, <1>4 DEF Fit
<1>6. \A b \in Nat : Below(L, b) => Below(N, b)
  BY <1>2 DEF Below
<1> QED
  BY <1>1, <1>2, <1>5, <1>6 DEF Moves

\* N passes up n messages more than L, and saves nothing new.
LEMMA Grow ==
    ASSUME NEW L, Fit(L), NEW N, OK(N), SameWindow(L, N), NEW m \in Nat,
           NEW n \in SeqNo, N.LINKNR = Plus(L.LINKNR, n),
           Taken(N) = Taken(L) + n,
           \A k \in 1..Taken(N) : N.RX_Q[k] = k,
           \A i \in SeqNo : N.RXFRAMES[i] # NoMsg
              => N.RXFRAMES[i] = L.RXFRAMES[i] /\ Dist(L.LINKNR, i) >= n,
           n > 0 => L.L2STATE >= 5 /\ ~L.DISCPENDING,
           N.L2STATE >= 4, L.L2STATE = 4 => N.L2STATE = 4 /\ N.RX_Q = L.RX_Q,
           N.DISCPENDING => L.DISCPENDING,
           \A b \in Nat : Below(L, b) /\ m <= b => Taken(N) <= b
    PROVE  Moves(L, N, m)
<1>1. /\ L \in Links /\ Taken(L) \in Nat /\ L.LINKNR \in SeqNo
      /\ L.RXFRAMES \in [SeqNo -> Nat] /\ n \in Nat
      /\ L.L2STATE \in {4, 5, 6}
  BY FitTypes, SeqModType
<1>2. N.LINKNR = Taken(N) % SeqMod
  BY <1>1, PlusMod DEF Fit, Receives
<1>3. ASSUME NEW i \in SeqNo, N.RXFRAMES[i] # NoMsg
      PROVE  /\ N.RXFRAMES[i] = Taken(N) + 1 + Dist(N.LINKNR, i)
             /\ Dist(N.LINKNR, i) < RcvWindow
  <2>1. /\ N.RXFRAMES[i] = L.RXFRAMES[i] /\ Dist(L.LINKNR, i) >= n
        /\ L.RXFRAMES[i] # NoMsg
    BY <1>3
  <2>2. /\ L.RXFRAMES[i] = Taken(L) + 1 + Dist(L.LINKNR, i)
        /\ Dist(L.LINKNR, i) < RcvWindow
    BY <2>1 DEF Fit, Receives
  <2>3. Dist(N.LINKNR, i) = Dist(L.LINKNR, i) - n /\ Dist(L.LINKNR, i) \in Nat
    BY <1>1, <2>1, DistOffset, DistType, SeqModType
  <2> QED
    BY <1>1, <2>1, <2>2, <2>3, Sizes
<1>4. Receives(N)
  BY <1>2, <1>3 DEF Receives
<1>5. /\ Acked(N) = Acked(L) /\ N.LINKWS = L.LINKWS /\ N.queued = L.queued
      /\ L.loaded <= N.loaded
  <2>1. L.loaded \in Nat
    BY FitTypes
  <2> QED
    BY <2>1 DEF SameWindow, Acked, Held
<1>6. N.DISCPENDING => Taken(N) = 0 /\ NoneSaved(N)
  BY <1>1 DEF Fit, NoneSaved
<1>7. Fit(N)
  BY <1>4, <1>5, <1>6 DEF Fit
<1>8. ASSUME NEW b \in Nat, Below(L, b), m <= b
      PROVE  Below(N, b)
  <2>1. \A i \in SeqNo : L.RXFRAMES[i] <= b
    BY <1>8 DEF Below
  <2>2. \A i \in SeqNo : N.RXFRAMES[i] <= b
    BY <2>1, <1>1 DEF NoMsg
  <2> QED
    BY <1>8, <2>2 DEF Below
<1> QED
  BY <1>1, <1>5, <1>7, <1>8 DEF Moves

\* A slot that is saved is within the receive window.
LEMMA SavedSlot ==
    ASSUME NEW L, Fit(L), NEW k \in SeqNo, L.RXFRAMES[Plus(L.LINKNR, k)] # NoMsg
    PROVE  /\ L.RXFRAMES[Plus(L.LINKNR, k)] = Taken(L) + 1 + k
           /\ k < RcvWindow /\ ~L.DISCPENDING
<1>1. L.LINKNR \in SeqNo /\ k \in 0..SeqMod /\ k < SeqMod
  BY FitTypes, SeqModType
<1>2. Plus(L.LINKNR, k) \in SeqNo
  BY <1>1, PlusType
<1>3. Dist(L.LINKNR, L.LINKNR) = 0
  BY <1>1, DistArith, SeqModType
<1>4. Dist(L.LINKNR, Plus(L.LINKNR, k)) = k
  <2>1. Dist(L.LINKNR, L.LINKNR) + k < SeqMod /\ k \in Nat
    BY <1>1, <1>3, SeqModType
  <2>2. Dist(L.LINKNR, Plus(L.LINKNR, k)) = Dist(L.LINKNR, L.LINKNR) + k
    BY <1>1, <2>1, DistPlus
  <2> QED
    BY <1>3, <2>1, <2>2
<1> QED
  BY <1>2, <1>4 DEF Fit, Receives, NoneSaved

\* SavedRun counts saved frames that follow on.
LEMMA SavedRunIs ==
    ASSUME NEW L, NEW limit \in 0..SeqMod
    PROVE  /\ SavedRun(L, limit) \in 0..limit
           /\ \A k \in 0..(SavedRun(L, limit) - 1) :
                 L.RXFRAMES[Plus(L.LINKNR, k)] # NoMsg
<1> DEFINE S == {n \in 0..limit :
                   n = limit \/ L.RXFRAMES[Plus(L.LINKNR, n)] = NoMsg}
           n == Least(S)
<1>1. S \in SUBSET (0..SeqMod) /\ limit \in S
  BY SeqModType
<1>2. n \in S /\ \A k \in S : n <= k
  BY <1>1, LeastIsLeast
<1>3. SavedRun(L, limit) = n
  BY DEF SavedRun
<1> HIDE DEF n
<1>4. n \in 0..limit
  BY <1>2
<1>5. ASSUME NEW k \in 0..(n - 1)
      PROVE  L.RXFRAMES[Plus(L.LINKNR, k)] # NoMsg
  <2>1. k \in 0..limit /\ ~(n <= k)
    BY <1>4, SeqModType
  <2>2. k \notin S
    <3> HIDE DEF S
    <3> QED
      BY <1>2, <2>1
  <2> QED
    BY <2>1, <2>2
<1> QED
  BY <1>3, <1>4, <1>5

\* The fields of an entry after PROC_I_FRAME.
LEMMA ProcFields ==
    ASSUME NEW L \in Links, NEW ms \in Seq(Nat), NEW N, N = PROC_I_FRAME(L, ms)
    PROVE  /\ N.LINKNR = Plus(L.LINKNR, Len(ms))
           /\ N.RXFRAMES = L.RXFRAMES /\ N.L2STATE = L.L2STATE
           /\ N.DISCPENDING => L.DISCPENDING
           /\ SameWindow(L, N)
           /\ ms = << >> \/ L.DISCPENDING => N.RX_Q = L.RX_Q
           /\ ~(ms = << >> \/ L.DISCPENDING) => N.RX_Q = L.RX_Q \o ms
<1>1. CASE ms = << >> \/ L.DISCPENDING
  <2>1. N = [L EXCEPT !.LINKNR = Plus(@, Len(ms))]
    BY <1>1 DEF PROC_I_FRAME
  <2> QED
    BY <1>1, <2>1 DEF Links, SameWindow
<1>2. CASE ~(ms = << >> \/ L.DISCPENDING)
  <2>1. N = [L EXCEPT !.LINKNR = Plus(L.LINKNR, Len(ms)),
                      !.RX_Q = L.RX_Q \o ms, !.L2ACKREQ = TRUE]
    BY <1>2 DEF PROC_I_FRAME, Links
  <2> QED
    BY <1>2, <2>1 DEF Links, SameWindow
<1> QED
  BY <1>1, <1>2

\* Intervals from 1 are equal when they end alike.
LEMMA SameInterval ==
    ASSUME NEW a \in Nat, NEW b \in Nat, 1..a = 1..b
    PROVE  a = b
<1>1. SUFFICES ASSUME a # b
               PROVE  FALSE
  OBVIOUS
<1>2. CASE a < b
  <2>1. b \in 1..b /\ b \notin 1..a
    BY <1>2
  <2> QED
    BY <2>1
<1>3. CASE b < a
  <2>1. a \in 1..a /\ a \notin 1..b
    BY <1>3
  <2> QED
    BY <2>1
<1> QED
  BY <1>1, <1>2, <1>3

\* TakeSaved passes up what is saved, in order.
LEMMA TakeSavedMoves ==
    ASSUME NEW L, Fit(L), NEW n \in 0..SeqMod, n > 0 => L.L2STATE >= 5,
           \A k \in 0..(n - 1) : L.RXFRAMES[Plus(L.LINKNR, k)] # NoMsg,
           NEW D, D = TakeSaved(L, n)
    PROVE  /\ Moves(L, D, 0) /\ D.L2STATE = L.L2STATE
           /\ D.LINKNR = Plus(L.LINKNR, n) /\ Taken(D) = Taken(L) + n
           /\ n <= RcvWindow
<1> DEFINE R == [i \in SeqNo |-> IF Dist(L.LINKNR, i) < n THEN NoMsg
                                 ELSE L.RXFRAMES[i]]
           C == [L EXCEPT !.RXFRAMES = R]
           ms == [k \in 1..n |-> L.RXFRAMES[Plus(L.LINKNR, k - 1)]]
<1>1. /\ OK(L) /\ L \in Links /\ L.LINKNR \in SeqNo
      /\ L.RXFRAMES \in [SeqNo -> Nat] /\ L.RX_Q \in Seq(Nat)
      /\ Taken(L) \in Nat /\ n \in Nat /\ n <= SeqMod /\ SeqMod \in Nat
  BY FitTypes, SeqModType
<1>2. ASSUME NEW k \in 1..n
      PROVE  /\ ms[k] = Taken(L) + k /\ k - 1 < RcvWindow /\ ~L.DISCPENDING
             /\ ms[k] \in Nat
  <2>1. k - 1 \in 0..(n - 1) /\ k - 1 < SeqMod /\ k - 1 \in Nat /\ k \in Nat
    BY <1>1
  <2>2. k - 1 \in SeqNo
    BY <2>1, SeqModType
  <2>3. Taken(L) + 1 + (k - 1) = Taken(L) + k
    BY <1>1, <2>1
  <2>4. L.RXFRAMES[Plus(L.LINKNR, k - 1)] # NoMsg
    BY <2>1
  <2>5. /\ L.RXFRAMES[Plus(L.LINKNR, k - 1)] = Taken(L) + 1 + (k - 1)
        /\ k - 1 < RcvWindow /\ ~L.DISCPENDING
    BY <2>2, <2>4, SavedSlot
  <2> QED
    BY <1>1, <2>1, <2>3, <2>5
<1>3. n <= RcvWindow /\ (n > 0 => ~L.DISCPENDING) /\ n \in SeqNo
  <2>1. CASE n = 0
    BY <2>1, Sizes, SeqModType
  <2>2. CASE n # 0
    <3>1. n \in 1..n
      BY <1>1, <2>2
    <3>2. n - 1 < RcvWindow /\ ~L.DISCPENDING
      BY <1>2, <3>1
    <3> QED
      BY <1>1, <3>2, Sizes, SeqModType
  <2> QED
    BY <2>1, <2>2
<1>4. ms \in Seq(Nat) /\ Len(ms) = n
  <2>1. ms \in Seq(Nat)
    <3>1. n \in Nat /\ \A k \in 1..n : ms[k] \in Nat
      BY <1>1, <1>2
    <3> QED
      BY <3>1, IsASeq
  <2>2. DOMAIN ms = 1..Len(ms) /\ DOMAIN ms = 1..n /\ Len(ms) \in Nat
    BY <2>1, LenProperties
  <2>3. n \in Nat
    BY <1>1
  <2> HIDE DEF ms
  <2>4. 1..Len(ms) = 1..n
    BY <2>2
  <2>5. Len(ms) = n
    BY <2>2, <2>3, <2>4, SameInterval
  <2> QED
    BY <2>1, <2>5
<1>5. R \in [SeqNo -> Nat]
  BY <1>1 DEF NoMsg
<1>6. /\ C \in Links /\ C.LINKNR = L.LINKNR /\ C.RXFRAMES = R
      /\ C.L2STATE = L.L2STATE /\ C.RX_Q = L.RX_Q /\ SameWindow(L, C)
      /\ C.DISCPENDING <=> L.DISCPENDING
  <2> HIDE DEF R
  <2> QED
    BY <1>1, <1>5 DEF Links, SameWindow
<1>7. D = PROC_I_FRAME(C, ms)
  BY DEF TakeSaved
<1>8. OK(D)
  BY TakeSavedOK, <1>1
<1> HIDE DEF C, ms
<1>9. /\ D.LINKNR = Plus(L.LINKNR, n) /\ D.RXFRAMES = R
      /\ D.L2STATE = L.L2STATE /\ SameWindow(L, D)
      /\ D.DISCPENDING => L.DISCPENDING
      /\ n = 0 => D.RX_Q = L.RX_Q
      /\ n # 0 => D.RX_Q = L.RX_Q \o ms
  <2>1. /\ D.LINKNR = Plus(C.LINKNR, Len(ms))
        /\ D.RXFRAMES = C.RXFRAMES /\ D.L2STATE = C.L2STATE
        /\ D.DISCPENDING => C.DISCPENDING
        /\ SameWindow(C, D)
        /\ ms = << >> \/ C.DISCPENDING => D.RX_Q = C.RX_Q
        /\ ~(ms = << >> \/ C.DISCPENDING) => D.RX_Q = C.RX_Q \o ms
    BY <1>4, <1>6, <1>7, ProcFields
  <2>2. ms = << >> <=> n = 0
    BY <1>4, EmptySeq
  <2>3. SameWindow(L, D)
    BY <1>6, <2>1 DEF SameWindow
  <2> QED
    BY <1>1, <1>3, <1>4, <1>6, <2>1, <2>2, <2>3
<1>10. Taken(D) = Taken(L) + n /\ \A k \in 1..Taken(D) : D.RX_Q[k] = k
  <2>1. \A k \in 1..Taken(L) : L.RX_Q[k] = k
    BY DEF Fit, Receives
  <2>2. CASE n = 0
    BY <1>1, <1>9, <2>1, <2>2 DEF Taken
  <2>3. CASE n # 0
    <3>1. D.RX_Q = L.RX_Q \o ms
      BY <1>9, <2>3
    <3>2. /\ Len(D.RX_Q) = Len(L.RX_Q) + n
          /\ \A i \in 1..(Len(L.RX_Q) + n) : D.RX_Q[i] =
                IF i <= Len(L.RX_Q) THEN L.RX_Q[i] ELSE ms[i - Len(L.RX_Q)]
      <4>1. /\ Len(L.RX_Q \o ms) = Len(L.RX_Q) + Len(ms)
            /\ \A i \in 1..(Len(L.RX_Q) + Len(ms)) : (L.RX_Q \o ms)[i] =
                  IF i <= Len(L.RX_Q) THEN L.RX_Q[i] ELSE ms[i - Len(L.RX_Q)]
        BY <1>1, <1>4, ConcatProperties
      <4> QED
        BY <1>4, <3>1, <4>1
    <3>3. ASSUME NEW k \in 1..(Taken(L) + n)
          PROVE  D.RX_Q[k] = k
      <4>1. CASE k <= Taken(L)
        <5>1. k \in 1..Taken(L)
          BY <1>1, <4>1
        <5> QED
          BY <2>1, <3>2, <4>1, <5>1 DEF Taken
      <4>2. CASE ~(k <= Taken(L))
        <5>1. k - Taken(L) \in 1..n /\ Taken(L) + (k - Taken(L)) = k
          BY <1>1, <4>2
        <5>2. D.RX_Q[k] = ms[k - Taken(L)]
          BY <3>2, <4>2 DEF Taken
        <5> QED
          BY <1>2, <5>1, <5>2
      <4> QED
        BY <4>1, <4>2
    <3> QED
      BY <3>2, <3>3 DEF Taken
  <2> QED
    BY <2>2, <2>3
<1>11. \A i \in SeqNo : D.RXFRAMES[i] # NoMsg
              => D.RXFRAMES[i] = L.RXFRAMES[i] /\ Dist(L.LINKNR, i) >= n
  <2>1. \A i \in SeqNo : Dist(L.LINKNR, i) \in Nat
    BY <1>1, DistType, SeqModType
  <2> QED
    BY <1>1, <1>9, <2>1
<1>12. ASSUME NEW b \in Nat, Below(L, b)
       PROVE  Taken(D) <= b
  <2>1. CASE n = 0
    BY <1>1, <1>10, <1>12, <2>1 DEF Below
  <2>2. CASE n # 0
    <3>1. n \in 1..n
      BY <1>1, <2>2
    <3>2. ms[n] = Taken(L) + n
      BY <1>2, <3>1
    <3>3. Plus(L.LINKNR, n - 1) \in SeqNo
      <4>1. n - 1 \in 0..SeqMod
        <5> n - 1 \in Nat /\ n - 1 <= SeqMod
          BY <1>1, <2>2
        <5> QED
          BY <1>1
      <4> QED
        BY <1>1, <4>1, PlusType
    <3>4. ms[n] = L.RXFRAMES[Plus(L.LINKNR, n - 1)]
      BY <3>1 DEF ms
    <3> QED
      BY <1>10, <1>12, <3>2, <3>3, <3>4 DEF Below
  <2> QED
    BY <2>1, <2>2
<1> HIDE DEF R
<1>13. D.L2STATE >= 4 /\ (L.L2STATE = 4 => n = 0)
  BY <1>9, FitTypes
<1>14. Moves(L, D, 0)
  BY <1>3, <1>8, <1>9, <1>10, <1>11, <1>12, <1>13, Grow
<1> QED
  BY <1>3, <1>9, <1>10, <1>14

\* The frame that is due is passed up, whatever CancelREJ does before.
LEMMA TakeDue ==
    ASSUME NEW L, Fit(L), L.L2STATE >= 5, ~L.DISCPENDING,
           NEW C, OK(C), SameWindow(L, C), C.LINKNR = L.LINKNR, C.RX_Q = L.RX_Q,
           C.RXFRAMES = [L.RXFRAMES EXCEPT ![L.LINKNR] = NoMsg],
           C.L2STATE >= 5, C.DISCPENDING => L.DISCPENDING,
           NEW m \in Nat, m = Taken(L) + 1,
           NEW N, N = PROC_I_FRAME(C, << m >>)
    PROVE  Moves(L, N, m) /\ N.L2STATE >= 5
<1>1. /\ OK(L) /\ L \in Links /\ L.LINKNR \in SeqNo
      /\ L.RXFRAMES \in [SeqNo -> Nat] /\ L.RX_Q \in Seq(Nat)
      /\ Taken(L) \in Nat /\ C \in Links
  BY FitTypes DEF OK
<1>2. << m >> \in Seq(Nat) /\ Len(<< m >>) = 1 /\ << m >> # << >>
  OBVIOUS
<1>3. /\ N.LINKNR = Plus(L.LINKNR, 1)
      /\ N.RXFRAMES = C.RXFRAMES /\ N.L2STATE = C.L2STATE
      /\ N.DISCPENDING => L.DISCPENDING
      /\ SameWindow(C, N) /\ N.RX_Q = L.RX_Q \o << m >>
  <2> DEFINE ms == << m >>
  <2>1. ms \in Seq(Nat) /\ N = PROC_I_FRAME(C, ms)
    BY <1>2
  <2> HIDE DEF ms
  <2>2. /\ N.LINKNR = Plus(C.LINKNR, Len(ms))
        /\ N.RXFRAMES = C.RXFRAMES /\ N.L2STATE = C.L2STATE
        /\ N.DISCPENDING => C.DISCPENDING
        /\ SameWindow(C, N)
        /\ ~(ms = << >> \/ C.DISCPENDING) => N.RX_Q = C.RX_Q \o ms
    <3>1. C \in Links
      BY <1>1
    <3>2. N.LINKNR = Plus(C.LINKNR, Len(ms))
      BY <3>1, <2>1, ProcFields
    <3>3. N.RXFRAMES = C.RXFRAMES /\ N.L2STATE = C.L2STATE
      BY <3>1, <2>1, ProcFields
    <3>4. SameWindow(C, N)
      BY <3>1, <2>1, ProcFields
    <3>5. N.DISCPENDING => C.DISCPENDING
      BY <3>1, <2>1, ProcFields
    <3>6. ~(ms = << >> \/ C.DISCPENDING) => N.RX_Q = C.RX_Q \o ms
      BY <3>1, <2>1, ProcFields
    <3> QED
      BY <3>2, <3>3, <3>4, <3>5, <3>6
  <2> QED
    BY <1>2, <2>2 DEF ms
<1>4. OK(N)
  BY <1>2, PROC_I_FRAMEOK
<1>5. SameWindow(L, N)
  BY <1>3 DEF SameWindow
<1>6. Taken(N) = Taken(L) + 1 /\ \A k \in 1..Taken(N) : N.RX_Q[k] = k
  <2>1. \A k \in 1..Taken(L) : L.RX_Q[k] = k
    BY DEF Fit, Receives
  <2>2. /\ Len(N.RX_Q) = Len(L.RX_Q) + 1
        /\ \A i \in 1..(Len(L.RX_Q) + 1) : N.RX_Q[i] =
              IF i <= Len(L.RX_Q) THEN L.RX_Q[i] ELSE << m >>[i - Len(L.RX_Q)]
    <3>1. /\ Len(L.RX_Q \o << m >>) = Len(L.RX_Q) + Len(<< m >>)
          /\ \A i \in 1..(Len(L.RX_Q) + Len(<< m >>)) : (L.RX_Q \o << m >>)[i] =
                IF i <= Len(L.RX_Q) THEN L.RX_Q[i]
                ELSE << m >>[i - Len(L.RX_Q)]
      BY <1>1, <1>2, ConcatProperties
    <3> QED
      BY <1>2, <1>3, <3>1
  <2>3. ASSUME NEW k \in 1..(Taken(L) + 1)
        PROVE  N.RX_Q[k] = k
    <3>1. CASE k <= Taken(L)
      <4>1. k \in 1..Taken(L)
        BY <1>1, <3>1
      <4> QED
        BY <2>1, <2>2, <3>1, <4>1 DEF Taken
    <3>2. CASE ~(k <= Taken(L))
      <4>1. k = Taken(L) + 1 /\ k - Taken(L) = 1
        BY <1>1, <3>2
      <4> QED
        BY <2>2, <3>2, <4>1 DEF Taken
    <3> QED
      BY <3>1, <3>2
  <2> QED
    BY <2>2, <2>3 DEF Taken
<1>7. ASSUME NEW i \in SeqNo, N.RXFRAMES[i] # NoMsg
      PROVE  N.RXFRAMES[i] = L.RXFRAMES[i] /\ Dist(L.LINKNR, i) >= 1
  <2>1. i # L.LINKNR /\ N.RXFRAMES[i] = L.RXFRAMES[i]
    BY <1>1, <1>3, <1>7
  <2>2. Dist(L.LINKNR, i) = IF i >= L.LINKNR THEN i - L.LINKNR
                            ELSE i - L.LINKNR + SeqMod
    BY <1>1, DistArith
  <2> QED
    BY <1>1, <2>1, <2>2, SeqModType
<1>8. 1 \in SeqNo /\ N.L2STATE >= 4 /\ L.L2STATE # 4
  <2>1. N.L2STATE >= 5 /\ N.L2STATE \in LinkStates
    BY <1>3, <1>4 DEF OK, Links
  <2>2. 1 \in SeqNo
    <3>1. 1 < SeqMod
      BY SeqModAssumption
    <3> QED
      BY <3>1, SeqModType
  <2>3. N.L2STATE >= 4
    BY <2>1 DEF LinkStates
  <2> QED
    BY <2>2, <2>3
<1>9. \A b \in Nat : Below(L, b) /\ m <= b => Taken(N) <= b
  BY <1>6
<1>10. Moves(L, N, m)
  BY <1>3, <1>4, <1>5, <1>6, <1>7, <1>8, <1>9, Grow
<1> QED
  BY <1>3, <1>10

\* A frame that came early is saved in its slot.
LEMMA SaveEarly ==
    ASSUME NEW L, Fit(L), L.L2STATE >= 5, ~L.DISCPENDING,
           NEW ns \in SeqNo, Dist(L.LINKNR, ns) < RcvWindow,
           NEW m \in Nat, m = Taken(L) + 1 + Dist(L.LINKNR, ns),
           NEW N, OK(N), SameWindow(L, N), N.LINKNR = L.LINKNR, N.RX_Q = L.RX_Q,
           N.RXFRAMES = [L.RXFRAMES EXCEPT ![ns] = m],
           N.L2STATE >= 5, N.DISCPENDING => L.DISCPENDING
    PROVE  Moves(L, N, m)
<1>1. /\ L.LINKNR \in SeqNo /\ L.RXFRAMES \in [SeqNo -> Nat]
      /\ Taken(L) \in Nat /\ Taken(N) = Taken(L)
  BY FitTypes DEF Taken
<1>2. Receives(N)
  BY <1>1 DEF Fit, Receives
<1>3. /\ Acked(N) = Acked(L) /\ N.LINKWS = L.LINKWS /\ N.queued = L.queued
      /\ L.loaded <= N.loaded
  <2>1. L.loaded \in Nat
    BY FitTypes
  <2> QED
    BY <2>1 DEF SameWindow, Acked, Held
<1>4. N.L2STATE >= 4 /\ L.L2STATE # 4
  <2>1. N.L2STATE \in LinkStates
    BY DEF OK, Links
  <2> QED
    BY <2>1, FitTypes DEF LinkStates
<1>5. Fit(N)
  BY <1>2, <1>3, <1>4 DEF Fit
<1>6. ASSUME NEW b \in Nat, Below(L, b), m <= b
      PROVE  Below(N, b)
  BY <1>1, <1>6 DEF Below
<1> QED
  BY <1>1, <1>3, <1>4, <1>5, <1>6 DEF Moves

\* CancelREJ changes the state only, which moves nothing.
LEMMA CancelREJMoves ==
    ASSUME NEW L, Fit(L)
    PROVE  /\ Moves(L, CancelREJ(L), 0) /\ SameWindow(L, CancelREJ(L))
           /\ CancelREJ(L).LINKNR = L.LINKNR /\ CancelREJ(L).RX_Q = L.RX_Q
           /\ CancelREJ(L).RXFRAMES = L.RXFRAMES
           /\ L.L2STATE >= 5 => CancelREJ(L).L2STATE >= 5
<1> DEFINE N == CancelREJ(L)
<1>1. /\ OK(L) /\ L \in Links /\ OK(N) /\ L.L2STATE \in {4, 5, 6}
  BY FitTypes, CancelREJOK
<1>2. /\ SameWindow(L, N) /\ N.LINKWS = L.LINKWS /\ N.queued = L.queued
      /\ N.RX_Q = L.RX_Q /\ N.RXFRAMES = L.RXFRAMES /\ N.LINKNR = L.LINKNR
      /\ N.L2STATE >= 4 /\ (L.L2STATE = 4 => N.L2STATE = 4)
      /\ (L.L2STATE >= 5 => N.L2STATE >= 5)
      /\ (N.DISCPENDING => L.DISCPENDING)
  BY <1>1 DEF CancelREJ, Links, SameWindow
<1> HIDE DEF N
<1>3. Moves(L, N, 0)
  BY <1>1, <1>2, MovesIntro
<1> QED
  BY <1>2, <1>3 DEF N

\* CancelREJ again, for an entry that need not be Fit.
LEMMA CancelREJKeeps ==
    ASSUME NEW L, OK(L), NEW N, N = CancelREJ(L)
    PROVE  /\ OK(N) /\ SameWindow(L, N)
           /\ N.LINKNR = L.LINKNR /\ N.RX_Q = L.RX_Q /\ N.RXFRAMES = L.RXFRAMES
           /\ L.L2STATE >= 5 => N.L2STATE >= 5
           /\ N.DISCPENDING => L.DISCPENDING
<1>1. OK(N) /\ L \in Links
  BY CancelREJOK DEF OK
<1> QED
  BY <1>1 DEF CancelREJ, Links, SameWindow

\* Nor does setting these flags move the entry.
LEMMA FlagsMove ==
    ASSUME NEW L, Fit(L), NEW b \in BOOLEAN
    PROVE  /\ Moves(L, [L EXCEPT !.RNRSENT = b], 0)
           /\ Moves(L, [L EXCEPT !.L2ACKREQ = b], 0)
           /\ Moves(L, [L EXCEPT !.L2TIMER = b], 0)
           /\ Moves(L, [L EXCEPT !.RNRSET = b], 0)
           /\ Moves(L, [L EXCEPT !.REJSENT = b], 0)
           /\ Moves(L, [L EXCEPT !.POLLSENT = b, !.L2TIMER = TRUE], 0)
<1>1. OK(L) /\ L \in Links /\ L.L2STATE >= 4
  BY FitTypes DEF Fit
<1> DEFINE Keeps(N) ==
      /\ OK(N) /\ SameWindow(L, N) /\ N.LINKWS = L.LINKWS /\ N.queued = L.queued
      /\ N.RX_Q = L.RX_Q /\ N.RXFRAMES = L.RXFRAMES /\ N.LINKNR = L.LINKNR
      /\ N.L2STATE = L.L2STATE /\ (N.DISCPENDING => L.DISCPENDING)
<1>2. /\ OK([L EXCEPT !.RNRSENT = b]) /\ OK([L EXCEPT !.L2ACKREQ = b])
      /\ OK([L EXCEPT !.L2TIMER = b]) /\ OK([L EXCEPT !.RNRSET = b])
      /\ OK([L EXCEPT !.REJSENT = b])
      /\ OK([L EXCEPT !.POLLSENT = b, !.L2TIMER = TRUE])
  BY <1>1, SetFlags
<1>3. /\ Keeps([L EXCEPT !.RNRSENT = b]) /\ Keeps([L EXCEPT !.L2ACKREQ = b])
      /\ Keeps([L EXCEPT !.L2TIMER = b]) /\ Keeps([L EXCEPT !.RNRSET = b])
      /\ Keeps([L EXCEPT !.REJSENT = b])
      /\ Keeps([L EXCEPT !.POLLSENT = b, !.L2TIMER = TRUE])
  BY <1>1, <1>2 DEF Links, SameWindow
<1>4. ASSUME NEW N, Keeps(N)
      PROVE  Moves(L, N, 0)
  BY <1>1, <1>4, MovesIntro
<1> HIDE DEF Keeps
<1> QED
  BY <1>3, <1>4

\* Dropping what is saved.
LEMMA DropMoves ==
    ASSUME NEW L, Fit(L), NEW N, N = [L EXCEPT !.RXFRAMES = [i \in SeqNo |-> NoMsg]]
    PROVE  Moves(L, N, 0)
<1>1. OK(L) /\ L \in Links /\ L.L2STATE >= 4 /\ Taken(L) \in Nat
  BY FitTypes DEF Fit
<1>2. [i \in SeqNo |-> NoMsg] \in [SeqNo -> Nat]
  BY DEF NoMsg
<1>3. OK(N)
  BY <1>1, <1>2, SetSaved
<1>4. /\ SameWindow(L, N) /\ N.LINKNR = L.LINKNR /\ N.RX_Q = L.RX_Q
      /\ \A i \in SeqNo : N.RXFRAMES[i] = NoMsg
      /\ N.L2STATE = L.L2STATE /\ (N.DISCPENDING => L.DISCPENDING)
  BY <1>1 DEF Links, SameWindow
<1>5. Taken(N) = Taken(L) /\ Receives(N) /\ NoneSaved(N)
  BY <1>4 DEF Fit, Receives, Taken, NoneSaved
<1>6. /\ Acked(N) = Acked(L) /\ N.LINKWS = L.LINKWS /\ N.queued = L.queued
      /\ L.loaded <= N.loaded
  <2>1. L.loaded \in Nat
    BY FitTypes
  <2> QED
    BY <1>4, <2>1 DEF SameWindow, Acked, Held
<1>7. Fit(N)
  BY <1>1, <1>3, <1>4, <1>5, <1>6 DEF Fit
<1>8. \A b \in Nat : Below(L, b) => Below(N, b)
  BY <1>4, <1>5 DEF Below, NoMsg
<1> QED
  BY <1>1, <1>4, <1>5, <1>6, <1>7, <1>8 DEF Moves
-----------------------------------------------------------------------------
(* What a handler sends, and the routines that acknowledge.                *)

\* An I frame carries a message of the window under its own number, and every
\* frame that carries N(R) acknowledges what was passed up by then.
Sent(r) == \A k \in 1..Len(r.out) :
    /\ IsData(r.out[k]) => /\ r.out[k].m \in 1..r.link.loaded
                           /\ Acked(r.link) < r.out[k].m
                           /\ r.out[k].m <= Acked(r.link) + LINKWINDOW
                           /\ r.out[k].ns = (r.out[k].m - 1) % SeqMod
    /\ IsAck(r.out[k]) => r.out[k].nr = r.link.LINKNR

\* A handler's result: the entry moved, and what is sent said of the new one.
Goes(L, r, m) == Moves(L, r.link, m) /\ r.out \in Seq(Frames) /\ Sent(r)

\* The frames that say N(R) and nothing else.
AckTypes == {"RR", "RNR", "REJ", "SREJ"}

\* One frame that acknowledges what N has passed up may be sent.
LEMMA OneAck ==
    ASSUME NEW L, NEW N, NEW m, Moves(L, N, m), NEW t \in AckTypes,
           NEW c \in BOOLEAN, NEW p \in BOOLEAN, NEW nr, nr = N.LINKNR
    PROVE  Goes(L, [link |-> N, out |-> << Frame(t, c, p, nr, 0, NoMsg) >>], m)
<1> DEFINE x == Frame(t, c, p, nr, 0, NoMsg)
<1>1. nr \in SeqNo
  BY FitTypes DEF Moves
<1>2. t \in FrameTypes /\ t # "I"
  BY DEF AckTypes, FrameTypes
<1>3. << x >> \in Seq(Frames)
  BY <1>1, <1>2, FrameType
<1>4. ~IsData(x) /\ x.nr = nr
  BY <1>2 DEF IsData, Frame
<1> HIDE DEF x
<1>5. Len(<< x >>) = 1 /\ << x >>[1] = x
  OBVIOUS
<1>6. Sent([link |-> N, out |-> << x >>])
  BY <1>4, <1>5 DEF Sent
<1> QED
  BY <1>3, <1>6 DEF Goes, x

\* A handler that sends nothing.
LEMMA SilentGoes ==
    ASSUME NEW L, NEW N, NEW m, Moves(L, N, m)
    PROVE  Goes(L, Silent(N), m)
  BY DEF Goes, Silent, Sent

\* What was sent without a message in hand may be sent with one.
LEMMA GoesMore ==
    ASSUME NEW L, NEW r, NEW m \in Nat, Goes(L, r, 0)
    PROVE  Goes(L, r, m)
  BY MovesMore DEF Goes

\* A routine that sends, called after one that moved the entry.
LEMMA GoesAfter ==
    ASSUME NEW L, NEW N, NEW r, NEW m \in Nat, Moves(L, N, m), Goes(N, r, 0)
    PROVE  Goes(L, r, m)
  BY MovesTrans, MovesMore DEF Goes

\* AckTail moves nothing.
LEMMA AckTailMoves ==
    ASSUME NEW L, Fit(L)
    PROVE  Moves(L, AckTail(L), 0) /\ AckTail(L).LINKNR = L.LINKNR
<1> DEFINE N == AckTail(L)
<1>1. /\ OK(L) /\ L \in Links /\ L.L2STATE >= 4 /\ L.L2STATE \in {4, 5, 6}
  BY FitTypes DEF Fit
<1>2. OK(N) /\ N.LINKNR = L.LINKNR
  BY <1>1, AckTailOK
<1>3. /\ SameWindow(L, N) /\ N.LINKWS = L.LINKWS /\ N.queued = L.queued
      /\ N.RX_Q = L.RX_Q /\ N.RXFRAMES = L.RXFRAMES
      /\ N.L2STATE >= 4 /\ (L.L2STATE = 4 => N.L2STATE = 4)
      /\ (N.DISCPENDING => L.DISCPENDING)
  BY <1>1 DEF AckTail, Links, SameWindow
<1> HIDE DEF N
<1>4. Moves(L, N, 0)
  BY <1>1, <1>2, <1>3, MovesIntro
<1> QED
  BY <1>2, <1>4 DEF N

\* RR_OR_RNR, which may first pass up saved frames, moves the entry and answers
\* with a frame that carries N(R).
LEMMA RR_OR_RNRMoves ==
    ASSUME NEW L, Fit(L), NEW busy \in BOOLEAN, NEW isCmd \in BOOLEAN
    PROVE  /\ Moves(L, RR_OR_RNR(L, busy, isCmd).link, 0)
           /\ RR_OR_RNR(L, busy, isCmd).type \in AckTypes
<1> DEFINE n == IF L.L2STATE = 6 THEN SavedRun(L, SeqMod) ELSE 0
           F == [L EXCEPT !.RNRSENT = FALSE]
           B == [L EXCEPT !.RNRSENT = TRUE]
           T == TakeSaved(F, n)
           D == IF n = 0 THEN F
                ELSE [CancelREJ(T) EXCEPT !.L2ACKREQ = FALSE]
<1>1. /\ n \in 0..SeqMod /\ (n > 0 => L.L2STATE = 6)
      /\ \A k \in 0..(n - 1) : L.RXFRAMES[Plus(L.LINKNR, k)] # NoMsg
  <2>1. SeqMod \in 0..SeqMod /\ 0 \in 0..SeqMod
    BY SeqModType
  <2>2. CASE L.L2STATE = 6
    BY <2>1, <2>2, SavedRunIs
  <2>3. CASE L.L2STATE # 6
    BY <2>1, <2>3
  <2> QED
    BY <2>2, <2>3
<1>2. Moves(L, F, 0) /\ Moves(L, B, 0)
  BY FlagsMove
<1>3. F.L2STATE = L.L2STATE /\ F.RXFRAMES = L.RXFRAMES /\ F.LINKNR = L.LINKNR
  BY FitTypes DEF Links
<1> HIDE DEF n, F, B
<1>4. Moves(L, T, 0)
  <2>1. Fit(F)
    BY <1>2 DEF Moves
  <2>2. n > 0 => F.L2STATE >= 5
    BY <1>1, <1>3
  <2>3. \A k \in 0..(n - 1) : F.RXFRAMES[Plus(F.LINKNR, k)] # NoMsg
    BY <1>1, <1>3
  <2>4. Moves(F, T, 0)
    BY <1>1, <2>1, <2>2, <2>3, TakeSavedMoves
  <2> QED
    BY <1>2, <2>4, MovesTrans
<1> HIDE DEF T
<1>5. Moves(L, CancelREJ(T), 0)
  BY <1>4, CancelREJMoves, MovesTrans DEF Moves
<1>6. Moves(L, [CancelREJ(T) EXCEPT !.L2ACKREQ = FALSE], 0)
  <2>1. Moves(CancelREJ(T), [CancelREJ(T) EXCEPT !.L2ACKREQ = FALSE], 0)
    BY <1>5, FlagsMove DEF Moves
  <2> QED
    BY <1>5, <2>1, MovesTrans
<1>7. Moves(L, D, 0)
  BY <1>2, <1>6
<1> HIDE DEF D
<1>8. CASE busy
  BY <1>2, <1>8 DEF RR_OR_RNR, AckTypes, B
<1>9. CASE ~busy
  <2>1. RR_OR_RNR(L, busy, isCmd) =
           [link |-> D,
            type |-> IF D.L2STATE # 6 THEN "RR"
                     ELSE IF L.Ver2point2 /\ ~L.RNRSENT /\ ~isCmd
                          THEN "SREJ" ELSE "REJ"]
    BY <1>9 DEF RR_OR_RNR, D, T, F, n
  <2> QED
    BY <1>7, <2>1 DEF AckTypes
<1> QED
  BY <1>8, <1>9

\* SEND_RR_RESP acknowledges what has been passed up.
LEMMA SEND_RR_RESPGoes ==
    ASSUME NEW L, Fit(L), NEW busy \in BOOLEAN, NEW pf \in BOOLEAN
    PROVE  Goes(L, SEND_RR_RESP(L, busy, pf), 0)
<1> DEFINE r == RR_OR_RNR(L, busy, FALSE)
<1>1. Moves(L, r.link, 0) /\ r.type \in AckTypes
  BY RR_OR_RNRMoves
<1>2. SEND_RR_RESP(L, busy, pf) =
        [link |-> AckTail(r.link),
         out  |-> << Frame(r.type, FALSE, pf, r.link.LINKNR, 0, NoMsg) >>]
  BY DEF SEND_RR_RESP
<1> HIDE DEF r
<1>3. Moves(L, AckTail(r.link), 0) /\ AckTail(r.link).LINKNR = r.link.LINKNR
  BY <1>1, AckTailMoves, MovesTrans DEF Moves
<1> QED
  BY <1>1, <1>2, <1>3, OneAck

\* So does SendSupervisCmd, with a poll.
LEMMA SendSupervisCmdGoes ==
    ASSUME NEW L, Fit(L), NEW busy \in BOOLEAN
    PROVE  Goes(L, SendSupervisCmd(L, busy), 0)
<1> DEFINE A == [L EXCEPT !.L2ACKREQ = FALSE]
           r == RR_OR_RNR(A, busy, TRUE)
           N == [r.link EXCEPT !.POLLSENT = TRUE, !.L2TIMER = TRUE]
<1>1. Moves(L, A, 0)
  BY FlagsMove
<1> HIDE DEF A
<1>2. Moves(L, r.link, 0) /\ r.type \in AckTypes
  <2>1. Fit(A)
    BY <1>1 DEF Moves
  <2>2. Moves(A, r.link, 0) /\ r.type \in AckTypes
    BY <2>1, RR_OR_RNRMoves
  <2> HIDE DEF r
  <2> QED
    BY <1>1, <2>2, MovesTrans
<1>3. SendSupervisCmd(L, busy) =
        [link |-> N,
         out  |-> << Frame(r.type, TRUE, TRUE, r.link.LINKNR, 0, NoMsg) >>]
  BY DEF SendSupervisCmd, A
<1> HIDE DEF r
<1>4. Fit(r.link)
  BY <1>2 DEF Moves
<1>5. Moves(r.link, N, 0)
  BY <1>4, FlagsMove
<1>6. N.LINKNR = r.link.LINKNR
  BY <1>4, FitTypes DEF Links
<1> HIDE DEF N
<1>7. Moves(L, N, 0)
  BY <1>2, <1>5, MovesTrans
<1> QED
  BY <1>2, <1>3, <1>6, <1>7, OneAck

\* So does the answer to a poll.
LEMMA AnswerPollGoes ==
    ASSUME NEW L, Fit(L), NEW busy \in BOOLEAN
    PROVE  Goes(L, AnswerPoll(L, busy), 0)
<1> DEFINE A == [L EXCEPT !.L2ACKREQ = FALSE]
<1>1. Moves(L, A, 0)
  BY FlagsMove
<1>2. AnswerPoll(L, busy) = SEND_RR_RESP(A, busy, TRUE)
  BY DEF AnswerPoll
<1> HIDE DEF A
<1>3. Goes(A, SEND_RR_RESP(A, busy, TRUE), 0)
  BY <1>1, SEND_RR_RESPGoes DEF Moves
<1> QED
  BY <1>1, <1>2, <1>3, GoesAfter

\* So does the answer to a supervisory command.
LEMMA AnswerCommandGoes ==
    ASSUME NEW L, Fit(L), NEW busy \in BOOLEAN, NEW recent \in BOOLEAN
    PROVE  Goes(L, AnswerCommand(L, busy, recent), 0)
<1> DEFINE r == RR_OR_RNR(L, busy, FALSE)
           N == [r.link EXCEPT !.L2ACKREQ = FALSE]
<1>1. Moves(L, r.link, 0) /\ r.type \in AckTypes
  BY RR_OR_RNRMoves
<1>2. AnswerCommand(L, busy, recent) =
        IF recent THEN Silent(L)
        ELSE [link |-> N,
              out  |-> << Frame(r.type, FALSE, TRUE, r.link.LINKNR, 0, NoMsg) >>]
  BY DEF AnswerCommand
<1> HIDE DEF r
<1>3. Fit(r.link)
  BY <1>1 DEF Moves
<1>4. Moves(r.link, N, 0)
  BY <1>3, FlagsMove
<1>5. N.LINKNR = r.link.LINKNR
  BY <1>3, FitTypes DEF Links
<1> HIDE DEF N
<1>6. Moves(L, N, 0)
  BY <1>1, <1>4, MovesTrans
<1>7. Goes(L, [link |-> N, out |->
         << Frame(r.type, FALSE, TRUE, r.link.LINKNR, 0, NoMsg) >>], 0)
  BY <1>1, <1>5, <1>6, OneAck
<1>8. Goes(L, Silent(L), 0)
  <2>1. Moves(L, L, 0)
    BY MovesSelf
  <2> QED
    BY <2>1, SilentGoes
<1> QED
  BY <1>2, <1>7, <1>8

\* CheckPF, on a frame out of sequence, passes nothing up and answers with the
\* N(R) it has.
LEMMA CheckPFGoes ==
    ASSUME NEW L, Fit(L), NEW f, NEW busy \in BOOLEAN
    PROVE  Goes(L, CheckPF(L, f, busy), 0)
<1> DEFINE R == [L EXCEPT !.REJSENT = TRUE]
           D == [L EXCEPT !.RXFRAMES = [i \in SeqNo |-> NoMsg]]
<1>1. Moves(L, R, 0) /\ Moves(L, D, 0)
  BY FlagsMove, DropMoves
<1>2. CheckPF(L, f, busy) =
        IF ~L.Ver2point2 /\ L.REJSENT THEN Silent(L)
        ELSE IF f.pf THEN AnswerPoll(IF L.L2STATE = 6 THEN R ELSE D, busy)
        ELSE IF L.L2ACKREQ THEN Silent(L) ELSE SEND_RR_RESP(L, busy, FALSE)
  BY DEF CheckPF
<1> HIDE DEF R, D
<1>3. Goes(L, AnswerPoll(R, busy), 0) /\ Goes(L, AnswerPoll(D, busy), 0)
  BY <1>1, AnswerPollGoes, GoesAfter DEF Moves
<1>4. Goes(L, SEND_RR_RESP(L, busy, FALSE), 0)
  BY SEND_RR_RESPGoes
<1>5. Goes(L, Silent(L), 0)
  BY MovesSelf, SilentGoes
<1> QED
  BY <1>2, <1>3, <1>4, <1>5
-----------------------------------------------------------------------------
(* The frames that bring data and acknowledgements.                        *)

\* Received data is new, early or a repeat, and N(S) tells which: nothing
\* reaches further than one window either way.
LEMMA WhichFrame ==
    ASSUME LINKWINDOW <= RcvWindow,
           NEW D, Fit(D), NEW m \in Nat, m >= 1, m <= Taken(D) + LINKWINDOW,
           Taken(D) <= m + LINKWINDOW - 1,
           NEW ns, ns = (m - 1) % SeqMod
    PROVE  /\ ns \in SeqNo
           /\ m > Taken(D) => /\ Dist(D.LINKNR, ns) = m - 1 - Taken(D)
                              /\ Dist(D.LINKNR, ns) < RcvWindow
           /\ m <= Taken(D) => Dist(D.LINKNR, ns) >= RcvWindow
           /\ Dist(D.LINKNR, ns) \in Nat
           /\ Dist(D.LINKNR, ns) = 0 <=> D.LINKNR = ns
<1> DEFINE a == Taken(D)
           b == m - 1
<1>1. a \in Nat /\ b \in Nat /\ D.LINKNR \in SeqNo /\ D.LINKNR = a % SeqMod
  BY FitTypes DEF Fit, Receives
<1> HIDE DEF a
<1>2. /\ ns \in SeqNo
      /\ 0 <= b - a /\ b - a < SeqMod => Dist(D.LINKNR, ns) = b - a
      /\ b - a < 0 /\ -SeqMod <= b - a => Dist(D.LINKNR, ns) = b - a + SeqMod
  <2> HIDE DEF b
  <2>1. ns = b % SeqMod
    BY DEF b
  <2> QED
    BY <1>1, <2>1, DistMod
<1>3. m <= a + LINKWINDOW /\ a <= m + LINKWINDOW - 1
  BY DEF a
<1>4. m > a => Dist(D.LINKNR, ns) = m - 1 - a /\ Dist(D.LINKNR, ns) < RcvWindow
  BY <1>1, <1>2, <1>3, Sizes
<1>5. m <= a => Dist(D.LINKNR, ns) >= RcvWindow
  BY <1>1, <1>2, <1>3, Sizes
<1>6. Dist(D.LINKNR, ns) \in Nat
  BY <1>1, <1>2, DistType, SeqModType
<1>7. Dist(D.LINKNR, ns) = 0 <=> D.LINKNR = ns
  <2>1. Dist(D.LINKNR, ns) = IF ns >= D.LINKNR THEN ns - D.LINKNR
                             ELSE ns - D.LINKNR + SeqMod
    BY <1>1, <1>2, DistArith
  <2> QED
    BY <1>1, <1>2, <2>1, SeqModType
<1> QED
  BY <1>2, <1>4, <1>5, <1>6, <1>7 DEF a

\* SDIFRM on a frame within the window.
LEMMA SDIFRMGoes ==
    ASSUME LINKWINDOW <= RcvWindow,
           NEW L, Fit(L), L.L2STATE >= 5, ~L.DISCPENDING,
           NEW f \in Frames, f.m >= 1, f.ns = (f.m - 1) % SeqMod,
           f.m <= Taken(L) + LINKWINDOW, Below(L, f.m + LINKWINDOW - 1),
           NEW busy \in BOOLEAN, NEW recent \in BOOLEAN
    PROVE  Goes(L, SDIFRM(L, f, busy, recent), f.m)
<1> DEFINE R == [L EXCEPT !.L2STATE = 6, !.L2ACKREQ = FALSE]
           n == SavedRun(L, Dist(L.LINKNR, f.ns))
           D == TakeSaved(L, n)
           C == CancelREJ([D EXCEPT !.RXFRAMES[f.ns] = NoMsg])
           P == PROC_I_FRAME(C, << f.m >>)
           E == [D EXCEPT !.L2STATE = 6, !.L2ACKREQ = TRUE, !.RXFRAMES[f.ns] = f.m]
<1>1. /\ f.ns \in SeqNo /\ f.m \in Nat /\ L.LINKNR \in SeqNo /\ OK(L)
      /\ L \in Links /\ Taken(L) \in Nat
  BY FitTypes DEF Frames
<1>2. Moves(L, R, 0)
  <2>1. OK(R)
    BY <1>1, SetREJState
  <2>2. /\ SameWindow(L, R) /\ R.LINKWS = L.LINKWS /\ R.queued = L.queued
        /\ R.RX_Q = L.RX_Q /\ R.RXFRAMES = L.RXFRAMES /\ R.LINKNR = L.LINKNR
        /\ R.L2STATE = 6 /\ (R.DISCPENDING => L.DISCPENDING)
    BY <1>1 DEF Links, SameWindow
  <2>3. L.L2STATE # 4
    BY FitTypes
  <2> HIDE DEF R
  <2> QED
    BY <2>1, <2>2, <2>3, MovesIntro
<1>3. n \in 0..SeqMod /\ \A k \in 0..(n - 1) : L.RXFRAMES[Plus(L.LINKNR, k)] # NoMsg
  <2>1. Dist(L.LINKNR, f.ns) \in 0..SeqMod
    BY <1>1, DistType, SeqModType
  <2>2. /\ n \in 0..Dist(L.LINKNR, f.ns)
        /\ \A k \in 0..(n - 1) : L.RXFRAMES[Plus(L.LINKNR, k)] # NoMsg
    BY <2>1, SavedRunIs
  <2> HIDE DEF n
  <2> QED
    BY <2>1, <2>2, SeqModType
<1> HIDE DEF n
<1>4. /\ Moves(L, D, 0) /\ D.L2STATE = L.L2STATE
  BY <1>3, TakeSavedMoves
<1> HIDE DEF D
<1>5. /\ Fit(D) /\ D.L2STATE >= 5 /\ ~D.DISCPENDING /\ Taken(D) \in Nat
      /\ D \in Links /\ OK(D) /\ D.RXFRAMES \in [SeqNo -> Nat]
  BY <1>4, FitTypes DEF Moves
<1>6. f.m <= Taken(D) + LINKWINDOW /\ Taken(D) <= f.m + LINKWINDOW - 1
  <2>1. Taken(L) <= Taken(D)
    BY <1>4 DEF Moves
  <2>2. f.m + LINKWINDOW - 1 \in Nat /\ 0 <= f.m + LINKWINDOW - 1
    BY <1>1, Sizes
  <2>3. Below(D, f.m + LINKWINDOW - 1)
    BY <1>4, <2>2 DEF Moves
  <2> QED
    BY <1>1, <1>5, <2>1, <2>3, Sizes DEF Below
<1>7. /\ f.m > Taken(D) => /\ Dist(D.LINKNR, f.ns) = f.m - 1 - Taken(D)
                           /\ Dist(D.LINKNR, f.ns) < RcvWindow
      /\ f.m <= Taken(D) => Dist(D.LINKNR, f.ns) >= RcvWindow
      /\ Dist(D.LINKNR, f.ns) \in Nat
      /\ Dist(D.LINKNR, f.ns) = 0 <=> D.LINKNR = f.ns
  BY <1>1, <1>5, <1>6, WhichFrame
<1>8. CASE Plus(f.ns, 1) = L.LINKNR /\ f.pf
  <2>1. SDIFRM(L, f, busy, recent) = IF recent THEN Silent(R) ELSE AnswerPoll(R, busy)
    BY <1>8 DEF SDIFRM
  <2> HIDE DEF R
  <2>2. Goes(L, Silent(R), 0) /\ Goes(L, AnswerPoll(R, busy), 0)
    BY <1>2, SilentGoes, AnswerPollGoes, GoesAfter DEF Moves
  <2> QED
    BY <1>1, <2>1, <2>2, GoesMore
<1>9. CASE ~(Plus(f.ns, 1) = L.LINKNR /\ f.pf)
  <2>1. SDIFRM(L, f, busy, recent) =
           IF D.LINKNR = f.ns THEN CheckPF(P, f, busy)
           ELSE IF IsRepeat(D, f)
           THEN IF f.pf THEN AnswerPoll(D, busy) ELSE Silent(D)
           ELSE CheckPF(E, f, busy)
    BY <1>9 DEF SDIFRM, D, n
  <2> HIDE DEF P, E
  <2>2. CASE D.LINKNR = f.ns
    <3> DEFINE K == [D EXCEPT !.RXFRAMES[f.ns] = NoMsg]
    <3>1. f.m = Taken(D) + 1
      BY <1>1, <1>5, <1>7, <2>2, Sizes
    <3>2. OK(K)
      <4>1. [D.RXFRAMES EXCEPT ![f.ns] = NoMsg] \in [SeqNo -> Nat]
        BY <1>5 DEF NoMsg
      <4> QED
        BY <1>5, <4>1, SetSaved
    <3>3. /\ SameWindow(D, K) /\ K.LINKNR = D.LINKNR /\ K.RX_Q = D.RX_Q
          /\ K.RXFRAMES = [D.RXFRAMES EXCEPT ![D.LINKNR] = NoMsg]
          /\ K.L2STATE = D.L2STATE /\ (K.DISCPENDING => D.DISCPENDING)
      BY <1>5, <2>2 DEF Links, SameWindow
    <3> HIDE DEF K
    <3>4. C = CancelREJ(K)
      BY DEF K
    <3>5. /\ OK(C) /\ SameWindow(D, C) /\ C.LINKNR = D.LINKNR /\ C.RX_Q = D.RX_Q
          /\ C.RXFRAMES = [D.RXFRAMES EXCEPT ![D.LINKNR] = NoMsg]
          /\ C.L2STATE >= 5 /\ (C.DISCPENDING => D.DISCPENDING)
      <4> HIDE DEF C
      <4>1. /\ OK(C) /\ SameWindow(K, C)
            /\ C.LINKNR = K.LINKNR /\ C.RX_Q = K.RX_Q /\ C.RXFRAMES = K.RXFRAMES
            /\ K.L2STATE >= 5 => C.L2STATE >= 5
            /\ C.DISCPENDING => K.DISCPENDING
        BY <3>2, <3>4, CancelREJKeeps
      <4>2. SameWindow(D, C)
        BY <3>3, <4>1 DEF SameWindow
      <4> QED
        BY <1>5, <3>3, <4>1, <4>2
    <3> HIDE DEF C
    <3>6. Moves(D, P, f.m) /\ P.L2STATE >= 5
      BY <1>1, <1>5, <3>1, <3>5, TakeDue DEF P
    <3>7. Moves(L, P, f.m)
      BY <1>1, <1>4, <3>6, MovesMore, MovesTrans
    <3>8. Goes(P, CheckPF(P, f, busy), 0)
      BY <3>6, CheckPFGoes DEF Moves
    <3> QED
      BY <1>1, <2>1, <2>2, <3>7, <3>8, GoesAfter
  <2>3. CASE D.LINKNR # f.ns /\ IsRepeat(D, f)
    <3>1. Goes(D, Silent(D), 0) /\ Goes(D, AnswerPoll(D, busy), 0)
      BY <1>5, MovesSelf, SilentGoes, AnswerPollGoes
    <3>2. Moves(L, D, f.m)
      BY <1>1, <1>4, MovesMore
    <3> QED
      BY <1>1, <2>1, <2>3, <3>1, <3>2, GoesAfter
  <2>4. CASE D.LINKNR # f.ns /\ ~IsRepeat(D, f)
    <3>1. Dist(D.LINKNR, f.ns) < RcvWindow
      BY <1>7, <2>4, Sizes DEF IsRepeat
    <3>2. f.m = Taken(D) + 1 + Dist(D.LINKNR, f.ns)
      BY <1>1, <1>5, <1>7, <3>1, Sizes
    <3>3. OK(E)
      <4> DEFINE S == [D.RXFRAMES EXCEPT ![f.ns] = f.m]
      <4>1. S \in [SeqNo -> Nat]
        BY <1>1, <1>5
      <4>2. E = [D EXCEPT !.L2STATE = 6, !.L2ACKREQ = TRUE, !.RXFRAMES = S]
        BY DEF E
      <4> HIDE DEF S
      <4>3. OK([D EXCEPT !.L2STATE = 6, !.L2ACKREQ = TRUE, !.RXFRAMES = S])
        BY <1>5, <4>1, SetSaved
      <4> QED
        BY <4>2, <4>3
    <3>4. /\ SameWindow(D, E) /\ E.LINKNR = D.LINKNR /\ E.RX_Q = D.RX_Q
          /\ E.RXFRAMES = [D.RXFRAMES EXCEPT ![f.ns] = f.m]
          /\ E.L2STATE >= 5 /\ (E.DISCPENDING => D.DISCPENDING)
      BY <1>5 DEF Links, SameWindow, E
    <3>5. Moves(D, E, f.m)
      BY <1>1, <1>5, <3>1, <3>2, <3>3, <3>4, SaveEarly
    <3>6. Moves(L, E, f.m)
      BY <1>1, <1>4, <3>5, MovesMore, MovesTrans
    <3>7. Goes(E, CheckPF(E, f, busy), 0)
      BY <3>5, CheckPFGoes DEF Moves
    <3> QED
      BY <1>1, <2>1, <2>4, <3>6, <3>7, GoesAfter
  <2> QED
    BY <2>2, <2>3, <2>4
<1> QED
  BY <1>8, <1>9

\* NoteRNR moves nothing.
LEMMA NoteRNRMoves ==
    ASSUME NEW L, Fit(L), NEW f
    PROVE  Moves(L, NoteRNR(L, f), 0)
<1>1. (f.type = "RNR") \in BOOLEAN
  BY Zenon
<1> QED
  BY <1>1, FlagsMove DEF NoteRNR

\* A link closed for repeating one frame too often passes nothing up.
LEMMA CloseRepeatingGoes ==
    ASSUME NEW L, Fit(L)
    PROVE  Goes(L, CloseRepeating(L), 0)
<1> DEFINE N == [L EXCEPT !.IFrameRetryCounter = @ + 1, !.L2TIMER = TRUE,
                          !.L2STATE = 4]
<1>1. OK(L) /\ L \in Links
  BY FitTypes
<1>2. OK(N)
  <2>1. ResultOK(CloseRepeating(L))
    BY <1>1, CloseRepeatingOK
  <2>2. CloseRepeating(L).link = N
    BY DEF CloseRepeating, Silent
  <2> HIDE DEF N
  <2> QED
    BY <2>1, <2>2 DEF ResultOK
<1>3. /\ SameWindow(L, N) /\ N.LINKWS = L.LINKWS /\ N.queued = L.queued
      /\ N.RX_Q = L.RX_Q /\ N.RXFRAMES = L.RXFRAMES /\ N.LINKNR = L.LINKNR
      /\ N.L2STATE = 4 /\ (N.DISCPENDING => L.DISCPENDING)
  BY <1>1 DEF Links, SameWindow
<1>4. CloseRepeating(L) = Silent(N)
  BY DEF CloseRepeating
<1> HIDE DEF N
<1>5. Moves(L, N, 0)
  BY <1>2, <1>3, MovesIntro
<1> QED
  BY <1>4, <1>5, SilentGoes

\* The message in a slot of the window that is not empty.
LEMMA SlotMessage ==
    ASSUME NEW L, Fit(L), NEW i \in SeqNo, L.FRAMES[i] # NoMsg
    PROVE  /\ L.FRAMES[i] \in 1..L.loaded
           /\ Acked(L) < L.FRAMES[i]
           /\ L.FRAMES[i] = Acked(L) + 1 + Dist(L.LINKWS, i)
           /\ i = (L.FRAMES[i] - 1) % SeqMod
<1> DEFINE d == Dist(L.LINKWS, i)
<1>1. L \in Links /\ Window(L) /\ L.LINKWS \in SeqNo
  BY FitTypes
<1>2. PICK h \in 0..SeqMod, a \in Nat :
             /\ \A j \in SeqNo : L.FRAMES[j] = IF Dist(L.LINKWS, j) < h
                                               THEN a + 1 + Dist(L.LINKWS, j)
                                               ELSE NoMsg
             /\ L.loaded = a + h /\ Acked(L) = a
  BY <1>1, WindowElim
<1>3. d \in SeqNo /\ d \in Nat /\ d < SeqMod /\ d \in 0..SeqMod
  BY <1>1, DistType, SeqModType
<1>4. d < h /\ L.FRAMES[i] = a + 1 + d
  BY <1>2
<1>5. i = Plus(L.LINKWS, d)
  <2>1. d = IF i >= L.LINKWS THEN i - L.LINKWS ELSE i - L.LINKWS + SeqMod
    BY <1>1, DistArith
  <2>2. Plus(L.LINKWS, d) = IF L.LINKWS + d < SeqMod THEN L.LINKWS + d
                            ELSE L.LINKWS + d - SeqMod
    BY <1>1, <1>3, PlusArith
  <2> HIDE DEF d
  <2> QED
    BY <1>1, <2>1, <2>2, SeqModType
<1> HIDE DEF d
<1>6. i = (a + d) % SeqMod
  <2>1. L.LINKWS = a % SeqMod
    BY <1>2 DEF Fit
  <2> QED
    BY <1>3, <1>5, <2>1, PlusMod
<1>7. (a + 1 + d) - 1 = a + d /\ h \in Nat
  BY <1>1, <1>3, SeqModType
<1>8. a + 1 + d \in 1..L.loaded
  BY <1>2, <1>3, <1>4, <1>7
<1> QED
  BY <1>2, <1>3, <1>4, <1>6, <1>7, <1>8 DEF d

\* The frame that a slot within the window sends.
LEMMA SlotSent ==
    ASSUME NEW L, Fit(L), NEW i \in SeqNo, L.FRAMES[i] # NoMsg,
           Dist(L.LINKWS, i) < LINKWINDOW,
           NEW p, NEW x, x = IFrame(L, i, p)
    PROVE  /\ x.m \in 1..L.loaded /\ Acked(L) < x.m
           /\ x.m <= Acked(L) + LINKWINDOW
           /\ x.ns = (x.m - 1) % SeqMod /\ x.nr = L.LINKNR
<1>1. x.m = L.FRAMES[i] /\ x.ns = i /\ x.nr = L.LINKNR
  BY DEF IFrame, Frame
<1>2. Dist(L.LINKWS, i) \in Nat /\ Acked(L) \in Nat
  BY FitTypes, DistType, SeqModType
<1>3. /\ L.FRAMES[i] \in 1..L.loaded
      /\ Acked(L) < L.FRAMES[i]
      /\ L.FRAMES[i] = Acked(L) + 1 + Dist(L.LINKWS, i)
      /\ i = (L.FRAMES[i] - 1) % SeqMod
  BY SlotMessage
<1>4. L.FRAMES[i] <= Acked(L) + LINKWINDOW
  BY <1>2, <1>3, Sizes
<1> QED
  BY <1>1, <1>3, <1>4

\* ResendOne sends the oldest frame of the window again.
LEMMA ResendOneGoes ==
    ASSUME NEW L, Fit(L), NEW nr, nr = L.LINKWS
    PROVE  Goes(L, ResendOne(L, nr), 0)
<1> DEFINE C == [L EXCEPT !.IFrameRetryCounter = @ + 1, !.POLLSENT = FALSE]
           E == [C EXCEPT !.L2ACKREQ = FALSE, !.POLLSENT = TRUE, !.L2TIMER = TRUE]
           x == IFrame(C, nr, TRUE)
<1>1. /\ OK(L) /\ L \in Links /\ nr \in SeqNo /\ L.L2STATE >= 4
  BY FitTypes DEF Fit
<1>2. C \in Links /\ E \in Links
  <2>1. L.IFrameRetryCounter + 1 \in Nat
    BY <1>1 DEF Links
  <2> QED
    BY <1>1, <2>1 DEF Links
<1>3. SameWindow(L, C) /\ SameWindow(L, E)
  BY <1>1 DEF Links, SameWindow
<1>4. OK(C) /\ OK(E)
  BY <1>1, <1>2, <1>3, SameWindowOK
<1>5. /\ C.RX_Q = L.RX_Q /\ C.RXFRAMES = L.RXFRAMES /\ C.LINKNR = L.LINKNR
      /\ C.L2STATE = L.L2STATE /\ (C.DISCPENDING => L.DISCPENDING)
      /\ C.LINKWS = L.LINKWS /\ C.queued = L.queued
      /\ C.FRAMES = L.FRAMES
      /\ E.RX_Q = L.RX_Q /\ E.RXFRAMES = L.RXFRAMES /\ E.LINKNR = L.LINKNR
      /\ E.L2STATE = L.L2STATE /\ (E.DISCPENDING => L.DISCPENDING)
      /\ E.LINKWS = L.LINKWS /\ E.queued = L.queued /\ E.loaded = L.loaded
  BY <1>1 DEF Links
<1>6. x = IFrame(L, nr, TRUE)
  BY <1>5 DEF IFrame
<1>7. ResendOne(L, nr) = IF TooManyRepeats(L) THEN CloseRepeating(L)
                         ELSE IF L.FRAMES[nr] = NoMsg THEN Silent(C)
                         ELSE [link |-> E, out |-> << x >>]
  BY DEF ResendOne
<1>8. x \in Frames
  BY <1>1, <1>2, IFrameType
<1> HIDE DEF C, E, x
<1>9. Moves(L, C, 0) /\ Moves(L, E, 0)
  BY <1>1, <1>3, <1>4, <1>5, MovesIntro
<1>10. CASE L.FRAMES[nr] # NoMsg
  <2>1. Dist(L.LINKWS, nr) < LINKWINDOW
    BY <1>1, DistArith, Sizes, SeqModType
  <2>2. /\ x.m \in 1..L.loaded /\ Acked(L) < x.m
        /\ x.m <= Acked(L) + LINKWINDOW
        /\ x.ns = (x.m - 1) % SeqMod /\ x.nr = L.LINKNR
    BY <1>1, <1>6, <1>10, <2>1, SlotSent
  <2>3. Acked(E) = Acked(L)
    BY <1>9 DEF Moves
  <2>4. << x >> \in Seq(Frames) /\ Len(<< x >>) = 1 /\ << x >>[1] = x
    BY <1>8
  <2>5. Sent([link |-> E, out |-> << x >>])
    BY <1>5, <2>2, <2>3, <2>4 DEF Sent
  <2>6. Goes(L, [link |-> E, out |-> << x >>], 0)
    BY <1>9, <2>4, <2>5 DEF Goes
  <2> QED
    BY <1>7, <1>10, <2>6, CloseRepeatingGoes
<1>11. CASE L.FRAMES[nr] = NoMsg
  BY <1>7, <1>9, <1>11, CloseRepeatingGoes, SilentGoes
<1> QED
  BY <1>10, <1>11

\* PollAnswered moves LINKNS back to N(R), and no message.
LEMMA PollAnsweredGoes ==
    ASSUME NEW L, Fit(L), NEW f, f.nr \in SeqNo
    PROVE  Goes(L, PollAnswered(L, f), 0)
<1> DEFINE c == IF L.LINKWS # L.LINKNS THEN L.IFrameRetryCounter + 1
                ELSE L.IFrameRetryCounter
           G == [L EXCEPT !.LINKNS = f.nr, !.L2RETRIES = 0, !.L2TIMER = FALSE,
                          !.POLLSENT = FALSE, !.IFrameRetryCounter = c]
           R == IF ~L.POLLSENT THEN L ELSE G
           N == [R EXCEPT !.L2TIMER = R.L2TIMER \/ f.type = "RNR"]
<1>1. /\ OK(L) /\ L \in Links /\ L.L2STATE >= 4
  BY FitTypes DEF Fit
<1>2. c \in Nat
  BY <1>1 DEF Links
<1> HIDE DEF c
<1>3. OK(G)
  BY <1>1, <1>2, GoBack
<1>4. /\ SameWindow(L, G)
      /\ G.LINKWS = L.LINKWS /\ G.queued = L.queued
      /\ G.RX_Q = L.RX_Q /\ G.RXFRAMES = L.RXFRAMES /\ G.LINKNR = L.LINKNR
      /\ G.L2STATE = L.L2STATE /\ (G.DISCPENDING => L.DISCPENDING)
  BY <1>1 DEF Links, SameWindow
<1> HIDE DEF G
<1>5. Moves(L, G, 0)
  BY <1>1, <1>3, <1>4, MovesIntro
<1>6. Moves(L, R, 0)
  BY <1>5, MovesSelf
<1>7. PollAnswered(L, f) =
        IF L.POLLSENT /\ L.LINKWS # L.LINKNS /\ TooManyRepeats(L)
        THEN CloseRepeating(L) ELSE Silent(N)
  BY DEF PollAnswered, Repeats, G, c
<1> HIDE DEF R
<1>8. (R.L2TIMER \/ f.type = "RNR") \in BOOLEAN
  BY Zenon
<1>9. Moves(R, N, 0)
  <2> DEFINE b == R.L2TIMER \/ f.type = "RNR"
  <2>1. Fit(R) /\ b \in BOOLEAN
    BY <1>6, <1>8 DEF Moves
  <2>2. N = [R EXCEPT !.L2TIMER = b]
    OBVIOUS
  <2> HIDE DEF N, b
  <2>3. Moves(R, [R EXCEPT !.L2TIMER = b], 0)
    BY <2>1, FlagsMove
  <2> QED
    BY <2>2, <2>3
<1> HIDE DEF N
<1>10. Moves(L, N, 0)
  BY <1>6, <1>9, MovesTrans
<1> QED
  BY <1>7, <1>10, CloseRepeatingGoes, SilentGoes

\* SFRAME on the entry after SDNRCHK.
LEMMA SFRAMEGoes ==
    ASSUME NEW L, Fit(L), NEW f \in Frames, NEW busy \in BOOLEAN,
           NEW recent \in BOOLEAN, ~(f.type = "SREJ" /\ ~f.pf) => f.nr = L.LINKWS
    PROVE  Goes(L, SFRAME(L, f, busy, recent), 0)
<1> DEFINE N == NoteRNR(L, f)
<1>1. Moves(L, N, 0)
  BY NoteRNRMoves
<1>2. Fit(N) /\ N.LINKWS = L.LINKWS
  BY <1>1 DEF Moves
<1>3. SFRAME(L, f, busy, recent) =
        IF f.type = "SREJ" /\ (f.cmd \/ ~f.pf) THEN Silent(L)
        ELSE IF f.type = "SREJ" /\ f.nr # L.LINKNS THEN ResendOne(L, f.nr)
        ELSE IF f.cmd THEN AnswerCommand(N, busy, recent)
        ELSE IF f.pf THEN PollAnswered(N, f)
        ELSE Silent(N)
  BY DEF SFRAME
<1> HIDE DEF N
<1>4. Goes(L, Silent(L), 0) /\ Goes(L, Silent(N), 0)
  BY <1>1, MovesSelf, SilentGoes
<1>5. f.nr = L.LINKWS => Goes(L, ResendOne(L, f.nr), 0)
  BY ResendOneGoes
<1>6. Goes(L, AnswerCommand(N, busy, recent), 0)
  BY <1>1, <1>2, AnswerCommandGoes, GoesAfter
<1>7. Goes(L, PollAnswered(N, f), 0)
  <2>1. f.nr \in SeqNo
    BY DEF Frames
  <2> QED
    BY <1>1, <1>2, <2>1, PollAnsweredGoes, GoesAfter
<1> QED
  BY <1>3, <1>4, <1>5, <1>6, <1>7
-----------------------------------------------------------------------------
(* The send pass.                                                          *)

\* LoadFrames fills the window above its lower edge.
LEMMA LoadFramesMoves ==
    ASSUME NEW L, Fit(L)
    PROVE  Moves(L, LoadFrames(L), 0)
<1> DEFINE N == LoadFrames(L)
<1>1. /\ Covered /\ OK(L) /\ L \in Links /\ L.L2STATE >= 4
  BY FitTypes DEF Fit
<1>2. OK(N) /\ Acked(N) = Acked(L) /\ L.loaded <= N.loaded
  BY <1>1, LoadFramesOK
<1>3. /\ N.LINKWS = L.LINKWS /\ N.queued = L.queued
      /\ N.RX_Q = L.RX_Q /\ N.RXFRAMES = L.RXFRAMES /\ N.LINKNR = L.LINKNR
      /\ N.L2STATE = L.L2STATE /\ (N.DISCPENDING => L.DISCPENDING)
  BY <1>1 DEF LoadFrames, Links
<1> HIDE DEF N
<1>4. Moves(L, N, 0)
  BY <1>1, <1>2, <1>3, MovesIntro
<1> QED
  BY <1>4 DEF N

\* The frames from N(S) on, up to the end of the window.
LEMMA SendFramesGoes ==
    ASSUME NEW L, Fit(L), Dist(L.LINKWS, L.LINKNS) < LINKWINDOW
    PROVE  Goes(L, SendFrames(L), 0)
<1> DEFINE w == LINKWINDOW - Dist(L.LINKWS, L.LINKNS)
           S == {n \in 0..w : \/ n = w
                              \/ L.FRAMES[Plus(L.LINKNS, n)] = NoMsg}
           n == Sendable(L)
           d == Dist(L.LINKWS, L.LINKNS)
           q == [k \in 1..n |-> IFrame(L, Plus(L.LINKNS, k - 1), k = n)]
           N == [L EXCEPT !.LINKNS = Plus(@, n), !.L2ACKREQ = FALSE,
                                 !.POLLSENT = TRUE, !.L2TIMER = TRUE]
<1>1. /\ OK(L) /\ L \in Links /\ L.LINKNS \in SeqNo
      /\ L.LINKWS \in SeqNo /\ L.L2STATE >= 4
  BY FitTypes DEF Fit, Links
<1>2. d \in SeqNo /\ d \in Nat /\ d <= LINKWINDOW /\ LINKWINDOW < SeqMod
  BY <1>1, DistType, SeqModType, LinkWindowAssumption
<1>3. w \in Nat /\ w + d = LINKWINDOW /\ w \in 0..SeqMod /\ w \in S
  BY <1>2, Sizes, SeqModType
<1>4. S \in SUBSET (0..SeqMod)
  BY <1>3, SeqModType
<1>5. Least(S) \in S /\ \A k \in S : Least(S) <= k
  BY <1>3, <1>4, LeastIsLeast
<1>6. n = 0 \/ n = Least(S)
  BY DEF Sendable
<1>7. n \in 0..w /\ \A k \in 0..(n - 1) : L.FRAMES[Plus(L.LINKNS, k)] # NoMsg
  <2>1. CASE n = 0
    BY <1>3, <2>1
  <2>2. CASE n # 0
    <3>1. n \in 0..w /\ \A k \in S : n <= k
      <4> HIDE DEF n
      <4> QED
        BY <1>5, <1>6, <2>2
    <3>2. ASSUME NEW k \in 0..(n - 1)
          PROVE  k \in 0..w /\ k # w /\ k \notin S
      <4> HIDE DEF n, S
      <4> QED
        BY <1>3, <2>2, <3>1
    <3> QED
      BY <3>1, <3>2
  <2> QED
    BY <2>1, <2>2
<1> HIDE DEF n
<1>8. CASE n = 0
  <2>1. SendFrames(L) = Silent(L)
    BY <1>8 DEF SendFrames, Silent, n
  <2> QED
    BY <2>1, MovesSelf, SilentGoes
<1>9. CASE n # 0
  <2>1. SendFrames(L) = [link |-> N, out |-> q]
    BY <1>9 DEF SendFrames, n
  <2>2. ResultOK(SendFrames(L))
    BY <1>1, SendFramesOK
  <2>3. /\ N.LINKWS = L.LINKWS /\ N.queued = L.queued /\ N.FRAMES = L.FRAMES
        /\ N.SDTSLOT = L.SDTSLOT /\ N.loaded = L.loaded
        /\ N.RX_Q = L.RX_Q /\ N.RXFRAMES = L.RXFRAMES /\ N.LINKNR = L.LINKNR
        /\ N.L2STATE = L.L2STATE /\ (N.DISCPENDING => L.DISCPENDING)
    BY <1>1 DEF Links
  <2>4. OK(N) /\ q \in Seq(Frames)
    BY <2>1, <2>2 DEF ResultOK
  <2>5. ASSUME NEW k \in 1..n
        PROVE  /\ q[k].m \in 1..L.loaded /\ Acked(L) < q[k].m
               /\ q[k].m <= Acked(L) + LINKWINDOW
               /\ q[k].ns = (q[k].m - 1) % SeqMod /\ q[k].nr = L.LINKNR
    <3> DEFINE i == Plus(L.LINKNS, k - 1)
    <3>1. k - 1 \in 0..(n - 1) /\ k - 1 \in 0..SeqMod /\ d + (k - 1) < LINKWINDOW
          /\ d + (k - 1) < SeqMod
      BY <1>2, <1>3, <1>7, SeqModType
    <3>2. i \in SeqNo
      BY <1>1, <3>1, PlusType
    <3>3. Dist(L.LINKWS, i) = d + (k - 1)
      BY <1>1, <3>1, DistPlus
    <3>4. L.FRAMES[i] # NoMsg
      BY <1>7, <3>1
    <3>5. q[k] = IFrame(L, i, k = n)
      OBVIOUS
    <3> HIDE DEF q, i
    <3> QED
      BY <3>1, <3>2, <3>3, <3>4, <3>5, SlotSent
  <2>6. Len(q) = n
    <3>1. DOMAIN q = 1..n
      OBVIOUS
    <3> HIDE DEF q
    <3>2. DOMAIN q = 1..Len(q) /\ Len(q) \in Nat
      BY <2>4, LenProperties
    <3>3. n \in Nat
      BY <1>3, <1>7
    <3>4. 1..Len(q) = 1..n
      BY <3>1, <3>2
    <3> QED
      BY <3>2, <3>3, <3>4, SameInterval
  <2> HIDE DEF N, q
  <2>7. SameWindow(L, N) /\ Acked(N) = Acked(L)
    BY <2>3 DEF SameWindow, Acked, Held
  <2>8. Moves(L, N, 0)
    BY <1>1, <2>3, <2>4, <2>7, MovesIntro
  <2>9. Sent([link |-> N, out |-> q])
    BY <2>3, <2>5, <2>6, <2>7 DEF Sent
  <2>10. Goes(L, [link |-> N, out |-> q], 0)
    BY <2>4, <2>8, <2>9 DEF Goes
  <2> QED
    BY <2>1, <2>10
<1> QED
  BY <1>8, <1>9

\* The send pass sends frames of the window only.
LEMMA SDETXGoes ==
    ASSUME NEW L, Fit(L)
    PROVE  Goes(L, SDETX(L), 0)
<1>1. Goes(L, Silent(L), 0)
  BY MovesSelf, SilentGoes
<1>2. Moves(L, LoadFrames(L), 0)
  BY LoadFramesMoves
<1>3. ASSUME Dist(L.LINKWS, L.LINKNS) < LINKWINDOW
      PROVE  Goes(L, SendFrames(LoadFrames(L)), 0)
  <2> DEFINE N == LoadFrames(L)
  <2>1. N.LINKWS = L.LINKWS /\ N.LINKNS = L.LINKNS
    BY FitTypes, LoadFramesOK
  <2>2. Fit(N) /\ Dist(N.LINKWS, N.LINKNS) < LINKWINDOW
    BY <1>2, <1>3, <2>1 DEF Moves
  <2> HIDE DEF N
  <2>3. Goes(N, SendFrames(N), 0)
    BY <2>2, SendFramesGoes
  <2> QED
    BY <1>2, <2>3, GoesAfter DEF N
<1>4. \/ Dist(L.LINKWS, L.LINKNS) >= LINKWINDOW
      \/ Dist(L.LINKWS, L.LINKNS) < LINKWINDOW
  <2>1. L.LINKWS \in SeqNo /\ L.LINKNS \in SeqNo
    BY FitTypes DEF Links
  <2> QED
    BY <2>1, DistType, SeqModType, Sizes
<1>5. SDETX(L) = IF Dist(L.LINKWS, L.LINKNS) >= LINKWINDOW THEN Silent(L)
                 ELSE SendFrames(LoadFrames(L))
  BY DEF SDETX, Silent
<1> QED
  BY <1>1, <1>3, <1>4, <1>5
-----------------------------------------------------------------------------
(* The two ends and what is on the way between them.                       *)

\* What holds of L's messages on their way in q to M, of which M has m in
\* hand (0 for none), when a of them are acknowledged: M has taken no more
\* than a window beyond a, and no more than a window beyond any frame that is
\* still to arrive.
Coming(a, n, M, q, m) ==
    /\ Below(M, a + LINKWINDOW) /\ m <= a + LINKWINDOW
    /\ Below(M, n) /\ m <= n
    /\ \A k \in 1..Len(q) : IsData(q[k]) =>
          /\ q[k].m \in 1..n /\ q[k].m <= a + LINKWINDOW
          /\ q[k].ns = (q[k].m - 1) % SeqMod
          /\ Below(M, q[k].m + LINKWINDOW - 1) /\ m <= q[k].m + LINKWINDOW - 1
          /\ \A j \in 1..(k - 1) : IsData(q[j])
                => q[j].m <= q[k].m + LINKWINDOW - 1

\* As Coming, for the number acknowledged; once L is down that may be any number
\* up to what M has taken.
Data(L, M, q, m) ==
    \E a \in 0..Taken(M) : /\ L.L2STATE >= 4 => a = Acked(L)
                           /\ Coming(a, L.loaded, M, q, m)

\* What holds of the acknowledgements on their way in q to L: none is for more
\* than M has taken, and they arrive in the order they were sent.  M has taken
\* nothing that L did not load.
Acks(L, M, q) ==
    /\ Acked(L) <= Taken(M) /\ Taken(M) <= Acked(L) + LINKWINDOW
    /\ Taken(M) <= L.loaded
    /\ \A k \in 1..Len(q) : IsAck(q[k]) =>
          /\ Dist(L.LINKWS, q[k].nr) <= Taken(M) - Acked(L)
          /\ \A j \in 1..(k - 1) : IsAck(q[j])
                => Dist(L.LINKWS, q[j].nr) <= Dist(L.LINKWS, q[k].nr)

\* L's messages to M in d, and M's acknowledgements in k.
Way(L, M, d, k, m) == /\ M.L2STATE >= 4 => Data(L, M, d, m)
                      /\ L.L2STATE >= 4 => Acks(L, M, k)

\* A sequence without its first frame.
LEMMA TailIs ==
    ASSUME NEW q \in Seq(Frames), q # << >>
    PROVE  /\ Tail(q) \in Seq(Frames) /\ Head(q) \in Frames /\ Head(q) = q[1]
           /\ Len(q) \in Nat /\ Len(q) >= 1 /\ Len(Tail(q)) = Len(q) - 1
           /\ \A k \in 1..Len(Tail(q)) : /\ Tail(q)[k] = q[k + 1]
                                         /\ k + 1 \in 1..Len(q)
<1>1. Len(q) \in Nat /\ Len(q) # 0
  BY LenProperties, EmptySeq
<1>2. /\ Head(q) \in Frames /\ Tail(q) \in Seq(Frames)
      /\ Len(Tail(q)) = Len(q) - 1
      /\ \A i \in 1..Len(Tail(q)) : Tail(q)[i] = q[i + 1]
  BY HeadTailProperties
<1>3. Head(q) = q[1]
  BY <1>1
<1>4. \A k \in 1..Len(Tail(q)) : k + 1 \in 1..Len(q)
  BY <1>1, <1>2
<1>5. Len(q) >= 1
  BY <1>1
<1> QED
  BY <1>1, <1>2, <1>3, <1>4, <1>5

\* What the air keeps of two sequences.
LEMMA ClipIs ==
    ASSUME NEW q \in Seq(Frames), NEW o \in Seq(Frames), NEW c, c = Clip(q \o o)
    PROVE  /\ c \in Seq(Frames) /\ Len(c) \in Nat
           /\ \A k \in 1..Len(c) :
                 \/ k \in 1..Len(q) /\ c[k] = q[k]
                 \/ /\ k > Len(q) /\ k - Len(q) \in 1..Len(o)
                    /\ c[k] = o[k - Len(q)]
<1> DEFINE z == q \o o
           n == IF Len(z) < AirCap THEN Len(z) ELSE AirCap
<1>1. /\ Len(q) \in Nat /\ Len(o) \in Nat
  BY LenProperties
<1>2. /\ z \in Seq(Frames) /\ Len(z) = Len(q) + Len(o)
      /\ \A i \in 1..(Len(q) + Len(o)) :
            z[i] = IF i <= Len(q) THEN q[i] ELSE o[i - Len(q)]
  BY ConcatProperties
<1> HIDE DEF z
<1>3. Len(z) \in Nat /\ n \in Nat /\ n <= Len(z)
  BY <1>1, <1>2, AirCapAssumption
<1>4. \A i \in 1..n : z[i] \in Frames
  <2>1. z \in [1..Len(z) -> Frames]
    BY <1>2, LenProperties
  <2> HIDE DEF n
  <2> QED
    BY <1>3, <2>1
<1>5. c = SubSeq(z, 1, n)
  BY DEF Clip, z
<1> HIDE DEF n
<1>6. /\ SubSeq(z, 1, n) \in Seq(Frames)
      /\ Len(SubSeq(z, 1, n)) = IF 1 <= n THEN n - 1 + 1 ELSE 0
      /\ \A i \in 1..(n - 1 + 1) : SubSeq(z, 1, n)[i] = z[1 + i - 1]
  <2>1. 1 \in Int /\ n \in Int
    BY <1>3
  <2> QED
    BY <1>4, <2>1, SubSeqProperties
<1>7. Len(c) = n
  BY <1>3, <1>5, <1>6
<1>8. ASSUME NEW k \in 1..Len(c)
      PROVE  \/ k \in 1..Len(q) /\ c[k] = q[k]
             \/ /\ k > Len(q) /\ k - Len(q) \in 1..Len(o)
                /\ c[k] = o[k - Len(q)]
  <2>1. k \in 1..(n - 1 + 1) /\ 1 + k - 1 = k /\ k \in 1..(Len(q) + Len(o))
    BY <1>1, <1>2, <1>3, <1>7
  <2>2. c[k] = z[k]
    BY <1>5, <1>6, <2>1
  <2>3. z[k] = IF k <= Len(q) THEN q[k] ELSE o[k - Len(q)]
    BY <1>2, <2>1
  <2> QED
    BY <1>1, <2>1, <2>2, <2>3
<1> QED
  BY <1>3, <1>5, <1>6, <1>7, <1>8

\* An entry whose receiving side has its types.
Receiver(M) == Taken(M) \in Nat /\ M.RXFRAMES \in [SeqNo -> Nat]

\* What is not after b is not after c, if b is not after c.
LEMMA BelowMore ==
    ASSUME NEW M, Receiver(M), NEW b \in Nat, NEW c \in Nat, b <= c, Below(M, b)
    PROVE  Below(M, c)
<1>1. Taken(M) \in Nat /\ \A i \in SeqNo : M.RXFRAMES[i] \in Nat
  BY DEF Receiver
<1> QED
  BY <1>1 DEF Below

\* More may be acknowledged, and more loaded.
LEMMA ComingMore ==
    ASSUME NEW M, Receiver(M), NEW q \in Seq(Frames), NEW m \in Nat,
           NEW a \in Nat, NEW n \in Nat, Coming(a, n, M, q, m),
           NEW b \in Nat, a <= b, NEW p \in Nat, n <= p
    PROVE  Coming(b, p, M, q, m)
<1>1. /\ a + LINKWINDOW \in Nat /\ b + LINKWINDOW \in Nat
      /\ a + LINKWINDOW <= b + LINKWINDOW
  BY Sizes
<1>2. Below(M, b + LINKWINDOW) /\ m <= b + LINKWINDOW
  BY <1>1, BelowMore DEF Coming
<1>3. Below(M, p) /\ m <= p
  BY BelowMore DEF Coming
<1>4. ASSUME NEW k \in 1..Len(q), IsData(q[k])
      PROVE  /\ q[k].m \in 1..p /\ q[k].m <= b + LINKWINDOW
             /\ q[k].ns = (q[k].m - 1) % SeqMod
             /\ Below(M, q[k].m + LINKWINDOW - 1) /\ m <= q[k].m + LINKWINDOW - 1
             /\ \A j \in 1..(k - 1) : IsData(q[j])
                   => q[j].m <= q[k].m + LINKWINDOW - 1
  <2>1. /\ q[k].m \in 1..n /\ q[k].m <= a + LINKWINDOW
        /\ q[k].ns = (q[k].m - 1) % SeqMod
        /\ Below(M, q[k].m + LINKWINDOW - 1) /\ m <= q[k].m + LINKWINDOW - 1
        /\ \A j \in 1..(k - 1) : IsData(q[j])
              => q[j].m <= q[k].m + LINKWINDOW - 1
    BY <1>4 DEF Coming
  <2>2. q[k].m \in 1..p /\ q[k].m <= b + LINKWINDOW
    BY <1>1, <2>1
  <2> QED
    BY <2>1, <2>2
<1> QED
  BY <1>2, <1>3, <1>4 DEF Coming

\* A frame is taken off the air.
LEMMA ComingTail ==
    ASSUME NEW M, Receiver(M), NEW q \in Seq(Frames), q # << >>,
           NEW a \in Nat, NEW n \in Nat, Coming(a, n, M, q, 0),
           NEW h, h = Head(q), NEW m, m = IF IsData(h) THEN h.m ELSE 0
    PROVE  /\ m \in Nat /\ Coming(a, n, M, Tail(q), m) /\ Coming(a, n, M, Tail(q), 0)
           /\ IsData(h) => /\ h.m >= 1 /\ h.m <= n /\ h.m <= a + LINKWINDOW
                           /\ h.ns = (h.m - 1) % SeqMod
                           /\ Below(M, h.m + LINKWINDOW - 1)
<1> DEFINE t == Tail(q)
<1>1. /\ t \in Seq(Frames) /\ h \in Frames /\ h = q[1]
      /\ Len(q) \in Nat /\ Len(q) >= 1 /\ Len(t) = Len(q) - 1
      /\ \A k \in 1..Len(t) : t[k] = q[k + 1] /\ k + 1 \in 1..Len(q)
  BY TailIs
<1>2. IsData(h) => /\ h.m \in 1..n /\ h.m <= a + LINKWINDOW
                   /\ h.ns = (h.m - 1) % SeqMod
                   /\ Below(M, h.m + LINKWINDOW - 1)
  <2>1. 1 \in 1..Len(q)
    BY <1>1
  <2> QED
    BY <1>1, <2>1 DEF Coming
<1>3. m \in Nat /\ m <= a + LINKWINDOW /\ m <= n
  BY <1>2, Sizes
<1> HIDE DEF t
<1>4. ASSUME NEW k \in 1..Len(t), IsData(t[k])
      PROVE  /\ t[k].m \in 1..n /\ t[k].m <= a + LINKWINDOW
             /\ t[k].ns = (t[k].m - 1) % SeqMod
             /\ Below(M, t[k].m + LINKWINDOW - 1)
             /\ m <= t[k].m + LINKWINDOW - 1 /\ 0 <= t[k].m + LINKWINDOW - 1
             /\ \A j \in 1..(k - 1) : IsData(t[j])
                   => t[j].m <= t[k].m + LINKWINDOW - 1
  <2>1. t[k] = q[k + 1] /\ k + 1 \in 1..Len(q) /\ k \in Nat
    BY <1>1
  <2>2. /\ q[k + 1].m \in 1..n /\ q[k + 1].m <= a + LINKWINDOW
        /\ q[k + 1].ns = (q[k + 1].m - 1) % SeqMod
        /\ Below(M, q[k + 1].m + LINKWINDOW - 1)
        /\ \A j \in 1..(k + 1 - 1) : IsData(q[j])
              => q[j].m <= q[k + 1].m + LINKWINDOW - 1
    BY <1>4, <2>1 DEF Coming
  <2>3. m <= t[k].m + LINKWINDOW - 1 /\ 0 <= t[k].m + LINKWINDOW - 1
    <3>1. 1 \in 1..(k + 1 - 1)
      BY <2>1
    <3>2. IsData(h) => h.m <= t[k].m + LINKWINDOW - 1
      BY <1>1, <2>1, <2>2, <3>1
    <3>3. 0 <= t[k].m + LINKWINDOW - 1
      BY <2>1, <2>2, Sizes
    <3> QED
      BY <3>2, <3>3
  <2>4. ASSUME NEW j \in 1..(k - 1), IsData(t[j])
        PROVE  t[j].m <= t[k].m + LINKWINDOW - 1
    <3>1. j \in 1..Len(t) /\ j + 1 \in 1..(k + 1 - 1)
      BY <1>1, <2>1
    <3>2. t[j] = q[j + 1]
      BY <1>1, <3>1
    <3> QED
      BY <2>1, <2>2, <2>4, <3>1, <3>2
  <2> QED
    BY <2>1, <2>2, <2>3, <2>4
<1>5. Below(M, a + LINKWINDOW) /\ Below(M, n) /\ 0 <= n /\ 0 <= a + LINKWINDOW
  BY Sizes DEF Coming
<1>6. Coming(a, n, M, t, m) /\ Coming(a, n, M, t, 0)
  BY <1>3, <1>4, <1>5 DEF Coming
<1>7. IsData(h) => h.m >= 1 /\ h.m <= n
  BY <1>2
<1> QED
  BY <1>2, <1>3, <1>6, <1>7 DEF t

\* The receiver does what it may with the message it has in hand.
LEMMA ComingMoves ==
    ASSUME NEW M, NEW N, NEW m \in Nat, Moves(M, N, m), NEW q \in Seq(Frames),
           NEW a \in Nat, NEW n \in Nat, Coming(a, n, M, q, m)
    PROVE  Coming(a, n, N, q, 0)
<1>1. \A b \in Nat : Below(M, b) /\ m <= b => Below(N, b)
  BY DEF Moves
<1>2. a + LINKWINDOW \in Nat /\ 0 <= a + LINKWINDOW /\ 0 <= n
  BY Sizes
<1>3. Below(N, a + LINKWINDOW) /\ Below(N, n)
  BY <1>1, <1>2 DEF Coming
<1>4. ASSUME NEW k \in 1..Len(q), IsData(q[k])
      PROVE  /\ Below(N, q[k].m + LINKWINDOW - 1)
             /\ 0 <= q[k].m + LINKWINDOW - 1
  <2>1. /\ q[k].m \in 1..n /\ Below(M, q[k].m + LINKWINDOW - 1)
        /\ m <= q[k].m + LINKWINDOW - 1
    BY <1>4 DEF Coming
  <2>2. q[k].m + LINKWINDOW - 1 \in Nat
    BY <2>1, Sizes
  <2> QED
    BY <1>1, <2>1, <2>2
<1> QED
  BY <1>2, <1>3, <1>4 DEF Coming

\* The sender adds frames of its window, and the air keeps some of them.
LEMMA ComingSent ==
    ASSUME NEW M, Receiver(M), NEW q \in Seq(Frames), NEW o \in Seq(Frames),
           NEW a \in Nat, NEW n \in Nat, Coming(a, n, M, q, 0),
           \A k \in 1..Len(o) : IsData(o[k]) =>
              /\ o[k].m \in 1..n /\ a < o[k].m
              /\ o[k].m <= a + LINKWINDOW
              /\ o[k].ns = (o[k].m - 1) % SeqMod,
           NEW c, c = Clip(q \o o)
    PROVE  Coming(a, n, M, c, 0)
<1>1. /\ c \in Seq(Frames) /\ Len(c) \in Nat
      /\ \A k \in 1..Len(c) :
           \/ k \in 1..Len(q) /\ c[k] = q[k]
           \/ /\ k > Len(q) /\ k - Len(q) \in 1..Len(o)
              /\ c[k] = o[k - Len(q)]
  BY ClipIs, ZenonT(60)
<1>2. Len(q) \in Nat
  BY LenProperties
<1>3. Below(M, a + LINKWINDOW) /\ 0 <= a + LINKWINDOW /\ Below(M, n) /\ 0 <= n
  BY Sizes DEF Coming
<1>4. ASSUME NEW k \in 1..Len(c), IsData(c[k])
      PROVE  c[k].m \in 1..n /\ c[k].m <= a + LINKWINDOW
             /\ c[k].ns = (c[k].m - 1) % SeqMod
             /\ (k > Len(q) => a < c[k].m)
             /\ (k <= Len(q) => c[k] = q[k] /\ k \in 1..Len(q))
  <2>1. CASE k \in 1..Len(q) /\ c[k] = q[k]
    <3>1. /\ q[k].m \in 1..n /\ q[k].m <= a + LINKWINDOW
          /\ q[k].ns = (q[k].m - 1) % SeqMod
      BY <1>4, <2>1 DEF Coming
    <3> QED
      BY <1>2, <2>1, <3>1
  <2>2. CASE /\ k > Len(q) /\ k - Len(q) \in 1..Len(o)
             /\ c[k] = o[k - Len(q)]
    BY <1>2, <1>4, <2>2
  <2> QED
    BY <1>1, <2>1, <2>2
<1>5. ASSUME NEW k \in 1..Len(c), IsData(c[k])
      PROVE  /\ Below(M, c[k].m + LINKWINDOW - 1)
             /\ 0 <= c[k].m + LINKWINDOW - 1
             /\ \A j \in 1..(k - 1) : IsData(c[j])
                   => c[j].m <= c[k].m + LINKWINDOW - 1
  <2>1. c[k].m \in Nat /\ c[k].m >= 1 /\ c[k].m + LINKWINDOW - 1 \in Nat
    <3>1. c[k].m \in 1..n
      BY <1>4, <1>5
    <3>2. c[k].m \in Nat /\ c[k].m >= 1
      BY <3>1
    <3> QED BY <3>2, Sizes
  <2>2. \A j \in 1..(k - 1) : j \in 1..Len(c)
    BY <1>1
  <2>3. CASE k <= Len(q)
    <3>1. c[k] = q[k] /\ k \in 1..Len(q)
      BY <1>4, <1>5, <2>3
    <3>2. /\ Below(M, q[k].m + LINKWINDOW - 1)
          /\ \A j \in 1..(k - 1) : IsData(q[j])
                   => q[j].m <= q[k].m + LINKWINDOW - 1
      BY <1>5, <3>1 DEF Coming
    <3>3. ASSUME NEW j \in 1..(k - 1), IsData(c[j])
          PROVE  c[j].m <= c[k].m + LINKWINDOW - 1
      <4>1. j \in 1..Len(c) /\ j <= Len(q)
        BY <1>2, <2>2, <2>3
      <4>2. c[j] = q[j]
        BY <1>4, <3>3, <4>1
      <4> QED
        BY <3>1, <3>2, <3>3, <4>2
    <3>4. Below(M, c[k].m + LINKWINDOW - 1)
      BY <3>1, <3>2
    <3>5. 0 <= c[k].m + LINKWINDOW - 1
      BY <2>1
    <3> QED
      BY <3>3, <3>4, <3>5
  <2>4. CASE ~(k <= Len(q))
    <3>1. a < c[k].m
      BY <1>2, <1>4, <1>5, <2>4
    <3>2. a + LINKWINDOW \in Nat /\ a + LINKWINDOW <= c[k].m + LINKWINDOW - 1
      BY <2>1, <3>1, Sizes
    <3>3. Below(M, c[k].m + LINKWINDOW - 1)
      BY <1>3, <2>1, <3>2, BelowMore
    <3>4. ASSUME NEW j \in 1..(k - 1), IsData(c[j])
          PROVE  c[j].m <= c[k].m + LINKWINDOW - 1
      <4>1. c[j].m \in 1..n /\ c[j].m <= a + LINKWINDOW
        BY <1>4, <2>2, <3>4
      <4> QED
        BY <2>1, <3>2, <4>1
    <3>5. 0 <= c[k].m + LINKWINDOW - 1
      BY <2>1
    <3> QED
      BY <3>3, <3>4, <3>5
  <2> QED
    BY <2>3, <2>4
<1> QED
  BY <1>3, <1>4, <1>5 DEF Coming
-----------------------------------------------------------------------------
(* Acknowledgements on the way.                                            *)

\* One is taken off the air: it acknowledges no more than those behind it.
LEMMA AcksTail ==
    ASSUME NEW L, NEW M, NEW q \in Seq(Frames), q # << >>, Acks(L, M, q),
           NEW h, h = Head(q)
    PROVE  /\ Acks(L, M, Tail(q))
           /\ IsAck(h) => /\ Dist(L.LINKWS, h.nr) <= Taken(M) - Acked(L)
                          /\ \A k \in 1..Len(Tail(q)) : IsAck(Tail(q)[k]) =>
                                Dist(L.LINKWS, h.nr) <= Dist(L.LINKWS, Tail(q)[k].nr)
<1> DEFINE t == Tail(q)
<1>1. /\ t \in Seq(Frames) /\ h = q[1]
      /\ Len(q) \in Nat /\ Len(q) >= 1 /\ Len(t) = Len(q) - 1
      /\ \A k \in 1..Len(t) : t[k] = q[k + 1] /\ k + 1 \in 1..Len(q)
  BY TailIs
<1> HIDE DEF t
<1>2. IsAck(h) => Dist(L.LINKWS, h.nr) <= Taken(M) - Acked(L)
  <2>1. 1 \in 1..Len(q)
    BY <1>1
  <2> QED
    BY <1>1, <2>1 DEF Acks
<1>3. ASSUME NEW k \in 1..Len(t), IsAck(t[k])
      PROVE  /\ Dist(L.LINKWS, t[k].nr) <= Taken(M) - Acked(L)
             /\ \A j \in 1..(k - 1) : IsAck(t[j])
                   => Dist(L.LINKWS, t[j].nr) <= Dist(L.LINKWS, t[k].nr)
             /\ IsAck(h) => Dist(L.LINKWS, h.nr) <= Dist(L.LINKWS, t[k].nr)
  <2>1. t[k] = q[k + 1] /\ k + 1 \in 1..Len(q) /\ k \in Nat
    BY <1>1
  <2>2. /\ Dist(L.LINKWS, q[k + 1].nr) <= Taken(M) - Acked(L)
        /\ \A j \in 1..(k + 1 - 1) : IsAck(q[j])
              => Dist(L.LINKWS, q[j].nr) <= Dist(L.LINKWS, q[k + 1].nr)
    BY <1>3, <2>1 DEF Acks
  <2>3. 1 \in 1..(k + 1 - 1)
    BY <2>1
  <2>4. IsAck(h) => Dist(L.LINKWS, h.nr) <= Dist(L.LINKWS, t[k].nr)
    BY <1>1, <2>1, <2>2, <2>3
  <2>5. ASSUME NEW j \in 1..(k - 1), IsAck(t[j])
        PROVE  Dist(L.LINKWS, t[j].nr) <= Dist(L.LINKWS, t[k].nr)
    <3>1. j \in 1..Len(t) /\ j + 1 \in 1..(k + 1 - 1)
      BY <1>1, <2>1
    <3>2. t[j] = q[j + 1]
      BY <1>1, <3>1
    <3> QED
      BY <2>1, <2>2, <2>5, <3>1, <3>2
  <2>6. Dist(L.LINKWS, t[k].nr) <= Taken(M) - Acked(L)
    BY <2>1, <2>2
  <2> QED
    BY <2>4, <2>5, <2>6
<1>4. Acks(L, M, t)
  BY <1>3 DEF Acks
<1>5. IsAck(h) => \A k \in 1..Len(t) : IsAck(t[k]) =>
                     Dist(L.LINKWS, h.nr) <= Dist(L.LINKWS, t[k].nr)
  BY <1>3
<1> QED
  BY <1>2, <1>4, <1>5 DEF t

\* The sender moves its window up to it.
LEMMA AcksMove ==
    ASSUME NEW L, Fit(L), NEW M, Receiver(M), NEW q \in Seq(Frames), Acks(L, M, q),
           NEW nr \in SeqNo, Dist(L.LINKWS, nr) <= Taken(M) - Acked(L),
           \A k \in 1..Len(q) : IsAck(q[k]) =>
              Dist(L.LINKWS, nr) <= Dist(L.LINKWS, q[k].nr),
           NEW A, A.LINKWS = nr, Acked(A) = Acked(L) + Dist(L.LINKWS, nr),
           A.loaded = L.loaded
    PROVE  Acks(A, M, q)
<1> DEFINE d == Dist(L.LINKWS, nr)
<1>1. L.LINKWS \in SeqNo /\ Acked(L) \in Nat /\ Taken(M) \in Nat
  BY FitTypes DEF Receiver
<1>2. d \in Nat
  BY <1>1, DistType, SeqModType
<1>3. ASSUME NEW k \in 1..Len(q)
      PROVE  q[k].nr \in SeqNo
  <2>1. q \in [1..Len(q) -> Frames]
    BY LenProperties
  <2>2. q[k] \in Frames
    BY <2>1
  <2> QED
    BY <2>2 DEF Frames
<1>4. ASSUME NEW k \in 1..Len(q), IsAck(q[k])
      PROVE  /\ Dist(nr, q[k].nr) = Dist(L.LINKWS, q[k].nr) - d
             /\ Dist(L.LINKWS, q[k].nr) \in Nat
  BY <1>1, <1>3, <1>4, DistShift, DistType, SeqModType
<1> HIDE DEF d
<1>5. Acked(A) = Acked(L) + d /\ d <= Taken(M) - Acked(L) /\ A.LINKWS = nr
  BY DEF d
<1>6. /\ Acked(A) <= Taken(M) /\ Taken(M) <= Acked(A) + LINKWINDOW
      /\ Taken(M) <= A.loaded
  <2>1. Taken(M) <= Acked(L) + LINKWINDOW /\ Taken(M) <= A.loaded
    BY DEF Acks
  <2> QED
    BY <1>1, <1>2, <1>5, <2>1, Sizes
<1>7. ASSUME NEW k \in 1..Len(q), IsAck(q[k])
      PROVE  /\ Dist(nr, q[k].nr) <= Taken(M) - Acked(A)
             /\ \A j \in 1..(k - 1) : IsAck(q[j])
                   => Dist(nr, q[j].nr) <= Dist(nr, q[k].nr)
  <2>1. /\ Dist(L.LINKWS, q[k].nr) <= Taken(M) - Acked(L)
        /\ \A j \in 1..(k - 1) : IsAck(q[j])
              => Dist(L.LINKWS, q[j].nr) <= Dist(L.LINKWS, q[k].nr)
    BY <1>7 DEF Acks
  <2>2. /\ Dist(nr, q[k].nr) = Dist(L.LINKWS, q[k].nr) - d
        /\ Dist(L.LINKWS, q[k].nr) \in Nat
    BY <1>4, <1>7
  <2>3. Dist(nr, q[k].nr) <= Taken(M) - Acked(A)
    BY <1>1, <1>2, <1>5, <2>1, <2>2
  <2>4. ASSUME NEW j \in 1..(k - 1), IsAck(q[j])
        PROVE  Dist(nr, q[j].nr) <= Dist(nr, q[k].nr)
    <3>1. j \in 1..Len(q)
      <4>1. Len(q) \in Nat
        BY LenProperties
      <4> QED
        BY <4>1
    <3>2. /\ Dist(nr, q[j].nr) = Dist(L.LINKWS, q[j].nr) - d
          /\ Dist(L.LINKWS, q[j].nr) \in Nat
      BY <1>4, <2>4, <3>1
    <3>3. Dist(L.LINKWS, q[j].nr) <= Dist(L.LINKWS, q[k].nr)
      BY <2>1, <2>4
    <3> QED
      BY <1>2, <2>2, <3>2, <3>3
  <2> QED
    BY <2>3, <2>4
<1> QED
  BY <1>5, <1>6, <1>7 DEF Acks

\* The receiver has taken more, and acknowledges all of it from now on.
LEMMA AcksSent ==
    ASSUME NEW L, Fit(L), NEW M, Receiver(M), NEW q \in Seq(Frames), Acks(L, M, q),
           NEW N, Fit(N), Taken(M) <= Taken(N), Taken(N) <= Acked(L) + LINKWINDOW,
           Taken(N) <= L.loaded, NEW o \in Seq(Frames),
           \A k \in 1..Len(o) : IsAck(o[k]) => o[k].nr = N.LINKNR,
           NEW c, c = Clip(q \o o)
    PROVE  Acks(L, N, c)
<1>1. /\ L.LINKWS \in SeqNo /\ Acked(L) \in Nat /\ Taken(M) \in Nat
      /\ Taken(N) \in Nat
  BY FitTypes DEF Receiver
<1>2. /\ c \in Seq(Frames) /\ Len(c) \in Nat
      /\ \A k \in 1..Len(c) :
           \/ k \in 1..Len(q) /\ c[k] = q[k]
           \/ /\ k > Len(q) /\ k - Len(q) \in 1..Len(o)
              /\ c[k] = o[k - Len(q)]
  BY ClipIs, ZenonT(60)
<1>3. Len(q) \in Nat
  BY LenProperties
<1>4. Acked(L) <= Taken(M) /\ Acked(L) <= Taken(N)
  <2>1. Acked(L) <= Taken(M)
    BY DEF Acks
  <2> QED
    BY <1>1, <2>1
<1>5. Dist(L.LINKWS, N.LINKNR) = Taken(N) - Acked(L)
  <2>1. L.LINKWS = Acked(L) % SeqMod /\ N.LINKNR = Taken(N) % SeqMod
    BY DEF Fit, Receives
  <2>2. 0 <= Taken(N) - Acked(L) /\ Taken(N) - Acked(L) < SeqMod
    <3>1. LINKWINDOW < SeqMod /\ LINKWINDOW \in Nat /\ SeqMod \in Nat
      BY LinkWindowAssumption, SeqModType
    <3> QED
      BY <1>1, <1>4, <3>1
  <2> QED
    BY <1>1, <2>1, <2>2, DistMod
<1>6. ASSUME NEW k \in 1..Len(c), IsAck(c[k])
      PROVE  /\ Dist(L.LINKWS, c[k].nr) \in Nat
             /\ Dist(L.LINKWS, c[k].nr) <= Taken(N) - Acked(L)
             /\ k > Len(q) => Dist(L.LINKWS, c[k].nr) = Taken(N) - Acked(L)
             /\ k <= Len(q) => c[k] = q[k] /\ k \in 1..Len(q)
  <2>1. Dist(L.LINKWS, c[k].nr) \in Nat
    <3>1. c \in [1..Len(c) -> Frames]
      BY <1>2, LenProperties
    <3>2. c[k] \in Frames
      BY <3>1
    <3>3. c[k].nr \in SeqNo
      BY <3>2 DEF Frames
    <3> QED
      BY <1>1, <3>3, DistType, SeqModType
  <2>2. CASE k \in 1..Len(q) /\ c[k] = q[k]
    <3>1. Dist(L.LINKWS, c[k].nr) <= Taken(M) - Acked(L)
      BY <1>6, <2>2 DEF Acks
    <3> QED
      BY <1>1, <1>3, <2>1, <2>2, <3>1
  <2>3. CASE /\ k > Len(q) /\ k - Len(q) \in 1..Len(o)
             /\ c[k] = o[k - Len(q)]
    <3>1. Dist(L.LINKWS, c[k].nr) = Taken(N) - Acked(L)
      BY <1>5, <1>6, <2>3
    <3> QED
      BY <1>1, <1>3, <2>1, <2>3, <3>1
  <2> QED
    BY <1>2, <2>2, <2>3
<1>7. ASSUME NEW k \in 1..Len(c), IsAck(c[k]), NEW j \in 1..(k - 1), IsAck(c[j])
      PROVE  Dist(L.LINKWS, c[j].nr) <= Dist(L.LINKWS, c[k].nr)
  <2>1. j \in 1..Len(c) /\ (k <= Len(q) => j <= Len(q))
    BY <1>2, <1>3
  <2>2. CASE k <= Len(q)
    <3>1. c[k] = q[k] /\ k \in 1..Len(q) /\ c[j] = q[j]
      BY <1>6, <1>7, <2>1, <2>2
    <3> QED
      BY <1>7, <3>1 DEF Acks
  <2>3. CASE ~(k <= Len(q))
    <3>1. Dist(L.LINKWS, c[k].nr) = Taken(N) - Acked(L)
      BY <1>3, <1>6, <1>7, <2>3
    <3> QED
      BY <1>6, <1>7, <2>1, <3>1
  <2> QED
    BY <2>2, <2>3
<1> QED
  BY <1>4, <1>6, <1>7 DEF Acks

\* Nothing more is taken, and nothing that acknowledges is sent.
LEMMA AcksKept ==
    ASSUME NEW L, NEW M, NEW q \in Seq(Frames), Acks(L, M, q),
           NEW N, Taken(N) = Taken(M), NEW o \in Seq(Frames),
           \A k \in 1..Len(o) : ~IsAck(o[k]), NEW c, c = Clip(q \o o)
    PROVE  Acks(L, N, c)
<1>1. /\ c \in Seq(Frames) /\ Len(c) \in Nat /\ Len(q) \in Nat
      /\ \A k \in 1..Len(c) :
           \/ k \in 1..Len(q) /\ c[k] = q[k]
           \/ /\ k > Len(q) /\ k - Len(q) \in 1..Len(o)
              /\ c[k] = o[k - Len(q)]
  BY ClipIs, LenProperties
<1>2. ASSUME NEW k \in 1..Len(c), IsAck(c[k])
      PROVE  k \in 1..Len(q) /\ c[k] = q[k]
  BY <1>1, <1>2
<1>3. ASSUME NEW k \in 1..Len(c), IsAck(c[k])
      PROVE  /\ Dist(L.LINKWS, c[k].nr) <= Taken(N) - Acked(L)
             /\ \A j \in 1..(k - 1) : IsAck(c[j])
                   => Dist(L.LINKWS, c[j].nr) <= Dist(L.LINKWS, c[k].nr)
  <2>1. k \in 1..Len(q) /\ c[k] = q[k]
    BY <1>2, <1>3
  <2>2. /\ Dist(L.LINKWS, q[k].nr) <= Taken(M) - Acked(L)
        /\ \A j \in 1..(k - 1) : IsAck(q[j])
              => Dist(L.LINKWS, q[j].nr) <= Dist(L.LINKWS, q[k].nr)
    BY <1>3, <2>1 DEF Acks
  <2>3. ASSUME NEW j \in 1..(k - 1), IsAck(c[j])
        PROVE  Dist(L.LINKWS, c[j].nr) <= Dist(L.LINKWS, c[k].nr)
    <3>1. j \in 1..Len(c)
      BY <1>1
    <3>2. c[j] = q[j]
      BY <1>2, <2>3, <3>1
    <3> QED
      BY <2>1, <2>2, <2>3, <3>2
  <2>4. Dist(L.LINKWS, c[k].nr) <= Taken(N) - Acked(L)
    BY <2>1, <2>2
  <2> QED
    BY <2>3, <2>4
<1>4. /\ Acked(L) <= Taken(N) /\ Taken(N) <= Acked(L) + LINKWINDOW
      /\ Taken(N) <= L.loaded
  BY DEF Acks
<1> QED
  BY <1>3, <1>4 DEF Acks

-----------------------------------------------------------------------------
(* The two ends and what is in the air, seen from one of them: L its entry, *)
(* M the other, "out" on its way to M, "in" on its way to L, and message m  *)
(* taken off the air and not yet looked at.                                 *)

Pair(L, M, out, in, m) == Way(L, M, out, in, 0) /\ Way(M, L, in, out, m)

\* A frame goes off the air with its N(R) seen to: either A has moved the
\* window of L up to it, or it is as L was.
LEMMA PairHears ==
    ASSUME NEW L, Fit(L), NEW M, Receiver(M), M.loaded \in Nat,
           NEW out \in Seq(Frames), NEW in \in Seq(Frames), in # << >>,
           Pair(L, M, out, in, 0), NEW h, h = Head(in),
           NEW m, m = IF IsData(h) THEN h.m ELSE 0,
           NEW A, A.RX_Q = L.RX_Q, A.RXFRAMES = L.RXFRAMES, A.loaded = L.loaded,
           Acked(A) \in Nat, A.L2STATE >= 4,
           \/ A.LINKWS = L.LINKWS /\ Acked(A) = Acked(L)
           \/ /\ IsAck(h) /\ A.LINKWS = h.nr
              /\ Acked(A) = Acked(L) + Dist(L.LINKWS, h.nr)
    PROVE  Pair(A, M, out, Tail(in), m)
<1> DEFINE t == Tail(in)
<1>1. /\ t \in Seq(Frames) /\ Taken(L) \in Nat /\ Receiver(L) /\ Acked(L) \in Nat
      /\ L.loaded \in Nat /\ Taken(M) \in Nat /\ h \in Frames /\ L.L2STATE >= 4
  BY TailIs, FitTypes DEF Receiver, Fit
<1>2. Taken(A) = Taken(L)
  BY DEF Taken
<1>3. Acks(L, M, in)
  BY <1>1 DEF Pair, Way
<1>4. Acks(A, M, t) /\ Acked(L) <= Acked(A) /\ Acked(A) <= Taken(M)
  <2>1. /\ Acks(L, M, t)
        /\ IsAck(h) => /\ Dist(L.LINKWS, h.nr) <= Taken(M) - Acked(L)
                       /\ \A k \in 1..Len(t) : IsAck(t[k]) =>
                             Dist(L.LINKWS, h.nr) <= Dist(L.LINKWS, t[k].nr)
    BY <1>3, AcksTail
  <2> HIDE DEF t
  <2>2. CASE A.LINKWS = L.LINKWS /\ Acked(A) = Acked(L)
    BY <1>1, <2>1, <2>2 DEF Acks
  <2>3. CASE /\ IsAck(h) /\ A.LINKWS = h.nr
             /\ Acked(A) = Acked(L) + Dist(L.LINKWS, h.nr)
    <3>1. h.nr \in SeqNo /\ L.LINKWS \in SeqNo
      BY <1>1, FitTypes DEF Frames
    <3>2. Acks(A, M, t)
      BY <1>1, <2>1, <2>3, <3>1, AcksMove
    <3>3. Dist(L.LINKWS, h.nr) \in Nat
      BY <3>1, DistType, SeqModType
    <3>4. Dist(L.LINKWS, h.nr) <= Taken(M) - Acked(L)
      BY <2>1, <2>3
    <3> QED
      BY <1>1, <2>3, <3>2, <3>3, <3>4
  <2> QED
    BY <2>2, <2>3
<1>5. M.L2STATE >= 4 => Data(A, M, out, 0)
  <2>1. SUFFICES ASSUME M.L2STATE >= 4
                 PROVE  Data(A, M, out, 0)
    OBVIOUS
  <2>2. PICK a \in 0..Taken(M) : /\ L.L2STATE >= 4 => a = Acked(L)
                                 /\ Coming(a, L.loaded, M, out, 0)
    BY <2>1 DEF Pair, Way, Data
  <2>3. a \in Nat /\ a <= Acked(A)
    BY <1>1, <1>4, <2>2
  <2>4. Coming(Acked(A), A.loaded, M, out, 0)
    BY <1>1, <2>2, <2>3, ComingMore
  <2>5. Acked(A) \in 0..Taken(M)
    BY <1>1, <1>4
  <2> QED
    BY <2>4, <2>5 DEF Data
<1>6. Data(M, A, t, m)
  <2>1. PICK a \in 0..Taken(L) : /\ M.L2STATE >= 4 => a = Acked(M)
                                 /\ Coming(a, M.loaded, L, in, 0)
    BY <1>1 DEF Pair, Way, Data
  <2>2. a \in Nat
    BY <1>1
  <2>3. Coming(a, M.loaded, L, t, m)
    BY <1>1, <2>1, <2>2, ComingTail
  <2> HIDE DEF t
  <2>4. Coming(a, M.loaded, A, t, m)
    BY <1>2, <2>3 DEF Coming, Below
  <2> QED
    BY <1>2, <2>1, <2>4 DEF Data
<1>7. M.L2STATE >= 4 => Acks(M, A, out)
  <2>1. M.L2STATE >= 4 => Acks(M, L, out)
    BY DEF Pair, Way
  <2> QED
    BY <1>2, <2>1 DEF Acks
<1> QED
  BY <1>4, <1>5, <1>6, <1>7 DEF Pair, Way

\* What is known of an I frame that is heard.
LEMMA DataHeard ==
    ASSUME NEW L, Fit(L), NEW M, M.loaded \in Nat,
           NEW out, NEW in \in Seq(Frames), in # << >>, Pair(L, M, out, in, 0),
           NEW h, h = Head(in), IsData(h)
    PROVE  /\ h \in Frames /\ h.m >= 1 /\ h.m <= M.loaded
           /\ h.m <= Taken(L) + LINKWINDOW
           /\ h.ns = (h.m - 1) % SeqMod /\ Below(L, h.m + LINKWINDOW - 1)
<1>1. /\ Taken(L) \in Nat /\ Receiver(L) /\ L.L2STATE >= 4
  BY FitTypes DEF Receiver, Fit
<1>2. PICK a \in 0..Taken(L) : Coming(a, M.loaded, L, in, 0)
  BY <1>1 DEF Pair, Way, Data
<1>3. a \in Nat /\ a <= Taken(L)
  BY <1>1
<1>4. /\ h.m >= 1 /\ h.m <= M.loaded /\ h.m <= a + LINKWINDOW
      /\ h.ns = (h.m - 1) % SeqMod /\ Below(L, h.m + LINKWINDOW - 1)
  BY <1>1, <1>2, <1>3, ComingTail
<1>5. h \in Frames
  BY TailIs
<1>6. h.m \in Nat
  BY <1>5 DEF Frames
<1>7. h.m <= Taken(L) + LINKWINDOW
  BY <1>1, <1>3, <1>4, <1>6, Sizes
<1> QED
  BY <1>4, <1>5, <1>7

\* A handler of an end that is not down keeps the pair.
LEMMA PairGoes ==
    ASSUME NEW L, NEW m \in Nat, NEW r, Goes(L, r, m),
           NEW M, Receiver(M), M.loaded \in Nat, M.L2STATE >= 4 => Fit(M),
           NEW out \in Seq(Frames), NEW in \in Seq(Frames), Pair(L, M, out, in, m),
           NEW c, c = Clip(out \o r.out)
    PROVE  /\ Pair(r.link, M, c, in, 0)
           /\ Taken(r.link) <= M.loaded
<1> DEFINE N == r.link
           o == r.out
<1>1. Moves(L, N, m) /\ o \in Seq(Frames) /\ Sent(r)
  BY DEF Goes
<1> HIDE DEF N, o
<1>2. /\ Fit(L) /\ Fit(N) /\ L.loaded <= N.loaded /\ N.LINKWS = L.LINKWS
      /\ Acked(N) = Acked(L) /\ Taken(L) <= Taken(N)
  BY <1>1 DEF Moves
<1>3. /\ Acked(L) \in Nat /\ L.loaded \in Nat /\ N.loaded \in Nat
      /\ Taken(L) \in Nat /\ Taken(M) \in Nat /\ Taken(N) \in Nat /\ Receiver(L)
      /\ L.L2STATE >= 4 /\ N.L2STATE >= 4
  BY <1>2, FitTypes DEF Receiver, Fit
<1>4. M.L2STATE >= 4 => Data(N, M, c, 0)
  <2>1. SUFFICES ASSUME M.L2STATE >= 4
                 PROVE  Data(N, M, c, 0)
    OBVIOUS
  <2>2. PICK a \in 0..Taken(M) : /\ L.L2STATE >= 4 => a = Acked(L)
                                 /\ Coming(a, L.loaded, M, out, 0)
    BY <2>1 DEF Pair, Way, Data
  <2>3. a = Acked(L) /\ Coming(Acked(L), N.loaded, M, out, 0)
    BY <1>2, <1>3, <2>2, ComingMore
  <2>4. ASSUME NEW k \in 1..Len(o), IsData(o[k])
        PROVE  /\ o[k].m \in 1..N.loaded /\ Acked(L) < o[k].m
               /\ o[k].m <= Acked(L) + LINKWINDOW
               /\ o[k].ns = (o[k].m - 1) % SeqMod
    BY <1>1, <1>2, <2>4 DEF Sent, N, o
  <2>5. c = Clip(out \o o)
    BY DEF o
  <2>6. Coming(Acked(L), N.loaded, M, c, 0)
    BY <1>1, <1>3, <2>3, <2>4, <2>5, ComingSent
  <2> QED
    BY <1>2, <2>2, <2>3, <2>6 DEF Data
<1>5. Acks(N, M, in)
  <2>1. Acks(L, M, in)
    BY <1>3 DEF Pair, Way
  <2>2. Taken(M) <= N.loaded
    BY <1>2, <1>3, <2>1 DEF Acks
  <2> QED
    BY <1>2, <2>1, <2>2 DEF Acks
<1>6. PICK a \in 0..Taken(L) : /\ M.L2STATE >= 4 => a = Acked(M)
                               /\ Coming(a, M.loaded, L, in, m)
  BY <1>3 DEF Pair, Way, Data
<1>7. Coming(a, M.loaded, N, in, 0) /\ a \in Nat /\ a \in 0..Taken(N)
  <2>1. a \in Nat /\ a \in 0..Taken(N)
    BY <1>2, <1>3
  <2> QED
    BY <1>1, <1>6, <2>1, ComingMoves
<1>8. Data(M, N, in, 0) /\ Taken(N) <= M.loaded /\ Taken(N) <= a + LINKWINDOW
  BY <1>6, <1>7 DEF Data, Coming, Below
<1>9. M.L2STATE >= 4 => Acks(M, N, c)
  <2>1. SUFFICES ASSUME M.L2STATE >= 4
                 PROVE  Acks(M, N, c)
    OBVIOUS
  <2>2. /\ Fit(M) /\ Acks(M, L, out) /\ Taken(N) <= Acked(M) + LINKWINDOW
        /\ Taken(N) <= M.loaded
    BY <1>6, <1>8, <2>1 DEF Pair, Way
  <2>3. ASSUME NEW k \in 1..Len(o), IsAck(o[k])
        PROVE  o[k].nr = N.LINKNR
    BY <1>1, <2>3 DEF Sent, N, o
  <2>4. c = Clip(out \o o)
    BY DEF o
  <2> QED
    BY <1>1, <1>2, <1>3, <2>2, <2>3, <2>4, AcksSent
<1>10. Pair(N, M, c, in, 0)
  BY <1>4, <1>5, <1>8, <1>9 DEF Pair, Way
<1> QED
  BY <1>8, <1>10 DEF N

\* An end that is cleared, or was, sends no data and no acknowledgement.
LEMMA PairCold ==
    ASSUME NEW L, L.loaded \in Nat, NEW N, N.L2STATE < 4, N.L2STATE \in Nat,
           N.loaded \in Nat, L.loaded <= N.loaded, N.RX_Q = L.RX_Q,
           NEW M, Receiver(M),
           NEW out \in Seq(Frames), NEW in, Pair(L, M, out, in, 0),
           NEW o \in Seq(Frames), \A k \in 1..Len(o) : ~IsData(o[k]) /\ ~IsAck(o[k]),
           NEW c, c = Clip(out \o o), NEW rest
    PROVE  Pair(N, M, c, rest, 0)
<1>1. ~(N.L2STATE >= 4) /\ Taken(N) = Taken(L)
  BY DEF Taken
<1>2. M.L2STATE >= 4 => Data(N, M, c, 0)
  <2>1. SUFFICES ASSUME M.L2STATE >= 4
                 PROVE  Data(N, M, c, 0)
    OBVIOUS
  <2>2. PICK a \in 0..Taken(M) : Coming(a, L.loaded, M, out, 0)
    BY <2>1 DEF Pair, Way, Data
  <2>3. a \in Nat /\ a <= a /\ 0 \in Nat
    BY DEF Receiver
  <2>4. \A k \in 1..Len(o) : ~IsData(o[k])
    OBVIOUS
  <2>5. Coming(a, N.loaded, M, out, 0)
    BY <2>2, <2>3, ComingMore
  <2>6. Coming(a, N.loaded, M, c, 0)
    BY <2>3, <2>4, <2>5, ComingSent
  <2> QED
    BY <1>1, <2>2, <2>6 DEF Data
<1>3. M.L2STATE >= 4 => Acks(M, N, c)
  <2>1. SUFFICES ASSUME M.L2STATE >= 4
                 PROVE  Acks(M, N, c)
    OBVIOUS
  <2>2. Acks(M, L, out)
    BY <2>1 DEF Pair, Way
  <2>3. \A k \in 1..Len(o) : ~IsAck(o[k])
    OBVIOUS
  <2> QED
    BY <1>1, <2>2, <2>3, AcksKept
<1> QED
  BY <1>1, <1>2, <1>3 DEF Pair, Way

\* A frame is lost.
LEMMA PairLoses ==
    ASSUME NEW L, Receiver(L), NEW M, Receiver(M), M.loaded \in Nat,
           NEW out, NEW in \in Seq(Frames), in # << >>, Pair(L, M, out, in, 0)
    PROVE  Pair(L, M, out, Tail(in), 0)
<1>1. L.L2STATE >= 4 => Data(M, L, Tail(in), 0)
  <2>1. SUFFICES ASSUME L.L2STATE >= 4
                 PROVE  Data(M, L, Tail(in), 0)
    OBVIOUS
  <2>2. PICK a \in 0..Taken(L) : /\ M.L2STATE >= 4 => a = Acked(M)
                                 /\ Coming(a, M.loaded, L, in, 0)
    BY <2>1 DEF Pair, Way, Data
  <2>3. a \in Nat
    BY DEF Receiver
  <2>4. Coming(a, M.loaded, L, Tail(in), 0)
    BY <2>2, <2>3, ComingTail
  <2> QED
    BY <2>2, <2>4 DEF Data
<1>2. L.L2STATE >= 4 => Acks(L, M, Tail(in))
  BY AcksTail DEF Pair, Way
<1> QED
  BY <1>1, <1>2 DEF Pair, Way

\* Level 4 queues more, or closes: nothing on the air changes.
LEMMA PairStays ==
    ASSUME NEW L, Receiver(L), L.loaded \in Nat, L.L2STATE >= 4,
           NEW M, Receiver(M),
           NEW out \in Seq(Frames), NEW in, Pair(L, M, out, in, 0),
           NEW N, N.L2STATE >= 4, N.RX_Q = L.RX_Q, N.RXFRAMES = L.RXFRAMES,
           N.LINKWS = L.LINKWS, Acked(N) = Acked(L),
           N.loaded \in Nat, L.loaded <= N.loaded
    PROVE  Pair(N, M, out, in, 0)
<1>1. Taken(N) = Taken(L)
  BY DEF Taken
<1>2. M.L2STATE >= 4 => Data(N, M, out, 0)
  <2>1. SUFFICES ASSUME M.L2STATE >= 4
                 PROVE  Data(N, M, out, 0)
    OBVIOUS
  <2>2. PICK a \in 0..Taken(M) : /\ a = Acked(L)
                                 /\ Coming(a, L.loaded, M, out, 0)
    BY <2>1 DEF Pair, Way, Data
  <2>3. a \in Nat /\ a <= a /\ 0 \in Nat
    BY DEF Receiver
  <2>4. Coming(a, N.loaded, M, out, 0)
    BY <2>2, <2>3, ComingMore
  <2> QED
    BY <2>2, <2>4 DEF Data
<1>3. Acks(N, M, in)
  <2>1. Acks(L, M, in)
    BY DEF Pair, Way
  <2>2. Taken(M) \in Nat /\ Taken(M) <= L.loaded
    BY <2>1 DEF Receiver, Acks
  <2>3. Taken(M) <= N.loaded
    BY <2>2
  <2> QED
    BY <2>1, <2>3 DEF Acks
<1>4. Data(M, N, in, 0)
  <2>1. PICK a \in 0..Taken(L) : /\ M.L2STATE >= 4 => a = Acked(M)
                                 /\ Coming(a, M.loaded, L, in, 0)
    BY DEF Pair, Way, Data
  <2>2. Coming(a, M.loaded, N, in, 0)
    BY <1>1, <2>1 DEF Coming, Below
  <2> QED
    BY <1>1, <2>1, <2>2 DEF Data
<1>5. M.L2STATE >= 4 => Acks(M, N, out)
  BY <1>1 DEF Pair, Way, Acks
<1> QED
  BY <1>2, <1>3, <1>4, <1>5 DEF Pair, Way

-----------------------------------------------------------------------------
(* SDNRCHK.                                                                *)

\* The fields of an entry after ACKMSG that the window does not say.
LEMMA ACKMSGFields ==
    ASSUME NEW L \in Links, NEW nr, NEW A, A = ACKMSG(L, nr)
    PROVE  /\ A.queued = L.queued /\ A.RX_Q = L.RX_Q /\ A.RXFRAMES = L.RXFRAMES
           /\ A.LINKNR = L.LINKNR /\ A.LINKWS = nr /\ A.loaded = L.loaded
           /\ A.DISCPENDING => L.DISCPENDING
           /\ A.L2STATE = L.L2STATE \/ (A.L2STATE = 4 /\ L.DISCPENDING)
  BY DEF ACKMSG, AckTail, Links

\* LINKWS moved up to N(R) still says how many are acknowledged.
LEMMA AckedMod ==
    ASSUME NEW a \in Nat, NEW nr \in SeqNo, NEW b,
           b = a + Dist(a % SeqMod, nr)
    PROVE  b \in Nat /\ nr = b % SeqMod
<1> DEFINE r == a % SeqMod
           d == Dist(r, nr)
<1>1. r \in SeqNo
  BY DistMod
<1>2. d \in SeqNo /\ d \in Nat /\ d \in 0..SeqMod
  BY <1>1, DistType, SeqModType
<1>3. Plus(r, d) = (a + d) % SeqMod
  BY <1>2, PlusMod
<1>4. b = a + d
  OBVIOUS
<1> HIDE DEF r
<1>5. d = IF nr >= r THEN nr - r ELSE nr - r + SeqMod
  BY <1>1, DistArith
<1> HIDE DEF d
<1>6. Plus(r, d) = IF r + d < SeqMod THEN r + d ELSE r + d - SeqMod
  BY <1>1, <1>2, PlusArith
<1>7. Plus(r, d) = nr
  BY <1>1, <1>5, <1>6, SeqModType
<1> QED
  BY <1>2, <1>3, <1>4, <1>7

\* What SDNRCHK makes of an entry when N(R) is for no more than is held.
LEMMA SDNRCHKFits ==
    ASSUME NEW L, Fit(L), NEW f \in Frames, AcksHeld(L, f.nr),
           NEW A, A = SDNRCHK(L, f)
    PROVE  /\ Fit(A) /\ A.queued = L.queued /\ A.loaded = L.loaded /\ A.RX_Q = L.RX_Q
           /\ A.RXFRAMES = L.RXFRAMES /\ A.LINKNR = L.LINKNR
           /\ A.DISCPENDING => L.DISCPENDING
           /\ A.L2STATE = L.L2STATE \/ (A.L2STATE = 4 /\ L.DISCPENDING)
           /\ \/ A.LINKWS = L.LINKWS /\ Acked(A) = Acked(L)
              \/ A.LINKWS = f.nr /\ Acked(A) = Acked(L) + Dist(L.LINKWS, f.nr)
           /\ ~(f.type = "SREJ" /\ ~f.pf) => f.nr = A.LINKWS
<1>1. /\ Covered /\ L \in Links /\ OK(L) /\ f.nr \in SeqNo
      /\ Acked(L) \in Nat
  BY FitTypes DEF Frames
<1>2. CASE f.type = "SREJ" /\ ~f.pf
  BY <1>2 DEF SDNRCHK
<1>3. CASE ~(f.type = "SREJ" /\ ~f.pf)
  <2>1. A = ACKMSG(L, f.nr)
    BY <1>3 DEF SDNRCHK
  <2>2. OK(A) /\ Acked(A) = Acked(L) + Dist(L.LINKWS, f.nr)
    BY <1>1, <2>1, ACKMSGOK
  <2>3. /\ A.queued = L.queued /\ A.loaded = L.loaded /\ A.RX_Q = L.RX_Q
        /\ A.RXFRAMES = L.RXFRAMES /\ A.LINKNR = L.LINKNR /\ A.LINKWS = f.nr
        /\ A.DISCPENDING => L.DISCPENDING
        /\ A.L2STATE = L.L2STATE \/ (A.L2STATE = 4 /\ L.DISCPENDING)
    BY <1>1, <2>1, ACKMSGFields
  <2>4. A.LINKWS = Acked(A) % SeqMod
    <3>1. L.LINKWS = Acked(L) % SeqMod
      BY DEF Fit
    <3> QED
      BY <1>1, <2>2, <2>3, <3>1, AckedMod
  <2>5. Fit(A)
    BY <2>2, <2>3, <2>4 DEF Fit, Receives, Taken, NoneSaved
  <2> QED
    BY <1>3, <2>2, <2>3, <2>5
<1> QED
  BY <1>2, <1>3
-----------------------------------------------------------------------------
(* The steps of the two stations.                                          *)

\* What holds of one entry, whatever is in the air.
Local(s, L) == /\ L.L2STATE >= 4 => Fit(L)
               /\ L.L2STATE < 4 => NoneSaved(L) /\ ~L.L2ACKREQ
               /\ L.DISCPENDING => s \in Closers
               /\ L.loaded <= L.queued /\ L.queued <= MaxMsgs[s]

\* Main relates the entries to what is in the air, from both sides.  State 2 is
\* a link being set up again: what it takes after that is another stream.
Main == /\ \A s \in Station : Local(s, link[s])
        /\ (\A s \in Station : link[s].L2STATE # 2) =>
              \A s \in Station :
                 Way(link[s], link[Other(s)], air[Other(s)], air[s], 0)

\* What Stream sees of the two entries.
StreamNow == << [s \in Station |-> link[s].queued],
                [s \in Station |-> link[s].RX_Q],
                [s \in Station |-> link[s].L2STATE >= 5] >>

\* N hands up what is next of the n messages queued, or nothing.
Handed(L, N, n) ==
    /\ N.queued = L.queued
    /\ L.L2STATE < 5 => N.L2STATE < 5 /\ N.RX_Q = L.RX_Q
    /\ \/ N.RX_Q = L.RX_Q /\ Taken(L) <= n
       \/ /\ Taken(L) <= Taken(N) /\ Taken(N) <= n
          /\ \A k \in 1..Taken(L) : L.RX_Q[k] = k
          /\ \A k \in 1..Taken(N) : N.RX_Q[k] = k

\* There are two stations.
LEMMA OtherOther ==
    ASSUME NEW s \in Station
    PROVE  /\ Other(s) \in Station /\ Other(s) # s /\ Other(Other(s)) = s
           /\ \A t \in Station : t = s \/ t = Other(s)
<1>1. Other(s) \in Station /\ Other(s) # s
  BY OtherType
<1>2. Other(Other(s)) \in Station /\ Other(Other(s)) # Other(s)
  BY <1>1, OtherType
<1> QED
  BY <1>1, <1>2, StationAssumption

\* Sequences with the same elements are equal.
LEMMA SameSequence ==
    ASSUME NEW q \in Seq(Nat), NEW z \in Seq(Nat), Len(q) = Len(z),
           \A i \in 1..Len(q) : q[i] = z[i]
    PROVE  q = z
<1>1. /\ q \in [1..Len(q) -> Nat] /\ z \in [1..Len(z) -> Nat]
  BY LenProperties
<1> DEFINE n == Len(q)
<1>2. DOMAIN q = 1..n /\ DOMAIN z = 1..n
  BY <1>1
<1>3. q = [i \in 1..n |-> q[i]] /\ z = [i \in 1..n |-> z[i]]
  BY <1>1
<1> QED
  BY <1>3

\* The types of the state and of the counts.
LEMMA StateType ==
    ASSUME NEW L \in Links
    PROVE  /\ L.L2STATE \in {0, 2, 4, 5, 6} /\ L.L2STATE \in Nat
           /\ L.queued \in Nat /\ L.loaded \in Nat
<1>1. L.L2STATE \in LinkStates /\ L.queued \in Nat /\ L.loaded \in Nat
  BY DEF Links
<1> QED
  BY <1>1 DEF LinkStates

\* What is handed up is the next k messages of those queued, as Stream's Deliver
\* has it.
LEMMA HandedIs ==
    ASSUME NEW L \in Links, NEW N \in Links, NEW n \in Nat, Handed(L, N, n)
    PROVE  \E k \in 0..n : /\ Len(L.RX_Q) + k <= n
                           /\ N.RX_Q = L.RX_Q \o [i \in 1..k |-> Len(L.RX_Q) + i]
<1> DEFINE q == L.RX_Q
<1>1. /\ q \in Seq(Nat) /\ N.RX_Q \in Seq(Nat)
      /\ Len(q) \in Nat /\ Len(N.RX_Q) \in Nat
      /\ N.RX_Q \in [1..Len(N.RX_Q) -> Nat]
  BY LenProperties DEF Links
<1>2. ASSUME NEW k \in Nat
      PROVE  /\ [i \in 1..k |-> Len(q) + i] \in Seq(Nat)
             /\ Len([i \in 1..k |-> Len(q) + i]) = k
  <2> DEFINE e == [i \in 1..k |-> Len(q) + i]
  <2>1. \A i \in 1..k : e[i] \in Nat
    BY <1>1
  <2>2. e \in Seq(Nat)
    BY <2>1, IsASeq
  <2>3. DOMAIN e = 1..Len(e) /\ DOMAIN e = 1..k /\ Len(e) \in Nat
    BY <2>2, LenProperties
  <2> HIDE DEF e
  <2>4. 1..Len(e) = 1..k
    BY <2>3
  <2>5. Len(e) = k
    BY <2>3, <2>4, SameInterval
  <2> QED
    BY <2>2, <2>5 DEF e
<1>3. CASE N.RX_Q = L.RX_Q /\ Taken(L) <= n
  <2> DEFINE e == [i \in 1..0 |-> Len(q) + i]
  <2>1. e \in Seq(Nat) /\ Len(e) = 0
    BY <1>2
  <2> HIDE DEF e
  <2>2. e = << >>
    BY <2>1, EmptySeq
  <2>3. q \o e = q
    BY <1>1, <2>2
  <2>4. 0 \in 0..n /\ Len(q) + 0 <= n
    BY <1>1, <1>3 DEF Taken
  <2> QED
    BY <1>3, <2>3, <2>4 DEF e
<1>4. CASE /\ Taken(L) <= Taken(N) /\ Taken(N) <= n
           /\ \A k \in 1..Taken(L) : L.RX_Q[k] = k
           /\ \A k \in 1..Taken(N) : N.RX_Q[k] = k
  <2> DEFINE j == Len(N.RX_Q) - Len(q)
             e == [i \in 1..j |-> Len(q) + i]
             z == q \o e
  <2>1. j \in Nat /\ j \in 0..n /\ Len(q) + j <= n /\ Len(q) + j = Len(N.RX_Q)
    BY <1>1, <1>4 DEF Taken
  <2>2. e \in Seq(Nat) /\ Len(e) = j /\ \A i \in 1..j : e[i] = Len(q) + i
    BY <1>2, <2>1
  <2> HIDE DEF j, e
  <2>3. /\ z \in Seq(Nat) /\ Len(z) = Len(q) + j
        /\ \A i \in 1..(Len(q) + j) :
              z[i] = IF i <= Len(q) THEN q[i] ELSE e[i - Len(q)]
    BY <1>1, <2>2, ConcatProperties
  <2>4. ASSUME NEW i \in 1..Len(N.RX_Q)
        PROVE  z[i] = N.RX_Q[i]
    <3>1. N.RX_Q[i] = i
      BY <1>4 DEF Taken
    <3>2. CASE i <= Len(q)
      <4>1. i \in 1..Len(q)
        BY <1>1, <3>2
      <4>2. q[i] = i
        BY <1>4, <4>1 DEF Taken
      <4> QED
        BY <2>1, <2>3, <3>1, <3>2, <4>2
    <3>3. CASE ~(i <= Len(q))
      <4>1. i - Len(q) \in 1..j /\ Len(q) + (i - Len(q)) = i
        BY <1>1, <2>1, <3>3
      <4>2. e[i - Len(q)] = i
        BY <2>2, <4>1
      <4> QED
        BY <2>1, <2>3, <3>1, <3>3, <4>2
    <3> QED
      BY <3>2, <3>3
  <2>5. z \in [1..Len(z) -> Nat] /\ Len(z) = Len(N.RX_Q)
    BY <2>1, <2>3, LenProperties
  <2> HIDE DEF z
  <2>6. z = N.RX_Q
    <3>1. N.RX_Q \in Seq(Nat)
      BY <1>1
    <3> QED
      BY <2>1, <2>3, <2>4, <2>5, <3>1, SameSequence
  <2> QED
    BY <2>1, <2>6 DEF z, e
<1> QED
  BY <1>3, <1>4 DEF Handed

\* One end hands up what is next, and stays up or not.
LEMMA StreamStep ==
    ASSUME TypeOK, NEW s \in Station, NEW N \in Links,
           Handed(link[s], N, link[Other(s)].queued),
           link' = [link EXCEPT ![s] = N]
    PROVE  [Link!Next]_StreamNow
<1> DEFINE L == link[s]
           o == Other(s)
<1>1. L \in Links /\ link[o] \in Links /\ o \in Station /\ o # s
  BY OtherOther DEF TypeOK
<1>2. link[o].queued \in Nat
  BY <1>1 DEF Links
<1>3. /\ link' \in [Station -> Links] /\ link'[s] = N
      /\ \A t \in Station : t # s => link'[t] = link[t]
  BY <1>1 DEF TypeOK
<1>4. CASE L.L2STATE < 5
  <2>1. N.queued = L.queued /\ N.RX_Q = L.RX_Q /\ N.L2STATE < 5
    BY <1>4 DEF Handed
  <2>2. L.L2STATE \in Nat /\ N.L2STATE \in Nat
    BY <1>1, StateType
  <2>3. \A t \in Station : /\ link'[t].queued = link[t].queued
                           /\ link'[t].RX_Q = link[t].RX_Q
                           /\ (link'[t].L2STATE >= 5) = (link[t].L2STATE >= 5)
    BY <1>3, <1>4, <2>1, <2>2
  <2> QED
    BY <2>3 DEF StreamNow
<1>5. CASE ~(L.L2STATE < 5)
  <2>1. PICK n \in 0..link[o].queued :
               /\ Len(L.RX_Q) + n <= link[o].queued
               /\ N.RX_Q = L.RX_Q \o [i \in 1..n |-> Len(L.RX_Q) + i]
    BY <1>1, <1>2, HandedIs
  <2> DEFINE up == N.L2STATE >= 5
  <2>2. up \in BOOLEAN
    OBVIOUS
  <2>3. Link!Peer(s) = o
    BY DEF Link!Peer, Other
  <2>4. L.L2STATE >= 5
    <3>1. L.L2STATE \in Nat
      BY <1>1, StateType
    <3> QED
      BY <1>5, <3>1
  <2>5. [t \in Station |-> link'[t].queued] = [t \in Station |-> link[t].queued]
    BY <1>3 DEF Handed
  <2>6. [t \in Station |-> link'[t].RX_Q]
          = [[t \in Station |-> link[t].RX_Q] EXCEPT
               ![s] = L.RX_Q \o [i \in 1..n |-> Len(L.RX_Q) + i]]
    <3> DEFINE z == L.RX_Q \o [i \in 1..n |-> Len(L.RX_Q) + i]
    <3>1. link'[s].RX_Q = z
      BY <1>3, <2>1
    <3> HIDE DEF z
    <3>2. [t \in Station |-> link'[t].RX_Q]
            = [[t \in Station |-> link[t].RX_Q] EXCEPT ![s] = z]
      BY <1>3, <3>1
    <3> QED
      BY <3>2 DEF z
  <2>7. [t \in Station |-> link'[t].L2STATE >= 5]
          = [[t \in Station |-> link[t].L2STATE >= 5] EXCEPT ![s] = up]
    BY <1>3
  <2>8. Link!HandOver(s, n, up)
    BY <1>1, <2>1, <2>3, <2>4, <2>5, <2>6, <2>7 DEF Link!HandOver
  <2> HIDE DEF up
  <2>9. n \in 0..[t \in Station |-> link[t].queued][Link!Peer(s)]
    BY <1>1, <2>3
  <2>10. Link!Next
    BY <2>2, <2>8, <2>9, Zenon DEF Link!Next
  <2> QED
    BY <2>10
<1> QED
  BY <1>4, <1>5

\* Nothing has been reset: the condition of Next.
NoReset == \A s \in Station : link[s].L2STATE # 2

\* What is known of an end and of its other end before a step.
LEMMA Ends ==
    ASSUME TypeOK, Main, NoReset, NEW s \in Station
    PROVE  /\ link[s] \in Links /\ link[Other(s)] \in Links /\ Other(s) \in Station
           /\ Receiver(link[s]) /\ Receiver(link[Other(s)])
           /\ link[s].queued \in Nat /\ link[Other(s)].queued \in Nat
           /\ link[s].loaded \in Nat /\ link[Other(s)].loaded \in Nat
           /\ air[s] \in Seq(Frames) /\ air[Other(s)] \in Seq(Frames)
           /\ Local(s, link[s]) /\ Local(Other(s), link[Other(s)])
           /\ link[Other(s)].L2STATE >= 4 => Fit(link[Other(s)])
           /\ link[s].L2STATE >= 4 => Fit(link[s])
           /\ Pair(link[s], link[Other(s)], air[Other(s)], air[s], 0)
<1>1. Other(s) \in Station /\ Other(Other(s)) = s
  BY OtherOther
<1>2. /\ link[s] \in Links /\ link[Other(s)] \in Links
      /\ air[s] \in Seq(Frames) /\ air[Other(s)] \in Seq(Frames)
  BY <1>1 DEF TypeOK
<1>3. ASSUME NEW L \in Links
      PROVE  Receiver(L) /\ L.queued \in Nat /\ L.loaded \in Nat
  BY <1>3, LenProperties DEF Receiver, Taken, Links
<1>4. /\ Local(s, link[s]) /\ Local(Other(s), link[Other(s)])
      /\ Pair(link[s], link[Other(s)], air[Other(s)], air[s], 0)
  BY <1>1 DEF Main, NoReset, Pair
<1>5. /\ link[Other(s)].L2STATE >= 4 => Fit(link[Other(s)])
      /\ link[s].L2STATE >= 4 => Fit(link[s])
  BY <1>4 DEF Local
<1> QED
  BY <1>1, <1>2, <1>3, <1>4, <1>5

\* No N(R) that comes in is for more than is held: the other end has passed
\* up no more than was loaded here.
LEMMA HeardAcks ==
    ASSUME IInv, Main, NoReset
    PROVE  HeadAcks
<1> SUFFICES ASSUME Covered, NEW s \in Station,
                    Hears(s, {"I", "RR", "RNR", "REJ", "SREJ"}),
                    link[s].L2STATE >= 5
             PROVE  AcksHeld(link[s], Head(air[s]).nr)
  BY DEF HeadAcks
<1> DEFINE L == link[s]
           M == link[Other(s)]
           h == Head(air[s])
<1>1. /\ L \in Links /\ air[s] \in Seq(Frames) /\ Receiver(M)
      /\ L.L2STATE >= 4 => Fit(L)
      /\ L.L2STATE >= 4 => Acks(L, M, air[s])
  BY Ends DEF IInv, Pair, Way
<1>2. L.L2STATE >= 4
  BY <1>1, StateType
<1>3. air[s] # << >> /\ IsAck(h)
  BY DEF Hears, IsAck
<1>4. Dist(L.LINKWS, h.nr) <= Taken(M) - Acked(L) /\ Taken(M) <= L.loaded
  <2>1. Acks(L, M, air[s])
    BY <1>1, <1>2
  <2> HIDE DEF L, M
  <2>2. IsAck(h) => Dist(L.LINKWS, h.nr) <= Taken(M) - Acked(L)
    BY <1>1, <1>3, <2>1, AcksTail
  <2> QED
    BY <1>3, <2>1, <2>2 DEF Acks
<1>5. Held(L) \in Nat /\ Acked(L) = L.loaded - Held(L) /\ L.loaded \in Nat
  <2>1. Fit(L)
    BY <1>1, <1>2
  <2> HIDE DEF L
  <2> QED
    BY <2>1, FitTypes, WindowElim, SeqModType DEF Acked
<1>6. Dist(L.LINKWS, h.nr) \in Nat /\ Taken(M) \in Nat
  <2>1. h \in Frames /\ L.LINKWS \in SeqNo
    BY <1>1, <1>3, TailIs DEF Links
  <2>2. h.nr \in SeqNo
    BY <2>1 DEF Frames
  <2> QED
    BY <1>1, <2>1, <2>2, DistType, SeqModType DEF Receiver
<1> HIDE DEF L, M, h
<1>7. AcksHeld(L, h.nr)
  BY <1>4, <1>5, <1>6 DEF AcksHeld
<1> QED
  BY <1>7 DEF L, h

\* A step that leaves the pair as it should be, or resets the link.
LEMMA MainStep ==
    ASSUME TypeOK, Main, NoReset, NEW s \in Station, NEW N \in Links,
           NEW out, NEW in, Local(s, N),
           link' = [link EXCEPT ![s] = N],
           air' = [air EXCEPT ![s] = in, ![Other(s)] = out],
           N.L2STATE = 2 \/ Pair(N, link[Other(s)], out, in, 0)
    PROVE  Main'
<1> DEFINE o == Other(s)
<1>1. /\ o \in Station /\ o # s /\ Other(o) = s
      /\ \A t \in Station : t = s \/ t = o
  BY OtherOther
<1>2. /\ link'[s] = N /\ link'[o] = link[o] /\ air'[s] = in /\ air'[o] = out
  BY <1>1 DEF TypeOK
<1>3. \A t \in Station : Local(t, link'[t])
  <2>1. Local(o, link[o])
    BY <1>1 DEF Main
  <2> QED
    BY <1>1, <1>2, <2>1
<1>4. CASE N.L2STATE = 2
  <2>1. ~(\A t \in Station : link'[t].L2STATE # 2)
    BY <1>2, <1>4
  <2> QED
    BY <1>3, <2>1 DEF Main, Local
<1>5. CASE Pair(N, link[o], out, in, 0)
  <2>1. \A t \in Station : Way(link'[t], link'[Other(t)], air'[Other(t)], air'[t], 0)
    BY <1>1, <1>2, <1>5 DEF Pair
  <2> QED
    BY <1>3, <2>1 DEF Main, Local
<1> QED
  BY <1>4, <1>5

\* What a step of s has to show.
Good == Main' /\ [Link!Next]_StreamNow

\* The receiving sides before and after a handler.
LEMMA GoesHanded ==
    ASSUME NEW L, NEW N, NEW m, Moves(L, N, m), NEW n \in Nat, Taken(N) <= n
    PROVE  Handed(L, N, n)
<1>1. /\ Fit(L) /\ Fit(N) /\ N.queued = L.queued /\ Taken(L) <= Taken(N)
      /\ L.L2STATE = 4 => N.L2STATE = 4 /\ N.RX_Q = L.RX_Q
  BY DEF Moves
<1>2. L.L2STATE \in {4, 5, 6}
  BY <1>1, FitTypes
<1>3. /\ \A k \in 1..Taken(L) : L.RX_Q[k] = k
      /\ \A k \in 1..Taken(N) : N.RX_Q[k] = k
  BY <1>1 DEF Fit, Receives
<1>4. L.L2STATE < 5 => N.L2STATE < 5 /\ N.RX_Q = L.RX_Q
  BY <1>1, <1>2
<1> QED
  BY <1>1, <1>3, <1>4 DEF Handed

\* A handler that runs with nothing in hand.
LEMMA SendsMain ==
    ASSUME TypeOK, Main, NoReset, NEW s \in Station,
           NEW r, Goes(link[s], r, 0), Sends(s, r)
    PROVE  Good
<1> DEFINE L == link[s]
           N == r.link
           o == Other(s)
           M == link[o]
           c == Clip(air[o] \o r.out)
<1>1. /\ Receiver(M) /\ M.queued \in Nat /\ M.loaded \in Nat
      /\ (M.L2STATE >= 4 => Fit(M))
      /\ air[s] \in Seq(Frames) /\ air[o] \in Seq(Frames) /\ Local(s, L)
      /\ Pair(L, M, air[o], air[s], 0) /\ M.loaded <= M.queued
  BY Ends DEF Local
<1>2. Pair(N, M, c, air[s], 0) /\ Taken(N) <= M.loaded
  <2>1. 0 \in Nat
    OBVIOUS
  <2>2. M.L2STATE >= 4 => Fit(M)
    BY <1>1
  <2> QED
    BY <1>1, <2>1, <2>2, PairGoes
<1>3. Moves(L, N, 0)
  BY DEF Goes
<1>4. Fit(N) /\ N.queued = L.queued /\ (N.DISCPENDING => L.DISCPENDING)
  BY <1>3 DEF Moves
<1>5. /\ N \in Links /\ N.L2STATE >= 4 /\ N.L2STATE \in {4, 5, 6}
      /\ N.loaded <= N.queued /\ Taken(N) \in Nat
  BY <1>4, FitTypes DEF Fit
<1>6. Local(s, N)
  BY <1>1, <1>4, <1>5 DEF Local
<1>7. Handed(L, N, M.queued)
  <2>1. Taken(N) <= M.queued
    BY <1>1, <1>2, <1>5
  <2> QED
    BY <1>1, <1>3, <2>1, GoesHanded
<1>8. /\ link' = [link EXCEPT ![s] = N]
      /\ air' = [air EXCEPT ![s] = air[s], ![o] = c]
  <2>1. o \in Station /\ o # s
    BY OtherOther
  <2> QED
    BY <2>1 DEF Sends, TypeOK
<1> HIDE DEF N, c
<1>9. Main'
  BY <1>2, <1>5, <1>6, <1>8, MainStep
<1>10. [Link!Next]_StreamNow
  BY <1>5, <1>7, <1>8, StreamStep
<1> QED
  BY <1>9, <1>10 DEF Good

\* A handler that has taken a frame off the air, A being the entry once its
\* N(R) was seen to.
LEMMA AnswersMain ==
    ASSUME TypeOK, Main, NoReset, NEW s \in Station, air[s] # << >>,
           NEW h, h = Head(air[s]), NEW m, m = IF IsData(h) THEN h.m ELSE 0,
           Fit(link[s]), NEW A, Fit(A),
           A.RX_Q = link[s].RX_Q, A.RXFRAMES = link[s].RXFRAMES,
           A.queued = link[s].queued, A.loaded = link[s].loaded,
           A.DISCPENDING => link[s].DISCPENDING,
           link[s].L2STATE = 4 => A.L2STATE = 4,
           \/ A.LINKWS = link[s].LINKWS /\ Acked(A) = Acked(link[s])
           \/ /\ IsAck(h) /\ A.LINKWS = h.nr
              /\ Acked(A) = Acked(link[s]) + Dist(link[s].LINKWS, h.nr),
           NEW r, Goes(A, r, m), Answers(s, r)
    PROVE  Good
<1> DEFINE L == link[s]
           N == r.link
           o == Other(s)
           M == link[o]
           c == Clip(air[o] \o r.out)
           t == Tail(air[s])
<1>1. /\ Receiver(M) /\ M.queued \in Nat /\ M.loaded \in Nat
      /\ air[s] \in Seq(Frames) /\ air[o] \in Seq(Frames) /\ Local(s, L)
      /\ Pair(L, M, air[o], air[s], 0) /\ M.loaded <= M.queued
  BY Ends DEF Local
<1>2. M.L2STATE >= 4 => Fit(M)
  BY Ends
<1>3. Acked(A) \in Nat /\ A.L2STATE >= 4
  BY FitTypes DEF Fit
<1>4. t \in Seq(Frames) /\ h \in Frames
  BY <1>1, TailIs
<1>5. m \in Nat
  BY <1>4 DEF Frames
<1>6. Pair(A, M, air[o], t, m)
  BY <1>1, <1>3, PairHears
<1>7. Moves(A, N, m)
  BY DEF Goes
<1> HIDE DEF t
<1>8. Pair(N, M, c, t, 0) /\ Taken(N) <= M.loaded
  BY <1>1, <1>2, <1>4, <1>5, <1>6, PairGoes
<1>9. Fit(N) /\ N.queued = L.queued /\ (N.DISCPENDING => L.DISCPENDING)
  BY <1>7 DEF Moves
<1>10. /\ N \in Links /\ N.L2STATE >= 4 /\ N.L2STATE \in {4, 5, 6}
       /\ N.loaded <= N.queued /\ Taken(N) \in Nat
  BY <1>9, FitTypes DEF Fit
<1>11. Local(s, N)
  BY <1>1, <1>9, <1>10 DEF Local
<1>12. Handed(L, N, M.queued)
  <2>1. Handed(A, N, M.queued)
    <3>1. Taken(N) <= M.queued
      BY <1>1, <1>8, <1>10
    <3> QED
      BY <1>1, <1>7, <3>1, GoesHanded
  <2>2. Taken(A) = Taken(L)
    BY DEF Taken
  <2>3. L.L2STATE \in {4, 5, 6}
    BY FitTypes
  <2>4. L.L2STATE < 5 => L.L2STATE = 4
    BY <2>3
  <2>5. L.L2STATE < 5 => N.L2STATE < 5 /\ N.RX_Q = L.RX_Q
    BY <2>1, <2>4 DEF Handed
  <2> QED
    BY <2>1, <2>2, <2>5 DEF Handed
<1>13. /\ link' = [link EXCEPT ![s] = N]
       /\ air' = [air EXCEPT ![s] = t, ![o] = c]
  BY DEF Answers, t
<1> HIDE DEF N, c
<1>14. Main'
  BY <1>8, <1>10, <1>11, <1>13, MainStep
<1>15. [Link!Next]_StreamNow
  BY <1>10, <1>12, <1>13, StreamStep
<1> QED
  BY <1>14, <1>15 DEF Good

\* An end that a step clears, or that was clear, and what it sends if anything.
LEMMA ColdMain ==
    ASSUME TypeOK, Main, NoReset, NEW s \in Station,
           NEW N \in Links, N.L2STATE < 4, NoneSaved(N), ~N.L2ACKREQ,
           ~N.DISCPENDING \/ N.DISCPENDING = link[s].DISCPENDING,
           N.queued = link[s].queued, N.RX_Q = link[s].RX_Q,
           link[s].loaded <= N.loaded, N.loaded <= N.queued,
           NEW o \in Seq(Frames), \A k \in 1..Len(o) : ~IsData(o[k]) /\ ~IsAck(o[k]),
           NEW in, link' = [link EXCEPT ![s] = N],
           air' = [air EXCEPT ![s] = in, ![Other(s)] = Clip(air[Other(s)] \o o)]
    PROVE  Good
<1> DEFINE L == link[s]
           M == link[Other(s)]
           c == Clip(air[Other(s)] \o o)
<1>1. /\ L \in Links /\ Receiver(M) /\ L.loaded \in Nat
      /\ M.queued \in Nat /\ M.loaded \in Nat /\ M.loaded <= M.queued
      /\ air[s] \in Seq(Frames) /\ air[Other(s)] \in Seq(Frames) /\ Local(s, L)
      /\ Pair(L, M, air[Other(s)], air[s], 0) /\ Taken(L) \in Nat
  BY Ends DEF Local, Receiver
<1>2. /\ N.L2STATE \in Nat /\ N.L2STATE < 5 /\ ~(N.L2STATE >= 4)
      /\ N.loaded \in Nat
  BY StateType
<1>3. Pair(N, M, c, in, 0)
  BY <1>1, <1>2, PairCold
<1>4. Local(s, N)
  BY <1>1, <1>2 DEF Local
<1> HIDE DEF c
<1>5. Main'
  <2>1. air' = [air EXCEPT ![s] = in, ![Other(s)] = c]
    BY DEF c
  <2> QED
    BY <1>3, <1>4, <2>1, MainStep
<1>6. Taken(L) <= M.queued \/ L.L2STATE < 4
  <2>1. SUFFICES ASSUME L.L2STATE >= 4
                 PROVE  Taken(L) <= M.queued
    BY <1>1, StateType
  <2>2. PICK a \in 0..Taken(L) : Coming(a, M.loaded, L, air[s], 0)
    BY <1>1, <2>1 DEF Pair, Way, Data
  <2>3. Taken(L) <= M.loaded
    BY <2>2 DEF Coming, Below
  <2> QED
    BY <1>1, <2>3
<1>7. CASE Taken(L) <= M.queued
  <2>1. Handed(L, N, M.queued)
    BY <1>2, <1>7 DEF Handed
  <2> QED
    BY <2>1, <1>5, StreamStep DEF Good
<1>8. CASE L.L2STATE < 4
  <2>1. L.L2STATE < 5 /\ L.L2STATE \in Nat
    BY <1>1, <1>8, StateType
  <2>2. StreamNow' = StreamNow
    <3>1. \A t \in Station : /\ link'[t].queued = link[t].queued
                             /\ link'[t].RX_Q = link[t].RX_Q
                             /\ (link'[t].L2STATE >= 5) = (link[t].L2STATE >= 5)
      BY <1>2, <2>1 DEF TypeOK
    <3> QED
      BY <3>1 DEF StreamNow
  <2> QED
    BY <1>5, <2>2 DEF Good
<1> QED
  BY <1>6, <1>7, <1>8
-----------------------------------------------------------------------------
(* One lemma for each action.                                              *)

\* Level 4 adding to TX_Q.
LEMMA QueueGood ==
    ASSUME Covered, IInv, Main, NoReset, NEW s \in Station, QueueMessages(s)
    PROVE  Good
<1> DEFINE L == link[s]
           M == link[Other(s)]
           N == [L EXCEPT !.queued = L.queued + Batch]
<1>1. /\ TypeOK /\ L \in Links /\ Receiver(L) /\ Receiver(M)
      /\ L.queued \in Nat /\ L.loaded \in Nat
      /\ air[s] \in Seq(Frames) /\ air[Other(s)] \in Seq(Frames) /\ Local(s, L)
      /\ Pair(L, M, air[Other(s)], air[s], 0) /\ Other(s) \in Station
      /\ Other(s) # s
  BY Ends, OtherOther DEF IInv
<1>2. /\ L.L2STATE >= 5 /\ L.queued + Batch <= MaxMsgs[s] /\ air' = air
      /\ link' = [link EXCEPT ![s] = N]
  BY DEF QueueMessages
<1>3. L.L2STATE \in {5, 6} /\ L.L2STATE >= 4
  BY <1>1, <1>2, StateType
<1>4. Batch \in Nat /\ Batch >= 1
  BY BatchAssumption
<1>5. /\ N.queued = L.queued + Batch /\ N.RX_Q = L.RX_Q /\ N.RXFRAMES = L.RXFRAMES
      /\ N.LINKWS = L.LINKWS /\ N.LINKNR = L.LINKNR /\ N.L2STATE = L.L2STATE
      /\ N.DISCPENDING = L.DISCPENDING /\ N.FRAMES = L.FRAMES
      /\ N.SDTSLOT = L.SDTSLOT /\ N.loaded = L.loaded
  BY <1>1 DEF Links
<1> HIDE DEF N
<1>6. link'[s] = N /\ \A t \in Station : t # s => link'[t] = link[t]
  BY <1>1, <1>2 DEF TypeOK
<1>7. OK(N) /\ N \in Links
  <2>1. TypeOK' /\ WindowInv'
    BY QueueMessagesOK DEF IInv
  <2>2. link'[s] \in Links
    BY <2>1 DEF TypeOK
  <2>3. Window(link'[s])
    BY <2>1 DEF WindowInv
  <2> QED
    BY <1>6, <2>2, <2>3 DEF OK
<1>8. Acked(N) = Acked(L)
  BY <1>5 DEF Acked, Held
<1>9. /\ N.queued \in Nat /\ N.queued > L.queued
      /\ N.loaded \in Nat /\ L.loaded <= N.loaded
  BY <1>1, <1>4, <1>5
<1>10. Pair(N, M, air[Other(s)], air[s], 0)
  BY <1>1, <1>3, <1>5, <1>8, <1>9, PairStays
<1>11. Local(s, N)
  <2>1. Fit(L) /\ (L.DISCPENDING => s \in Closers)
    BY <1>1, <1>3 DEF Local
  <2>2. Fit(N)
    BY <1>3, <1>5, <1>7, <1>8, <2>1 DEF Fit, Receives, Taken, NoneSaved
  <2>3. ~(N.L2STATE < 4) /\ N.loaded <= N.queued
    BY <1>3, <1>5, <2>2, FitTypes
  <2> QED
    BY <1>2, <1>5, <2>1, <2>2, <2>3 DEF Local
<1>12. Main'
  <2>1. air' = [air EXCEPT ![s] = air[s], ![Other(s)] = air[Other(s)]]
    BY <1>1, <1>2 DEF TypeOK
  <2> QED
    BY <1>1, <1>2, <1>7, <1>10, <1>11, <2>1, MainStep
<1>13. Link!Queue(s)
  <2> DEFINE z == N.queued
  <2>1. [t \in Station |-> link'[t].queued]
          = [[t \in Station |-> link[t].queued] EXCEPT ![s] = z]
    BY <1>6
  <2>2. [t \in Station |-> link'[t].RX_Q] = [t \in Station |-> link[t].RX_Q]
    BY <1>5, <1>6
  <2>3. [t \in Station |-> link'[t].L2STATE >= 5]
          = [t \in Station |-> link[t].L2STATE >= 5]
    BY <1>5, <1>6
  <2>4. z > L.queued /\ [t \in Station |-> link'[t].queued][s] = z
    BY <1>6, <1>9
  <2> HIDE DEF z
  <2> QED
    BY <1>2, <2>1, <2>2, <2>3, <2>4 DEF Link!Queue
<1>14. Link!Next
  BY <1>13, Zenon DEF Link!Next
<1> QED
  BY <1>12, <1>14 DEF Good

\* A close: at once, or once TX_Q and the window are empty.  Nothing was taken
\* by an end that may close, so what PROC_I_FRAME drops from now on is nothing.
LEMMA CloseGood ==
    ASSUME Covered, IInv, Main, NoReset, NEW s \in Station, CloseSession(s)
    PROVE  Good
<1> DEFINE L == link[s]
           M == link[Other(s)]
           P == [L EXCEPT !.circuit = FALSE, !.DISCPENDING = TRUE]
           D == [L EXCEPT !.circuit = FALSE, !.L2STATE = 4, !.L2TIMER = TRUE]
<1>1. /\ TypeOK /\ L \in Links /\ Receiver(L) /\ Receiver(M) /\ L.loaded \in Nat
      /\ air[s] \in Seq(Frames) /\ air[Other(s)] \in Seq(Frames) /\ Local(s, L)
      /\ Pair(L, M, air[Other(s)], air[s], 0) /\ Other(s) \in Station
      /\ Other(s) # s /\ Local(Other(s), M)
      /\ M.queued \in Nat /\ M.loaded \in Nat
  BY Ends, OtherOther DEF IInv
<1>2. L.L2STATE >= 5 /\ s \in Closers
  BY DEF CloseSession
<1>3. L.L2STATE \in {5, 6} /\ L.L2STATE >= 4
  BY <1>1, <1>2, StateType
<1>4. Fit(L) /\ Taken(L) \in Nat /\ L.RXFRAMES \in [SeqNo -> Nat]
  BY <1>1, <1>3, FitTypes DEF Local
<1>5. Taken(L) = 0 /\ NoneSaved(L)
  <2>1. M.loaded = 0
    <3>1. /\ M.loaded <= M.queued /\ M.queued <= MaxMsgs[Other(s)]
          /\ MaxMsgs[Other(s)] = 0
      BY <1>1, <1>2 DEF Local, Covered
    <3> QED
      BY <1>1, <3>1
  <2>2. PICK a \in 0..Taken(L) : Coming(a, M.loaded, L, air[s], 0)
    BY <1>1, <1>3 DEF Pair, Way, Data
  <2>3. Below(L, 0)
    BY <2>1, <2>2 DEF Coming
  <2> QED
    BY <1>4, <2>3 DEF Below, NoneSaved, NoMsg
<1>6. /\ P \in Links /\ SameWindow(L, P) /\ P.RX_Q = L.RX_Q /\ P.LINKNR = L.LINKNR
      /\ P.RXFRAMES = L.RXFRAMES /\ P.L2STATE = L.L2STATE /\ P.queued = L.queued
      /\ P.LINKWS = L.LINKWS
  BY <1>1 DEF Links, SameWindow
<1>7. /\ D \in Links /\ SameWindow(L, D) /\ D.RX_Q = L.RX_Q /\ D.LINKNR = L.LINKNR
      /\ D.RXFRAMES = L.RXFRAMES /\ D.L2STATE = 4 /\ D.queued = L.queued
      /\ D.LINKWS = L.LINKWS
  BY <1>1 DEF Links, SameWindow, LinkStates
<1>8. link' = [link EXCEPT ![s] = P] \/ link' = [link EXCEPT ![s] = D]
  BY DEF CloseSession
<1>9. air' = [air EXCEPT ![s] = air[s], ![Other(s)] = air[Other(s)]]
  BY <1>1 DEF CloseSession, TypeOK
<1> HIDE DEF P, D
<1>10. PICK N \in {P, D} : link' = [link EXCEPT ![s] = N]
  BY <1>8
<1>11. /\ N \in Links /\ SameWindow(L, N) /\ N.RX_Q = L.RX_Q /\ N.LINKNR = L.LINKNR
       /\ N.RXFRAMES = L.RXFRAMES /\ N.L2STATE \in {4, 5, 6} /\ N.queued = L.queued
       /\ N.LINKWS = L.LINKWS
  BY <1>3, <1>6, <1>7
<1>12. /\ Acked(N) = Acked(L) /\ Taken(N) = Taken(L) /\ N.L2STATE >= 4
       /\ N.loaded = L.loaded
  BY <1>11 DEF SameWindow, Acked, Held, Taken
<1>13. OK(N)
  BY <1>4, <1>11, SameWindowOK, FitTypes
<1>14. Fit(N)
  BY <1>4, <1>5, <1>11, <1>12, <1>13 DEF Fit, Receives, NoneSaved
<1>15. Local(s, N)
  <2>1. ~(N.L2STATE < 4) /\ N.loaded <= N.queued
    BY <1>11, <1>14, FitTypes
  <2> QED
    BY <1>1, <1>2, <1>11, <1>14, <2>1 DEF Local
<1>16. Pair(N, M, air[Other(s)], air[s], 0)
  <2>1. L.loaded <= N.loaded /\ N.loaded \in Nat
    BY <1>1, <1>12
  <2> QED
    BY <1>1, <1>3, <1>11, <1>12, <2>1, PairStays
<1>17. Main'
  BY <1>1, <1>9, <1>10, <1>11, <1>15, <1>16, MainStep
<1>18. Handed(L, N, M.queued)
  <2>1. ~(L.L2STATE < 5) /\ Taken(L) <= M.queued
    BY <1>1, <1>3, <1>5
  <2> QED
    BY <1>11, <2>1 DEF Handed
<1>19. [Link!Next]_StreamNow
  BY <1>1, <1>10, <1>11, <1>18, StreamStep
<1> QED
  BY <1>17, <1>19 DEF Good

\* The main loop's send pass.
LEMMA SendPassGood ==
    ASSUME IInv, Main, NoReset, NEW s \in Station, SendPass(s)
    PROVE  Good
<1>1. TypeOK /\ link[s] \in Links /\ Local(s, link[s])
  BY Ends DEF IInv
<1>2. link[s].L2STATE >= 5
  BY DEF SendPass, CanSend
<1>3. link[s].L2STATE >= 4
  BY <1>1, <1>2, StateType
<1>4. Fit(link[s])
  BY <1>1, <1>3 DEF Local
<1>5. Goes(link[s], SDETX(link[s]), 0)
  BY <1>4, SDETXGoes
<1> QED
  BY <1>1, <1>5, SendsMain DEF SendPass

\* The entry when a frame has been heard and its N(R) seen to.
LEMMA HeardFits ==
    ASSUME NEW s \in Station, Fit(link[s]), NEW f \in Frames,
           AcksHeld(link[s], f.nr), NEW A, A = SDNRCHK(Heard(s), f)
    PROVE  /\ Fit(A) /\ A.queued = link[s].queued
           /\ A.loaded = link[s].loaded /\ A.RX_Q = link[s].RX_Q
           /\ A.RXFRAMES = link[s].RXFRAMES
           /\ A.DISCPENDING => link[s].DISCPENDING
           /\ A.L2STATE = link[s].L2STATE \/ (A.L2STATE = 4 /\ link[s].DISCPENDING)
           /\ \/ A.LINKWS = link[s].LINKWS /\ Acked(A) = Acked(link[s])
              \/ /\ A.LINKWS = f.nr
                 /\ Acked(A) = Acked(link[s]) + Dist(link[s].LINKWS, f.nr)
           /\ ~(f.type = "SREJ" /\ ~f.pf) => f.nr = A.LINKWS
<1> DEFINE L == link[s]
           H == Heard(s)
<1>1. L \in Links
  BY FitTypes
<1>2. H = L \/ H = [L EXCEPT !.L2TIMER = FALSE]
  BY DEF Heard
<1> HIDE DEF H
<1>3. Moves(L, H, 0)
  BY <1>2, MovesSelf, FlagsMove
<1>4. /\ SameWindow(L, H) /\ H.LINKWS = L.LINKWS
      /\ H.queued = L.queued /\ H.loaded = L.loaded
      /\ H.RX_Q = L.RX_Q /\ H.RXFRAMES = L.RXFRAMES /\ H.L2STATE = L.L2STATE
      /\ H.DISCPENDING = L.DISCPENDING
  BY <1>1, <1>2 DEF Links, SameWindow
<1>5. Fit(H) /\ Acked(H) = Acked(L)
  BY <1>3 DEF Moves
<1>6. AcksHeld(H, f.nr)
  BY <1>4 DEF AcksHeld, Held, SameWindow
<1>7. A = SDNRCHK(H, f)
  BY DEF H
<1>8. /\ Fit(A) /\ A.queued = H.queued /\ A.loaded = H.loaded /\ A.RX_Q = H.RX_Q
      /\ A.RXFRAMES = H.RXFRAMES /\ A.LINKNR = H.LINKNR
      /\ A.DISCPENDING => H.DISCPENDING
      /\ A.L2STATE = H.L2STATE \/ (A.L2STATE = 4 /\ H.DISCPENDING)
      /\ \/ A.LINKWS = H.LINKWS /\ Acked(A) = Acked(H)
         \/ A.LINKWS = f.nr /\ Acked(A) = Acked(H) + Dist(H.LINKWS, f.nr)
      /\ ~(f.type = "SREJ" /\ ~f.pf) => f.nr = A.LINKWS
  BY <1>5, <1>6, <1>7, SDNRCHKFits
<1> QED
  BY <1>4, <1>5, <1>8

\* The entry after a reset or once it is cleared, and the frames that carry
\* neither data nor N(R).
LEMMA ColdFields ==
    ASSUME NEW L \in Links
    PROVE  /\ LET N == CLEAROUTLINK(L)
              IN  /\ N \in Links /\ N.L2STATE < 4 /\ NoneSaved(N) /\ ~N.L2ACKREQ
                  /\ ~N.DISCPENDING /\ N.queued = L.queued /\ N.RX_Q = L.RX_Q
                  /\ N.loaded = L.queued
           /\ LET N == SDFRMR(L).link
              IN  /\ N \in Links /\ N.L2STATE < 4 /\ NoneSaved(N) /\ ~N.L2ACKREQ
                  /\ ~N.DISCPENDING /\ N.queued = L.queued /\ N.RX_Q = L.RX_Q
                  /\ N.loaded = L.queued
<1>1. /\ L.Ver2point2 \in BOOLEAN /\ L.circuit \in BOOLEAN /\ L.queued \in Nat
      /\ L.RX_Q \in Seq(Nat) /\ L.IFrameRetryCounter \in Nat
      /\ 0 \in LinkStates /\ 2 \in LinkStates /\ 0 < 4 /\ 2 < 4
  BY DEF Links, LinkStates
<1>2. NewLink \in Links
  BY NewLinkOK
<1> DEFINE E == [NewLink EXCEPT !.L2STATE = 0, !.circuit = L.circuit,
                    !.queued = L.queued, !.loaded = L.queued, !.RX_Q = L.RX_Q]
           F == [NewLink EXCEPT !.L2STATE = 2, !.L2TIMER = TRUE,
                  !.Ver2point2 = L.Ver2point2, !.circuit = L.circuit,
                  !.queued = L.queued, !.loaded = L.queued, !.RX_Q = L.RX_Q,
                  !.IFrameRetryCounter = L.IFrameRetryCounter]
<1>3. E \in Links /\ F \in Links
  BY <1>1, <1>2 DEF Links
<1>4. /\ E.L2STATE = 0 /\ NoneSaved(E) /\ ~E.L2ACKREQ /\ ~E.DISCPENDING
      /\ E.queued = L.queued /\ E.RX_Q = L.RX_Q /\ E.loaded = L.queued
  BY DEF NewLink, NoneSaved
<1>5. /\ F.L2STATE = 2 /\ NoneSaved(F) /\ ~F.L2ACKREQ /\ ~F.DISCPENDING
      /\ F.queued = L.queued /\ F.RX_Q = L.RX_Q /\ F.loaded = L.queued
  BY DEF NewLink, NoneSaved
<1>6. CLEAROUTLINK(L) = E
  BY DEF CLEAROUTLINK
<1>7. SDFRMR(L).link = F
  BY DEF SDFRMR
<1> HIDE DEF E, F
<1> QED
  BY <1>1, <1>3, <1>4, <1>5, <1>6, <1>7

\* A U frame carries neither a message nor N(R).
LEMMA UFrameCold ==
    ASSUME NEW t \in {"SABM", "DISC", "UA", "DM"}, NEW c \in BOOLEAN,
           NEW p \in BOOLEAN,
           NEW o, o = << UFrame(t, c, p) >>
    PROVE  /\ o \in Seq(Frames) /\ Len(o) = 1
           /\ \A k \in 1..Len(o) : ~IsData(o[k]) /\ ~IsAck(o[k])
<1>1. UFrame(t, c, p) \in Frames
  BY UFrameType DEF FrameTypes
<1>2. ~IsData(UFrame(t, c, p)) /\ ~IsAck(UFrame(t, c, p))
  BY DEF IsData, IsAck, UFrame, Frame
<1> DEFINE x == UFrame(t, c, p)
<1> HIDE DEF x
<1>3. o = << x >> /\ x \in Frames /\ ~IsData(x) /\ ~IsAck(x)
  BY <1>1, <1>2 DEF x
<1>4. \A k \in 1..1 : k = 1
  OBVIOUS
<1> QED
  BY <1>3, <1>4

\* An N(R) that SDNRCHK refuses: the link is reset.
LEMMA ResetGood ==
    ASSUME TypeOK, Main, NoReset, NEW s \in Station, Answers(s, SDFRMR(link[s]))
    PROVE  Good
<1> DEFINE N == SDFRMR(link[s]).link
           o == SDFRMR(link[s]).out
<1>1. /\ N \in Links /\ N.L2STATE < 4 /\ NoneSaved(N) /\ ~N.L2ACKREQ
      /\ ~N.DISCPENDING /\ N.queued = link[s].queued /\ N.RX_Q = link[s].RX_Q
      /\ N.loaded = link[s].queued
  BY ColdFields DEF TypeOK
<1>2. o = << UFrame("SABM", TRUE, TRUE) >>
  BY DEF SDFRMR
<1>3. /\ link' = [link EXCEPT ![s] = N]
      /\ air' = [air EXCEPT ![s] = Tail(air[s]),
                            ![Other(s)] = Clip(air[Other(s)] \o o)]
  BY OtherOther DEF Answers, TypeOK
<1> HIDE DEF N, o
<1>4. o \in Seq(Frames) /\ \A k \in 1..Len(o) : ~IsData(o[k]) /\ ~IsAck(o[k])
  BY <1>2, UFrameCold
<1>5. link[s].loaded <= N.loaded /\ N.loaded <= N.queued
  BY <1>1, StateType DEF Main, Local
<1> QED
  BY <1>1, <1>3, <1>4, <1>5, ColdMain

\* An I frame.  An end with a close pending is sent none, so SDIFRM runs with
\* the state that the frame found.
LEMMA RecvIFrameGood ==
    ASSUME Covered, IInv, Main, NoReset, NEW s \in Station, RecvIFrame(s)
    PROVE  Good
<1> DEFINE f == Head(air[s])
           L == link[s]
           M == link[Other(s)]
<1>1. air[s] # << >> /\ f.type = "I" /\ L.L2STATE >= 5
  BY DEF RecvIFrame, Hears
<1>2. f \in Frames
  BY <1>1, HeadType
<1>3. /\ TypeOK /\ L \in Links /\ Local(s, L)
      /\ M.queued \in Nat /\ M.loaded \in Nat
      /\ Local(Other(s), M) /\ Pair(L, M, air[Other(s)], air[s], 0)
      /\ air[s] \in Seq(Frames)
  BY Ends DEF IInv
<1>4. PICK busy \in BOOLEAN, recent \in BOOLEAN :
        Answers(s, IF GoodNR(link[s], f.nr)
                   THEN SDIFRM(SDNRCHK(Heard(s), f), f, busy, recent)
                   ELSE SDFRMR(link[s]))
  BY Zenon DEF RecvIFrame, BusyChoice
<1>5. Fit(L) /\ L.L2STATE \in {5, 6}
  <2>1. L.L2STATE \in {5, 6} /\ L.L2STATE >= 4
    BY <1>1, <1>3, StateType
  <2> QED
    BY <1>3, <2>1 DEF Local
<1>6. f = Head(air[s]) /\ AcksHeld(L, f.nr)
  BY HeardAcks DEF HeadAcks, RecvIFrame, Hears
<1> HIDE DEF f
<1>7. CASE ~GoodNR(link[s], f.nr)
  BY <1>3, <1>4, <1>7, ResetGood
<1>8. CASE GoodNR(link[s], f.nr)
  <2> DEFINE A == SDNRCHK(Heard(s), f)
             r == SDIFRM(A, f, busy, recent)
  <2>1. /\ Fit(A) /\ A.queued = L.queued /\ A.loaded = L.loaded
        /\ A.RX_Q = L.RX_Q /\ A.RXFRAMES = L.RXFRAMES
        /\ A.DISCPENDING => L.DISCPENDING
        /\ A.L2STATE = L.L2STATE \/ (A.L2STATE = 4 /\ L.DISCPENDING)
        /\ \/ A.LINKWS = L.LINKWS /\ Acked(A) = Acked(L)
           \/ A.LINKWS = f.nr /\ Acked(A) = Acked(L) + Dist(L.LINKWS, f.nr)
    BY <1>2, <1>5, <1>6, HeardFits
  <2>2. Answers(s, r)
    BY <1>4, <1>8
  <2>3. IsData(f) /\ IsAck(f)
    BY <1>1 DEF IsData, IsAck, f
  <2> HIDE DEF A
  <2>4. /\ f.m >= 1 /\ f.m <= M.loaded /\ f.m <= Taken(L) + LINKWINDOW
        /\ f.ns = (f.m - 1) % SeqMod /\ Below(L, f.m + LINKWINDOW - 1)
    BY <1>1, <1>3, <1>5, <1>6, <2>3, DataHeard
  <2>5. f.m \in Nat
    BY <1>2 DEF Frames
  <2>6. ~L.DISCPENDING
    <3>1. SUFFICES ASSUME L.DISCPENDING
                   PROVE  FALSE
      OBVIOUS
    <3>2. /\ M.loaded <= M.queued /\ M.queued <= MaxMsgs[Other(s)]
          /\ MaxMsgs[Other(s)] = 0
      BY <1>3, <3>1 DEF Local, Covered
    <3> QED
      BY <1>3, <2>4, <2>5, <3>2
  <2>7. A.L2STATE >= 5 /\ ~A.DISCPENDING
    BY <1>1, <2>1, <2>6
  <2>8. Taken(A) = Taken(L) /\ Below(A, f.m + LINKWINDOW - 1)
    BY <2>1, <2>4 DEF Taken, Below
  <2>9. LINKWINDOW <= RcvWindow
    BY DEF Covered
  <2>10. f.m <= Taken(A) + LINKWINDOW
    BY <2>4, <2>8
  <2>11. Goes(A, r, f.m)
    BY <1>2, <2>1, <2>4, <2>7, <2>8, <2>9, <2>10, SDIFRMGoes
  <2> HIDE DEF r
  <2>12. ~(L.L2STATE = 4)
    BY <1>5
  <2> DEFINE m == IF IsData(f) THEN f.m ELSE 0
  <2>13. m = f.m
    BY <2>3
  <2> HIDE DEF m
  <2>14. Goes(A, r, m)
    BY <2>11, <2>13
  <2> QED
    BY <1>1, <1>3, <1>5, <1>6, <2>1, <2>2, <2>3, <2>12, <2>14, AnswersMain DEF m
<1> QED
  BY <1>7, <1>8

\* A supervisory frame.
LEMMA RecvSFrameGood ==
    ASSUME Covered, IInv, Main, NoReset, NEW s \in Station, RecvSFrame(s)
    PROVE  Good
<1> DEFINE f == Head(air[s])
           L == link[s]
<1>1. /\ air[s] # << >> /\ f.type \in {"RR", "RNR", "REJ", "SREJ"}
      /\ L.L2STATE >= 5
  BY DEF RecvSFrame, Hears
<1>2. f \in Frames
  BY <1>1, HeadType
<1>3. TypeOK /\ L \in Links /\ Local(s, L)
  BY Ends DEF IInv
<1>4. PICK busy \in BOOLEAN, recent \in BOOLEAN :
        Answers(s, IF GoodNR(link[s], f.nr)
                   THEN SFRAME(SDNRCHK(Heard(s), f), f, busy, recent)
                   ELSE SDFRMR(link[s]))
  BY Zenon DEF RecvSFrame, BusyChoice
<1>5. Fit(L) /\ L.L2STATE \in {5, 6}
  <2>1. L.L2STATE \in {5, 6} /\ L.L2STATE >= 4
    BY <1>1, <1>3, StateType
  <2> QED
    BY <1>3, <2>1 DEF Local
<1>6. f = Head(air[s]) /\ AcksHeld(L, f.nr)
  BY HeardAcks DEF HeadAcks, RecvSFrame, Hears
<1>7. ~IsData(f) /\ IsAck(f)
  BY <1>1 DEF IsData, IsAck
<1> HIDE DEF f
<1>8. CASE ~GoodNR(link[s], f.nr)
  BY <1>3, <1>4, <1>8, ResetGood
<1>9. CASE GoodNR(link[s], f.nr)
  <2> DEFINE A == SDNRCHK(Heard(s), f)
             r == SFRAME(A, f, busy, recent)
             m == IF IsData(f) THEN f.m ELSE 0
  <2>1. /\ Fit(A) /\ A.queued = L.queued /\ A.loaded = L.loaded
        /\ A.RX_Q = L.RX_Q /\ A.RXFRAMES = L.RXFRAMES
        /\ A.DISCPENDING => L.DISCPENDING
        /\ \/ A.LINKWS = L.LINKWS /\ Acked(A) = Acked(L)
           \/ A.LINKWS = f.nr /\ Acked(A) = Acked(L) + Dist(L.LINKWS, f.nr)
        /\ ~(f.type = "SREJ" /\ ~f.pf) => f.nr = A.LINKWS
    BY <1>2, <1>5, <1>6, HeardFits
  <2>2. Answers(s, r)
    BY <1>4, <1>9
  <2> HIDE DEF A
  <2>3. Goes(A, r, 0)
    BY <1>2, <2>1, SFRAMEGoes
  <2> HIDE DEF r
  <2>4. ~(L.L2STATE = 4)
    BY <1>5
  <2>5. m = 0
    BY <1>7
  <2> HIDE DEF m
  <2>6. Goes(A, r, m)
    BY <2>3, <2>5
  <2> QED
    BY <1>1, <1>3, <1>5, <1>6, <1>7, <2>1, <2>2, <2>4, <2>6, AnswersMain DEF m
<1> QED
  BY <1>8, <1>9

\* The entry is cleared.
LEMMA ClearedGood ==
    ASSUME TypeOK, Main, NoReset, NEW s \in Station, NEW in,
           NEW K \in {link[s], InformPartner(link[s])},
           NEW o, o = << >> \/ o = << UFrame("UA", FALSE, TRUE) >>,
           link' = [link EXCEPT ![s] = CLEAROUTLINK(K)],
           air' = [air EXCEPT ![s] = in, ![Other(s)] = Clip(air[Other(s)] \o o)]
    PROVE  Good
<1> DEFINE N == CLEAROUTLINK(K)
<1>1. K \in Links /\ K.queued = link[s].queued /\ K.RX_Q = link[s].RX_Q
  <2>1. link[s] \in Links
    BY DEF TypeOK
  <2> DEFINE L == link[s]
             P == [L EXCEPT !.circuit = FALSE]
  <2>2. P \in Links /\ P.queued = L.queued /\ P.RX_Q = L.RX_Q
    BY <2>1 DEF Links
  <2> HIDE DEF P
  <2>3. K = L \/ K = P
    BY DEF InformPartner, P
  <2> QED
    BY <2>1, <2>2, <2>3
<1>2. /\ N \in Links /\ N.L2STATE < 4 /\ NoneSaved(N) /\ ~N.L2ACKREQ
      /\ ~N.DISCPENDING /\ N.queued = link[s].queued /\ N.RX_Q = link[s].RX_Q
      /\ N.loaded = link[s].queued
  BY <1>1, ColdFields
<1>3. o \in Seq(Frames) /\ \A k \in 1..Len(o) : ~IsData(o[k]) /\ ~IsAck(o[k])
  <2>1. CASE o = << >>
    BY <2>1
  <2>2. CASE o = << UFrame("UA", FALSE, TRUE) >>
    BY <2>2, UFrameCold
  <2> QED
    BY <2>1, <2>2
<1> HIDE DEF N
<1>4. link' = [link EXCEPT ![s] = N]
  BY DEF N
<1>5. link[s].loaded <= N.loaded /\ N.loaded <= N.queued
  BY <1>2, StateType DEF Main, Local
<1> QED
  BY <1>2, <1>3, <1>4, <1>5, ColdMain

\* A frame that only stops the timer: data while the link is closing, or an UA
\* on a link that is up.
LEMMA NotedGood ==
    ASSUME TypeOK, Main, NoReset, NEW s \in Station, link[s].L2STATE >= 4,
           air[s] # << >>, Answers(s, Silent(Heard(s)))
    PROVE  Good
<1> DEFINE L == link[s]
           f == Head(air[s])
           m == IF IsData(f) THEN f.m ELSE 0
           r == Silent(Heard(s))
<1>1. Fit(L)
  BY Ends
<1>2. Heard(s) = L \/ Heard(s) = [L EXCEPT !.L2TIMER = FALSE]
  BY DEF Heard
<1>3. Moves(L, Heard(s), 0)
  BY <1>1, <1>2, MovesSelf, FlagsMove
<1>4. Goes(L, r, 0)
  BY <1>3, SilentGoes
<1>5. f \in Frames
  <2>1. air[s] \in Seq(Frames)
    BY DEF TypeOK
  <2> QED
    BY <2>1, TailIs
<1>6. m \in Nat
  BY <1>5 DEF Frames
<1> HIDE DEF r
<1>7. Goes(L, r, m)
  BY <1>4, <1>6, GoesMore
<1>8. Answers(s, r)
  BY DEF r
<1> QED
  BY <1>1, <1>7, <1>8, AnswersMain

\* The frames that end the link, and those that find nothing to act on.
LEMMA RecvOtherGood ==
    ASSUME IInv, Main, NoReset, NEW s \in Station,
           RecvDISC(s) \/ RecvUA(s) \/ RecvDM(s) \/ RecvWhileClosing(s)
           \/ RecvNoLink(s)
    PROVE  Good
<1> DEFINE I == InformPartner(link[s])
           t == Tail(air[s])
           o == air[Other(s)]
           u == << UFrame("UA", FALSE, TRUE) >>
           d == << UFrame("DM", FALSE, TRUE) >>
<1>1. air[s] # << >> /\ TypeOK /\ link[s] \in Links
  BY DEF RecvDISC, RecvUA, RecvDM, RecvWhileClosing, RecvNoLink, Hears, IInv, TypeOK
<1>2. Other(s) \in Station /\ Other(s) # s
  BY OtherOther
<1>3. ASSUME NEW r, Answers(s, r)
      PROVE  /\ link' = [link EXCEPT ![s] = r.link]
             /\ air' = [air EXCEPT ![s] = t, ![Other(s)] = Clip(o \o r.out)]
  BY <1>1, <1>2, <1>3 DEF Answers, TypeOK
<1> HIDE DEF t
<1>4. CASE RecvDISC(s)
  <2>1. Answers(s, [link |-> CLEAROUTLINK(I), out |-> u])
    BY <1>4 DEF RecvDISC
  <2> HIDE DEF I, u
  <2>2. /\ link' = [link EXCEPT ![s] = CLEAROUTLINK(I)]
        /\ air' = [air EXCEPT ![s] = t, ![Other(s)] = Clip(o \o u)]
    BY <1>3, <2>1
  <2> QED
    BY <1>1, <2>2, ClearedGood DEF I, u
<1>5. CASE RecvUA(s) \/ RecvDM(s)
  <2>1. \/ Answers(s, Silent(CLEAROUTLINK(I)))
        \/ Answers(s, Silent(Heard(s))) /\ link[s].L2STATE >= 4
    BY <1>5 DEF RecvUA, RecvDM
  <2>2. CASE Answers(s, Silent(CLEAROUTLINK(I)))
    <3> HIDE DEF I
    <3>1. /\ link' = [link EXCEPT ![s] = CLEAROUTLINK(I)]
          /\ air' = [air EXCEPT ![s] = t, ![Other(s)] = Clip(o \o << >>)]
      <4> DEFINE r == Silent(CLEAROUTLINK(I))
      <4>1. r.link = CLEAROUTLINK(I) /\ r.out = << >>
        BY DEF Silent
      <4> HIDE DEF r
      <4>2. Answers(s, r)
        BY <2>2 DEF r
      <4> QED
        BY <1>3, <4>1, <4>2
    <3> QED
      BY <1>1, <3>1, ClearedGood DEF I
  <2>3. CASE Answers(s, Silent(Heard(s))) /\ link[s].L2STATE >= 4
    BY <1>1, <2>3, NotedGood
  <2> QED
    BY <2>1, <2>2, <2>3
<1>6. CASE RecvWhileClosing(s)
  BY <1>1, <1>6, NotedGood DEF RecvWhileClosing
<1>7. CASE RecvNoLink(s)
  <2>1. link[s].L2STATE = 0
    BY <1>7 DEF RecvNoLink
  <2>2. PICK e \in {d, << >>} : Answers(s, [link |-> link[s], out |-> e])
    BY <1>7 DEF RecvNoLink
  <2>3. /\ link' = [link EXCEPT ![s] = link[s]]
        /\ air' = [air EXCEPT ![s] = t, ![Other(s)] = Clip(o \o e)]
    BY <1>3, <2>2
  <2>4. Local(s, link[s])
    BY DEF Main
  <2>5. /\ link[s].L2STATE < 4 /\ NoneSaved(link[s]) /\ ~link[s].L2ACKREQ
        /\ link[s].loaded <= link[s].loaded /\ link[s].loaded <= link[s].queued
    BY <1>1, <2>1, <2>4, StateType DEF Local
  <2>6. e \in Seq(Frames) /\ \A k \in 1..Len(e) : ~IsData(e[k]) /\ ~IsAck(e[k])
    <3>1. CASE e = << >>
      BY <3>1
    <3>2. CASE e = d
      BY <3>2, UFrameCold
    <3> QED
      BY <3>1, <3>2
  <2> QED
    BY <1>1, <2>3, <2>5, <2>6, ColdMain
<1> QED
  BY <1>4, <1>5, <1>6, <1>7

\* A frame is lost on the air.
LEMMA LoseGood ==
    ASSUME IInv, Main, NoReset, NEW s \in Station, LoseFrame(s)
    PROVE  Good
<1> DEFINE L == link[s]
           M == link[Other(s)]
           out == air[Other(s)]
           in == Tail(air[s])
<1>1. /\ TypeOK /\ L \in Links /\ Local(s, L) /\ Receiver(L) /\ Receiver(M)
      /\ M.loaded \in Nat /\ air[s] \in Seq(Frames) /\ air[Other(s)] \in Seq(Frames)
      /\ Pair(L, M, out, air[s], 0)
  BY Ends DEF IInv
<1>2. air[s] # << >> /\ UNCHANGED link /\ air' = [air EXCEPT ![s] = in]
  BY DEF LoseFrame
<1>3. Pair(L, M, out, in, 0)
  BY <1>1, <1>2, PairLoses
<1> HIDE DEF in
<1>4. air' = [air EXCEPT ![s] = in, ![Other(s)] = out]
  BY <1>2, OtherOther DEF TypeOK
<1>5. link' = [link EXCEPT ![s] = L]
  BY <1>1, <1>2 DEF TypeOK
<1>6. Main'
  BY <1>1, <1>3, <1>4, <1>5, MainStep
<1>7. StreamNow' = StreamNow
  BY <1>2 DEF StreamNow
<1> QED
  BY <1>6, <1>7 DEF Good

\* The retry timer, up to and past N2.
LEMMA L2TIMEOUTGood ==
    ASSUME IInv, Main, NoReset, NEW s \in Station, L2TIMEOUT(s)
    PROVE  Good
<1> DEFINE L == link[s]
           D == << UFrame("DISC", TRUE, TRUE) >>
<1>1. /\ TypeOK /\ L \in Links /\ Local(s, L) /\ (L.L2STATE >= 4 => Fit(L))
  BY Ends DEF IInv
<1>2. L.L2STATE >= 4 /\ Fit(L)
  <2>1. L.L2STATE >= 5 \/ L.L2STATE = 4
    BY DEF L2TIMEOUT, RetryPoll, RetriedOut, RetryDISC
  <2>2. L.L2STATE \in Nat
    BY <1>1, StateType
  <2>3. L.L2STATE >= 4
    BY <2>1, <2>2
  <2> QED
    BY <1>1, <2>3
<1>3. OK(Retried(L))
  <2>1. OK(L)
    BY <1>2 DEF Fit
  <2> QED
    BY <2>1, RetriedOK
<1>4. D \in Seq(Frames) /\ \A k \in 1..Len(D) : ~IsData(D[k]) /\ ~IsAck(D[k])
  BY UFrameCold
<1>5. ASSUME NEW N, Moves(L, N, 0)
      PROVE  Goes(L, [link |-> N, out |-> D], 0)
  <2>1. [link |-> N, out |-> D].link = N /\ [link |-> N, out |-> D].out = D
    BY Zenon
  <2> HIDE DEF D
  <2> QED
    BY <1>4, <1>5, <2>1 DEF Goes, Sent
<1>6. Moves(L, Retried(L), 0)
  <2> DEFINE N == Retried(L)
  <2>1. /\ SameWindow(L, N) /\ N.LINKWS = L.LINKWS /\ N.queued = L.queued
        /\ N.RX_Q = L.RX_Q /\ N.RXFRAMES = L.RXFRAMES /\ N.LINKNR = L.LINKNR
        /\ N.L2STATE = L.L2STATE /\ (N.DISCPENDING => L.DISCPENDING)
    BY <1>1 DEF Retried, Links, SameWindow
  <2>2. OK(N)
    BY <1>3
  <2> HIDE DEF N
  <2>3. Moves(L, N, 0)
    BY <1>2, <2>1, <2>2, MovesIntro
  <2> QED
    BY <2>3 DEF N
<1>7. CASE RetryPoll(s)
  <2>1. PICK busy \in BOOLEAN : Sends(s, SendSupervisCmd(Retried(L), busy))
    BY <1>7, Zenon DEF RetryPoll, BusyChoice
  <2>2. Fit(Retried(L))
    BY <1>6 DEF Moves
  <2>3. Goes(Retried(L), SendSupervisCmd(Retried(L), busy), 0)
    BY <2>2, SendSupervisCmdGoes
  <2>4. Goes(L, SendSupervisCmd(Retried(L), busy), 0)
    BY <1>6, <2>3, GoesAfter
  <2> QED
    BY <1>1, <2>1, <2>4, SendsMain
<1>8. CASE RetriedOut(s)
  <2> DEFINE N == [InformPartner(L) EXCEPT !.L2STATE = 4]
  <2>1. /\ N \in Links /\ SameWindow(L, N) /\ N.LINKWS = L.LINKWS
        /\ N.queued = L.queued /\ N.RX_Q = L.RX_Q /\ N.RXFRAMES = L.RXFRAMES
        /\ N.LINKNR = L.LINKNR /\ N.L2STATE = 4 /\ (N.DISCPENDING => L.DISCPENDING)
    BY <1>1 DEF InformPartner, Links, SameWindow, LinkStates
  <2>2. Sends(s, [link |-> N, out |-> D])
    BY <1>8 DEF RetriedOut
  <2> HIDE DEF N
  <2>3. OK(N)
    BY <1>2, <2>1, SameWindowOK DEF Fit
  <2>4. Moves(L, N, 0)
    BY <1>2, <2>1, <2>3, MovesIntro
  <2> QED
    BY <1>1, <1>5, <2>2, <2>4, SendsMain
<1>9. CASE RetryDISC(s)
  <2> DEFINE T == [Retried(L) EXCEPT !.L2TIMER = TRUE]
             C == Silent(CLEAROUTLINK(L))
  <2>1. \/ Sends(s, C)
        \/ Sends(s, [link |-> T, out |-> D])
    BY <1>9 DEF RetryDISC
  <2>2. CASE Sends(s, C)
    <3>1. C.link = CLEAROUTLINK(L) /\ C.out = << >>
      BY DEF Silent
    <3> HIDE DEF C
    <3>2. /\ link' = [link EXCEPT ![s] = CLEAROUTLINK(L)]
          /\ air' = [air EXCEPT ![s] = air[s], ![Other(s)] = Clip(air[Other(s)] \o << >>)]
      BY <1>1, <2>2, <3>1, OtherOther DEF Sends, TypeOK
    <3> QED
      BY <1>1, <3>2, ClearedGood
  <2>3. CASE Sends(s, [link |-> T, out |-> D])
    <3>1. Fit(Retried(L))
      BY <1>6 DEF Moves
    <3>2. Moves(Retried(L), T, 0)
      BY <3>1, FlagsMove
    <3>3. Moves(L, T, 0)
      BY <1>6, <3>2, MovesTrans
    <3> HIDE DEF T
    <3> QED
      BY <1>1, <1>5, <2>3, <3>3, SendsMain
  <2> QED
    BY <2>1, <2>2, <2>3
<1> QED
  BY <1>7, <1>8, <1>9 DEF L2TIMEOUT

\* The delayed acknowledgement, the validation poll and the end of busy.
LEMMA OtherTimersGood ==
    ASSUME IInv, Main, NoReset, NEW s \in Station,
           SendAck(s) \/ ValidateLink(s) \/ BusyOver(s)
    PROVE  Good
<1> DEFINE L == link[s]
           A == [L EXCEPT !.L2ACKREQ = FALSE]
           R == RR_OR_RNR(L, FALSE, FALSE).link
           B == [R EXCEPT !.L2ACKREQ = FALSE]
<1>1. /\ TypeOK /\ L \in Links /\ Local(s, L) /\ (L.L2STATE >= 4 => Fit(L))
  BY Ends DEF IInv
<1>2. Fit(L)
  <2>1. L.L2STATE >= 4 \/ L.L2ACKREQ
    BY DEF SendAck, AckDue, ValidateLink, Quiet, BusyOver
  <2>2. L.L2STATE \in Nat
    BY <1>1, StateType
  <2>3. L.L2STATE >= 4
    BY <1>1, <2>1, <2>2 DEF Local
  <2> QED
    BY <1>1, <2>3
<1>3. Moves(L, A, 0) /\ Fit(A)
  BY <1>2, FlagsMove DEF Moves
<1>4. Moves(L, R, 0) /\ Fit(R)
  BY <1>2, RR_OR_RNRMoves DEF Moves
<1> HIDE DEF A, R
<1>5. Moves(R, B, 0)
  BY <1>4, FlagsMove
<1> HIDE DEF B
<1>6. Moves(L, B, 0) /\ Fit(B)
  BY <1>4, <1>5, MovesTrans DEF Moves
<1>7. CASE SendAck(s)
  <2>1. PICK busy \in BOOLEAN : Sends(s, SEND_RR_RESP(A, busy, FALSE))
    BY <1>7, Zenon DEF SendAck, BusyChoice, A
  <2>2. Goes(A, SEND_RR_RESP(A, busy, FALSE), 0)
    BY <1>3, SEND_RR_RESPGoes
  <2>3. Goes(L, SEND_RR_RESP(A, busy, FALSE), 0)
    BY <1>3, <2>2, GoesAfter
  <2> QED
    BY <1>1, <2>1, <2>3, SendsMain
<1>8. CASE ValidateLink(s)
  <2>1. PICK busy \in BOOLEAN : Sends(s, SendSupervisCmd(L, busy))
    BY <1>8, Zenon DEF ValidateLink, BusyChoice
  <2>2. Goes(L, SendSupervisCmd(L, busy), 0)
    BY <1>2, SendSupervisCmdGoes
  <2> QED
    BY <1>1, <2>1, <2>2, SendsMain
<1>9. CASE BusyOver(s)
  <2>1. \/ \E busy \in BOOLEAN : Sends(s, SendSupervisCmd(B, busy))
        \/ Sends(s, Silent(B))
    BY <1>9, Zenon DEF BusyOver, BusyChoice, B, R
  <2>2. ASSUME NEW busy \in BOOLEAN
        PROVE  Goes(L, SendSupervisCmd(B, busy), 0)
    <3>1. Goes(B, SendSupervisCmd(B, busy), 0)
      BY <1>6, SendSupervisCmdGoes
    <3> QED
      BY <1>6, <3>1, GoesAfter
  <2>3. Goes(L, Silent(B), 0)
    BY <1>6, SilentGoes
  <2> QED
    BY <1>1, <2>1, <2>2, <2>3, SendsMain
<1> QED
  BY <1>7, <1>8, <1>9
-----------------------------------------------------------------------------
(* The theorems.                                                           *)

\* Two links that have just come up, and nothing in the air.
LEMMA InitMain == Init => (Covered => Main) /\ Link!Init
<1> SUFFICES ASSUME Init
             PROVE  (Covered => Main) /\ Link!Init
  OBVIOUS
<1>1. PICK srej \in Versions :
         link = [s \in Station |-> [NewLink EXCEPT !.Ver2point2 = srej]]
  BY DEF Init
<1> DEFINE N == [NewLink EXCEPT !.Ver2point2 = srej]
<1>2. /\ N.L2STATE = 5 /\ N.LINKWS = 0 /\ N.LINKNR = 0 /\ N.SDTSLOT = 0
      /\ N.FRAMES = [i \in SeqNo |-> NoMsg] /\ N.RXFRAMES = [i \in SeqNo |-> NoMsg]
      /\ ~N.DISCPENDING /\ N.queued = 0 /\ N.loaded = 0 /\ N.RX_Q = << >>
  BY DEF NewLink
<1> HIDE DEF N
<1>3. \A s \in Station : link[s] = N /\ air[s] = << >>
  BY <1>1 DEF Init, N
<1>4. Taken(N) = 0 /\ Acked(N) = 0 /\ 0 \in SeqNo /\ 0 % SeqMod = 0
  <2>1. 0 \in SeqNo
    BY SeqModType
  <2>2. Held(N) = 0
    BY <1>2, <2>1 DEF Held
  <2>3. 0 % SeqMod = 0
    BY SeqModAssumption
  <2> QED
    BY <1>2, <2>1, <2>2, <2>3 DEF Taken, Acked
<1>5. IInv
  BY InitOK
<1>6. ASSUME Covered, NEW s \in Station
      PROVE  Local(s, N)
  <2>1. OK(N)
    BY <1>3, <1>5 DEF IInv, TypeOK, WindowInv, OK
  <2>2. Fit(N)
    BY <1>2, <1>4, <1>6, <2>1 DEF Fit, Receives, NoneSaved
  <2>3. 0 <= MaxMsgs[s]
    BY MaxMsgsAssumption
  <2> QED
    BY <1>2, <2>2, <2>3 DEF Local
<1>7. Way(N, N, << >>, << >>, 0)
  <2>1. \A b \in Nat : Below(N, b)
    BY <1>2, <1>4 DEF Below, NoMsg
  <2>2. Coming(0, N.loaded, N, << >>, 0)
    BY <1>2, <2>1, Sizes DEF Coming
  <2>3. Data(N, N, << >>, 0)
    BY <1>4, <2>2 DEF Data
  <2>4. Acks(N, N, << >>)
    BY <1>2, <1>4, Sizes DEF Acks
  <2> QED
    BY <2>3, <2>4 DEF Way
<1>8. Covered => Main
  <2>1. \A s \in Station : Other(s) \in Station
    BY OtherType
  <2> QED
    BY <1>3, <1>6, <1>7, <2>1 DEF Main
<1>9. Link!Init
  <2>1. \A s \in Station : /\ link[s].queued = 0 /\ link[s].RX_Q = << >>
                           /\ (link[s].L2STATE >= 5) = TRUE
    <3>1. (N.L2STATE >= 5) = TRUE
      BY <1>2
    <3> QED
      BY <1>2, <1>3, <3>1
  <2>2. [s \in Station |-> link[s].queued] = [s \in Station |-> 0]
    BY <2>1
  <2>3. [s \in Station |-> link[s].RX_Q] = [s \in Station |-> << >>]
    BY <2>1
  <2>4. [s \in Station |-> link[s].L2STATE >= 5] = [s \in Station |-> TRUE]
    BY <2>1
  <2> QED
    BY <2>2, <2>3, <2>4 DEF Link!Init
<1> QED
  BY <1>8, <1>9

\* Every step of the two stations is a step of the stream, or none.
LEMMA NextGood == Covered /\ IInv /\ Main /\ [Next]_vars => Good
<1> SUFFICES ASSUME Covered, IInv, Main, [Next]_vars
             PROVE  Good
  OBVIOUS
<1>1. CASE UNCHANGED vars
  <2>1. link' = link /\ air' = air
    BY <1>1 DEF vars
  <2>2. StreamNow' = StreamNow
    BY <2>1 DEF StreamNow
  <2>3. Main'
    BY <2>1 DEF Main, Local
  <2> QED
    BY <2>2, <2>3 DEF Good
<1>2. CASE Next
  <2>1. NoReset
    BY <1>2 DEF Next, NoReset
  <2>2. PICK s \in Station : QueueMessages(s) \/ CloseSession(s) \/ SendPass(s)
                             \/ Receive(s) \/ LoseFrame(s) \/ Timer(s)
    BY <1>2, Zenon DEF Next
  <2>3. CASE QueueMessages(s)
    BY <2>1, <2>3, QueueGood
  <2>4. CASE CloseSession(s)
    BY <2>1, <2>4, CloseGood
  <2>5. CASE SendPass(s)
    BY <2>1, <2>5, SendPassGood
  <2>6. CASE Receive(s)
    BY <2>1, <2>6, RecvIFrameGood, RecvSFrameGood, RecvOtherGood DEF Receive
  <2>7. CASE LoseFrame(s)
    BY <2>1, <2>7, LoseGood
  <2>8. CASE Timer(s)
    BY <2>1, <2>8, L2TIMEOUTGood, OtherTimersGood DEF Timer
  <2> QED
    BY <2>2, <2>3, <2>4, <2>5, <2>6, <2>7, <2>8
<1> QED
  BY <1>1, <1>2

\* Main keeps the invariant, and under Covered the invariant keeps Main.
LEMMA MainKept ==
    IInv /\ (Covered => Main) /\ [Next]_vars => (IInv /\ (Covered => Main))'
<1> SUFFICES ASSUME IInv, Covered => Main, [Next]_vars
             PROVE  (IInv /\ (Covered => Main))'
  OBVIOUS
<1>1. IInv'
  <2>1. CASE UNCHANGED vars
    BY <2>1 DEF vars, IInv, TypeOK, WindowInv
  <2>2. CASE Next
    <3>1. NoReset
      BY <2>2 DEF Next, NoReset
    <3>2. CASE Covered
      BY <2>2, <3>1, <3>2, HeardAcks, NextOK
    <3>3. CASE ~Covered
      BY <2>2, <3>3, NextOK DEF HeadAcks
    <3> QED
      BY <3>2, <3>3
  <2> QED
    BY <2>1, <2>2
<1>2. Covered => Main'
  BY NextGood DEF Good
<1> QED
  BY <1>1, <1>2

\* The invariant that the theorems below rest on.
THEOREM Invariant == Spec => [](IInv /\ (Covered => Main))
<1>1. Init => IInv /\ (Covered => Main)
  BY InitOK, InitMain
<1>2. IInv /\ (Covered => Main) /\ [Next]_vars => (IInv /\ (Covered => Main))'
  BY MainKept
<1> QED
  BY <1>1, <1>2, PTL DEF Spec

\* The entries keep the types of the struct, and the frames in the air those of
\* the frames, whatever the constants.
THEOREM TypeCorrect == Spec => []TypeOK
<1>1. IInv => TypeOK
  BY DEF IInv
<1> QED
  BY <1>1, Invariant, PTL

\* FRAMES holds the unacknowledged messages in order from LINKWS up to SDTSLOT,
\* although SDNRCHK takes any N(R) up to N(S) that is below LINKWS: what the
\* other end acknowledges is never more than FRAMES holds.
THEOREM WindowKept == ASSUME Covered PROVE Spec => []WindowInv
<1>1. IInv /\ (Covered => Main) => WindowInv
  BY DEF IInv
<1> QED
  BY <1>1, Invariant, PTL

\* The two link entries and the air between them implement the stream of
\* messages that level 4 counts on.
THEOREM StreamImplemented == ASSUME Covered PROVE Spec => ImplementsStream
<1>1. Init => Link!Init
  BY InitMain
<1>2. IInv /\ (Covered => Main) /\ [Next]_vars => [Link!Next]_StreamNow
  BY NextGood DEF Good
<1>3. Spec => Link!Spec
  BY <1>1, <1>2, Invariant, PTL DEF Spec, Link!Spec, StreamNow
<1> QED
  BY <1>3, PTL DEF ImplementsStream

\* No frame is released before the other end has passed it up.
THEOREM ReleasedIsReceived == ASSUME Covered PROVE Spec => []AckedIsReceived
<1>1. IInv /\ (Covered => Main) => AckedIsReceived
  <2> SUFFICES ASSUME Main, NEW s \in Station, link[s].L2STATE >= 5,
                      link[Other(s)].L2STATE >= 5, IInv
               PROVE  Acked(link[s]) <= Len(link[Other(s)].RX_Q)
    BY DEF AckedIsReceived
  <2>1. /\ Other(s) \in Station /\ \A t \in Station : t = s \/ t = Other(s)
    BY OtherOther
  <2>2. ASSUME NEW t \in {s, Other(s)}
        PROVE  link[t].L2STATE # 2 /\ link[t].L2STATE >= 4
    <3>1. link[t].L2STATE \in Nat /\ link[t].L2STATE >= 5
      BY <2>1, StateType DEF IInv, TypeOK
    <3> QED
      BY <3>1
  <2>3. Way(link[s], link[Other(s)], air[Other(s)], air[s], 0)
    BY <2>1, <2>2 DEF Main
  <2> QED
    BY <2>2, <2>3 DEF Way, Acks, Taken
<1> QED
  BY <1>1, Invariant, PTL

\* A frame saved out of sequence is the one that will be due in its slot.
THEOREM SavedWillBeDue == ASSUME Covered PROVE Spec => []SavedIsDue
<1>1. IInv /\ (Covered => Main) => SavedIsDue
  <2> SUFFICES ASSUME Main, IInv, NEW s \in Station, NEW i \in SeqNo,
                      link[s].RXFRAMES[i] # NoMsg
               PROVE  link[s].RXFRAMES[i]
                        = Len(link[s].RX_Q) + 1 + Dist(link[s].LINKNR, i)
    BY DEF SavedIsDue
  <2>1. Local(s, link[s]) /\ link[s].L2STATE \in Nat
    BY StateType DEF Main, IInv, TypeOK
  <2>2. link[s].L2STATE >= 4
    BY <2>1 DEF Local, NoneSaved
  <2> QED
    BY <2>1, <2>2 DEF Local, Fit, Receives, Taken
<1> QED
  BY <1>1, Invariant, PTL
=============================================================================
