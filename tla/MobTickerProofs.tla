-------------------------- MODULE MobTickerProofs ---------------------------
(***************************************************************************)
(* Theorems about MobTicker.                                               *)
(***************************************************************************)
EXTENDS MobTicker, CommonLemmas

\* FoldLeft goes through the sets of positions of a queue, the last position first.
Iter(g, b, q, n) ==
  [s \in SUBSET (1 .. n) |-> IF s = {} THEN b ELSE Show(g[s \ {Max(s)}], q[Max(s)])]

\* There is a function that does.
LEMMA IterExists ==
  ASSUME NEW b, NEW q, NEW n \in Nat
  PROVE  \E g : g = Iter(g, b, q, n)
<1> USE DEF Iter
<1> DEFINE A == {k \in Nat : \E g : g = Iter(g, b, q, k)}
<1>1. 0 \in A
  <2>1. SUBSET (1 .. 0) = {{}}
    OBVIOUS
  <2>2. PICK g : g = [s \in SUBSET (1 .. 0) |-> b]
    OBVIOUS
  <2>3. g = Iter(g, b, q, 0)
    BY <2>1, <2>2
  <2> QED
    BY <2>3
<1>2. ASSUME NEW k \in A PROVE k + 1 \in A
  <2>1. PICK g : g = Iter(g, b, q, k)
    OBVIOUS
  <2>2. k \in Nat
    OBVIOUS
  <2>3. PICK h : h = [s \in SUBSET (1 .. k + 1) |->
                        IF s \in SUBSET (1 .. k) THEN g[s]
                        ELSE Show(g[s \ {k + 1}], q[k + 1])]
    OBVIOUS
  <2>4. ASSUME NEW s \in SUBSET (1 .. k + 1)
        PROVE  h[s] = Iter(h, b, q, k + 1)[s]
    <3>1. CASE s = {}
      <4>1. s \in SUBSET (1 .. k)
        BY <3>1
      <4> QED
        BY <2>1, <2>3, <3>1, <4>1
    <3>2. CASE s # {} /\ s \in SUBSET (1 .. k)
      <4>1. Max(s) \in s
        <5>1. \E x \in s : \A y \in s : x >= y
          BY <2>2, <3>2, LastExists
        <5> QED
          BY <5>1 DEF Max
      <4>2. s \ {Max(s)} \in SUBSET (1 .. k)
        BY <3>2
      <4>3. h[s] = g[s] /\ h[s \ {Max(s)}] = g[s \ {Max(s)}]
        BY <2>3, <3>2, <4>2
      <4>4. g[s] = Show(g[s \ {Max(s)}], q[Max(s)])
        <5> HIDE DEF Iter
        <5>1. g[s] = Iter(g, b, q, k)[s]
          BY <2>1
        <5> QED
          BY <3>2, <5>1 DEF Iter
      <4> QED
        BY <3>2, <4>3, <4>4
    <3>3. CASE s \notin SUBSET (1 .. k)
      <4>1. k + 1 \in s
        BY <2>2, <3>3
      <4>2. Max(s) = k + 1
        <5>1. \A x \in s : x \in Int /\ k + 1 >= x
          BY <2>2
        <5>2. \A x \in s : (\A y \in s : x >= y) <=> x = k + 1
          BY <2>2, <4>1, <5>1
        <5> QED
          BY <4>1, <5>2 DEF Max
      <4>3. s \ {k + 1} \in SUBSET (1 .. k)
        BY <2>2
      <4>4. h[s] = Show(g[s \ {k + 1}], q[k + 1]) /\ h[s \ {k + 1}] = g[s \ {k + 1}]
        BY <2>3, <3>3, <4>3
      <4> QED
        BY <4>1, <4>2, <4>4
    <3> QED
      BY <3>1, <3>2, <3>3
  <2>5. h = Iter(h, b, q, k + 1)
    BY <2>3, <2>4
  <2> HIDE DEF Iter
  <2> QED
    BY <2>2, <2>5
<1>3. A = Nat
  <2> HIDE DEF A
  <2>1. A \in SUBSET Nat
    BY DEF A
  <2> QED
    BY <1>1, <1>2, <2>1, Induction
<1> QED
  BY <1>3

\* What a client shows after k of the frames of a queue.
Trail(b, q) == [k \in 0 .. Len(q) |-> FoldLeft(Show, b, SubSeq(q, 1, k))]

IsTrail(f, b, q, n) == f[0] = b /\ \A k \in 1 .. n : f[k] = Show(f[k - 1], q[k])

\* FoldLeft, step by step: what determines it.
LEMMA FoldSteps ==
  ASSUME NEW b, NEW q, NEW n \in Nat, DOMAIN q = 1 .. n,
         NEW f, IsTrail(f, b, q, n)
  PROVE  FoldLeft(Show, b, q) = f[n]
<1> DEFINE iter == CHOOSE g : g = Iter(g, b, q, n)
<1>1. FoldLeft(Show, b, q) = iter[1 .. n]
  BY DEF FoldLeft, MapThenFoldSet, Iter
<1>2. iter = Iter(iter, b, q, n)
  BY IterExists
<1> HIDE DEF iter
<1> DEFINE A == {k \in Nat : k <= n => iter[1 .. k] = f[k]}
<1>3. 0 \in A
  <2>1. 1 .. 0 = {}
    OBVIOUS
  <2>2. iter[{}] = b
    BY <1>2 DEF Iter
  <2> QED
    BY <2>1, <2>2 DEF IsTrail
<1>4. ASSUME NEW k \in A PROVE k + 1 \in A
  <2>1. SUFFICES ASSUME k + 1 <= n PROVE iter[1 .. k + 1] = f[k + 1]
    OBVIOUS
  <2>2. k \in Nat /\ iter[1 .. k] = f[k]
    BY <2>1
  <2>3. Max(1 .. k + 1) = k + 1
    <3>1. \A x \in 1 .. k + 1 : (\A y \in 1 .. k + 1 : x >= y) <=> x = k + 1
      BY <2>2
    <3> QED
      BY <2>2, <3>1 DEF Max
  <2>4. (1 .. k + 1) \ {k + 1} = 1 .. k
    BY <2>2
  <2>5. PICK s : s = 1 .. k + 1
    OBVIOUS
  <2>6. s \in SUBSET (1 .. n) /\ s # {}
    BY <2>1, <2>2, <2>5
  <2>7. iter[s] = Show(iter[s \ {Max(s)}], q[Max(s)])
    BY <1>2, <2>6 DEF Iter
  <2>8. f[k + 1] = Show(f[k], q[k + 1])
    BY <2>1, <2>2 DEF IsTrail
  <2> QED
    BY <2>2, <2>3, <2>4, <2>5, <2>7, <2>8
<1>5. A = Nat
  <2> HIDE DEF A
  <2>1. A \in SUBSET Nat
    BY DEF A
  <2> QED
    BY <1>3, <1>4, <2>1, Induction
<1> QED
  BY <1>1, <1>5

\* A function that goes through a queue step by step exists: the fold itself makes one.
LEMMA FoldTrail ==
  ASSUME NEW b, NEW q, NEW n \in Nat
  PROVE  \E f : IsTrail(f, b, q, n)
<1>1. PICK iter : iter = Iter(iter, b, q, n)
  BY IterExists
<1>2. PICK f : f = [k \in 0 .. n |-> iter[1 .. k]]
  OBVIOUS
<1>3. f[0] = b
  <2>1. 1 .. 0 = {}
    OBVIOUS
  <2>2. iter[{}] = b
    BY <1>1 DEF Iter
  <2> QED
    BY <1>2, <2>1, <2>2
<1>4. ASSUME NEW k \in 1 .. n
      PROVE  f[k] = Show(f[k - 1], q[k])
  <2>1. Max(1 .. k) = k
    <3>1. \A x \in 1 .. k : (\A y \in 1 .. k : x >= y) <=> x = k
      OBVIOUS
    <3>2. k \in 1 .. k
      OBVIOUS
    <3> QED
      BY <3>1, <3>2 DEF Max
  <2>2. (1 .. k) \ {k} = 1 .. k - 1
    OBVIOUS
  <2>3. PICK s : s = 1 .. k
    OBVIOUS
  <2>4. s \in SUBSET (1 .. n) /\ s # {}
    <3>1. k \in s
      BY <2>3
    <3>2. \A i \in s : i \in 1 .. n
      BY <2>3
    <3> QED
      BY <3>1, <3>2
  <2>5. iter[s] = Show(iter[s \ {Max(s)}], q[Max(s)])
    BY <1>1, <2>4 DEF Iter
  <2>6. f[k] = iter[s] /\ f[k - 1] = iter[s \ {Max(s)}]
    <3>1. k \in 0 .. n /\ k - 1 \in 0 .. n
      OBVIOUS
    <3>2. s \ {Max(s)} = 1 .. k - 1
      BY <2>1, <2>2, <2>3
    <3> QED
      BY <1>2, <2>3, <3>1, <3>2
  <2> QED
    BY <2>1, <2>3, <2>5, <2>6
<1> QED
  BY <1>3, <1>4 DEF IsTrail

\* The trail starts with what is shown, and goes on frame by frame.
LEMMA TrailSteps ==
  ASSUME NEW b, NEW S, NEW q \in Seq(S)
  PROVE  /\ Trail(b, q)[0] = b
         /\ \A k \in 1 .. Len(q) : Trail(b, q)[k] = Show(Trail(b, q)[k - 1], q[k])
<1> USE DEF Trail
<1>1. PICK n : n = Len(q)
  OBVIOUS
<1>2. n \in Nat /\ DOMAIN q = 1 .. n
  BY <1>1, LenProperties
<1>3. PICK f : IsTrail(f, b, q, n)
  BY <1>2, FoldTrail
<1>4. ASSUME NEW k \in 0 .. n
      PROVE  FoldLeft(Show, b, SubSeq(q, 1, k)) = f[k]
  <2>1. PICK r : r = SubSeq(q, 1, k)
    OBVIOUS
  <2>2. DOMAIN r = 1 .. k /\ \A i \in 1 .. k : r[i] = q[i]
    BY <1>1, <1>2, <2>1, SubSeqProperties
  <2>3. IsTrail(f, b, r, k)
    BY <1>2, <1>3, <2>2 DEF IsTrail
  <2>4. k \in Nat
    BY <1>2
  <2>5. FoldLeft(Show, b, r) = f[k]
    BY <2>2, <2>3, <2>4, FoldSteps
  <2> QED
    BY <2>1, <2>5
<1>5. \A k \in 0 .. n : Trail(b, q)[k] = f[k]
  BY <1>1, <1>4
<1>6. \A k \in 1 .. n : k \in 0 .. n /\ k - 1 \in 0 .. n
  BY <1>2
<1>7. 0 \in 0 .. n
  BY <1>2
<1> HIDE DEF Trail
<1> QED
  BY <1>1, <1>3, <1>5, <1>6, <1>7 DEF IsTrail

\* Nothing else does.
LEMMA TrailUnique ==
  ASSUME NEW b, NEW S, NEW q \in Seq(S), NEW n \in 0 .. Len(q),
         NEW f, IsTrail(f, b, q, n)
  PROVE  Trail(b, q)[n] = f[n]
<1>1. PICK r : r = SubSeq(q, 1, n)
  OBVIOUS
<1>2. Len(q) \in Nat /\ DOMAIN r = 1 .. n /\ \A i \in 1 .. n : r[i] = q[i]
  BY <1>1, LenProperties, SubSeqProperties
<1>3. IsTrail(f, b, r, n)
  BY <1>2 DEF IsTrail
<1>4. FoldLeft(Show, b, r) = f[n]
  BY <1>2, <1>3, FoldSteps
<1> QED
  BY <1>1, <1>4 DEF Trail

-----------------------------------------------------------------------------
(* Queues of frames *)

\* What is shown in the end, and that every frame finds what it speaks of.
Final(b, q)      == Trail(b, q)[Len(q)]
Fits(msg, known) == IF msg.kind = "spawn" THEN msg.mobs \cap known = {}
                    ELSE msg.mobs \subseteq known
Ordered(b, q)    == \A i \in 1 .. Len(q) : Fits(q[i], DOMAIN Trail(b, q)[i - 1])

\* Nothing waits, nothing changes.
LEMMA NothingQueued ==
  ASSUME NEW b
  PROVE  Ordered(b, <<>>) /\ Final(b, <<>>) = b
<1>1. <<>> \in Seq({}) /\ Len(<<>>) = 0
  BY EmptySeq
<1>2. Trail(b, <<>>)[0] = b
  BY <1>1, TrailSteps
<1> QED
  BY <1>1, <1>2 DEF Ordered, Final

\* A frame at the end is shown last, and disturbs none before it.
LEMMA AppendFrame ==
  ASSUME NEW b, NEW S, NEW q \in Seq(S), NEW msg \in S,
         Ordered(b, q), Fits(msg, DOMAIN Final(b, q))
  PROVE  Ordered(b, Append(q, msg)) /\ Final(b, Append(q, msg)) = Show(Final(b, q), msg)
<1>1. PICK r : r = Append(q, msg)
  OBVIOUS
<1>2. PICK n : n = Len(q)
  OBVIOUS
<1>3. /\ n \in Nat /\ r \in Seq(S) /\ Len(r) = n + 1
      /\ \A i \in 1 .. n : r[i] = q[i]
      /\ r[n + 1] = msg
  BY <1>1, <1>2, AppendProperties, LenProperties
<1>4. PICK f : f = Trail(b, r)
  OBVIOUS
<1>5. f[0] = b /\ \A k \in 1 .. n + 1 : f[k] = Show(f[k - 1], r[k])
  BY <1>3, <1>4, TrailSteps
<1>6. ASSUME NEW k \in 0 .. n
      PROVE  Trail(b, q)[k] = f[k]
  <2>1. k \in 0 .. Len(q) /\ k \in Nat /\ k <= n
    BY <1>2, <1>3
  <2>2. IsTrail(f, b, q, k)
    BY <1>3, <1>5, <2>1 DEF IsTrail
  <2> QED
    BY <2>1, <2>2, TrailUnique
<1>7. f[n] = Final(b, q)
  BY <1>2, <1>3, <1>6 DEF Final
<1>8. f[n + 1] = Show(f[n], msg)
  BY <1>3, <1>5
<1>9. ASSUME NEW i \in 1 .. n + 1
      PROVE  Fits(r[i], DOMAIN f[i - 1])
  <2>1. CASE i = n + 1
    BY <1>3, <1>7, <2>1
  <2>2. CASE i # n + 1
    <3>1. i \in 1 .. n /\ i - 1 \in 0 .. n
      BY <1>3, <2>2
    <3>2. Fits(q[i], DOMAIN Trail(b, q)[i - 1])
      BY <1>2, <3>1 DEF Ordered
    <3> QED
      BY <1>3, <1>6, <3>1, <3>2
  <2> QED
    BY <2>1, <2>2
<1> QED
  BY <1>1, <1>3, <1>4, <1>7, <1>8, <1>9 DEF Ordered, Final

\* A frame that is delivered comes to be shown; the others go on from there.
LEMMA DeliverFrame ==
  ASSUME NEW b, NEW S, NEW q \in Seq(S), q # <<>>, Ordered(b, q)
  PROVE  /\ Ordered(Show(b, Head(q)), Tail(q))
         /\ Final(Show(b, Head(q)), Tail(q)) = Final(b, q)
<1>1. PICK r : r = Tail(q)
  OBVIOUS
<1>2. PICK n : n = Len(r)
  OBVIOUS
<1>3. /\ n \in Nat /\ r \in Seq(S) /\ Len(q) = n + 1
      /\ \A i \in 1 .. n : r[i] = q[i + 1]
      /\ Head(q) = q[1]
  BY <1>1, <1>2, HeadTailProperties, LenProperties
<1>4. PICK f : f = Trail(b, q)
  OBVIOUS
<1>5. f[0] = b /\ \A k \in 1 .. n + 1 : f[k] = Show(f[k - 1], q[k])
  BY <1>3, <1>4, TrailSteps
<1>6. PICK c : c = Show(b, q[1])
  OBVIOUS
<1>7. PICK g : g = [k \in 0 .. n |-> f[k + 1]]
  OBVIOUS
<1>8. ASSUME NEW k \in 0 .. n
      PROVE  Trail(c, r)[k] = f[k + 1]
  <2>1. k \in 0 .. Len(r)
    BY <1>2
  <2>2. g[0] = c
    <3>1. f[1] = Show(f[0], q[1])
      BY <1>3, <1>5
    <3> QED
      BY <1>3, <1>5, <1>6, <1>7, <3>1
  <2>3. ASSUME NEW i \in 1 .. k
        PROVE  g[i] = Show(g[i - 1], r[i])
    <3>1. i \in 1 .. n /\ i + 1 \in 1 .. n + 1 /\ i \in 0 .. n /\ i - 1 \in 0 .. n
      BY <1>3
    <3>2. f[i + 1] = Show(f[i], q[i + 1])
      BY <1>5, <3>1
    <3> QED
      BY <1>3, <1>7, <3>1, <3>2
  <2>4. IsTrail(g, c, r, k)
    BY <2>2, <2>3 DEF IsTrail
  <2>5. Trail(c, r)[k] = g[k]
    BY <1>3, <2>1, <2>4, TrailUnique
  <2> QED
    BY <1>7, <2>5
<1>9. Final(c, r) = Final(b, q)
  BY <1>2, <1>3, <1>4, <1>8 DEF Final
<1>10. ASSUME NEW i \in 1 .. n
       PROVE  Fits(r[i], DOMAIN Trail(c, r)[i - 1])
  <2>1. i + 1 \in 1 .. Len(q) /\ i - 1 \in 0 .. n
    BY <1>3
  <2>2. Fits(q[i + 1], DOMAIN f[i])
    BY <1>4, <2>1 DEF Ordered
  <2>3. Trail(c, r)[i - 1] = f[i]
    BY <1>8, <2>1
  <2> QED
    BY <1>3, <2>2, <2>3
<1> QED
  BY <1>1, <1>2, <1>3, <1>6, <1>9, <1>10 DEF Ordered

-----------------------------------------------------------------------------
(* The invariant *)

\* Frames say where the mobs they introduce or move are.
Frame == {f \in Message : f.kind # "remove" => f.pose \in Pose}

\* A client that has not been told of a mob's last step is bound to be: only while a tick is
\* on its way to the channels do the two differ, and only for the mobs that moved in it.
Told(s) ==
  /\ Ordered(shown[s], rx[s])
  /\ DOMAIN Final(shown[s], rx[s]) = visible[s]
  /\ \A m \in visible[s] \ ticker.moved : Final(shown[s], rx[s])[m] = PoseOf(m)

MobInv ==
  /\ TypeOK
  /\ rx \in [Sessions -> Seq(Frame)]
  /\ ticker.stage # "stream" => ticker.moved = {}
  /\ \A s \in Sessions \ Receiving : rx[s] = <<>> /\ shown[s] = Nothing
  /\ \A s \in Receiving : Told(s)

-----------------------------------------------------------------------------
(* A tick *)

\* One frame more in a queue.
LEMMA OneFrame ==
  ASSUME NEW b, NEW q \in Seq(Frame), NEW msg \in Frame,
         Ordered(b, q), Fits(msg, DOMAIN Final(b, q))
  PROVE  /\ q \o <<msg>> \in Seq(Frame)
         /\ Ordered(b, q \o <<msg>>)
         /\ Final(b, q \o <<msg>>) = Show(Final(b, q), msg)
<1>1. q \o <<msg>> = Append(q, msg) /\ Append(q, msg) \in Seq(Frame)
  BY AppendIsConcat, AppendProperties
<1>2. Ordered(b, Append(q, msg)) /\ Final(b, Append(q, msg)) = Show(Final(b, q), msg)
  BY AppendFrame
<1> QED
  BY <1>1, <1>2

\* The frames of a tick are frames.
LEMMA FramesOfTick ==
  ASSUME TypeOK, NEW m \in Mobs
  PROVE  SpawnEntity(m) \in Frame /\ SyncEntityPosition(m) \in Frame
<1>1. PoseOf(m) \in Pose
  BY DEF TypeOK, Mob, Pose, PoseOf
<1> QED
  BY <1>1 DEF SpawnEntity, SyncEntityPosition, Frame, Message

\* The queue q has told of m what the registry believes; r tells besides where m is.
UpTo(b, q, s, m) ==
  /\ Ordered(b, q)
  /\ m \in DOMAIN Final(b, q) <=> m \in visible[s]
  /\ m \in DOMAIN Final(b, q) /\ m \notin ticker.moved => Final(b, q)[m] = PoseOf(m)

Updates(b, q, r, m) ==
  /\ Ordered(b, r)
  /\ DOMAIN Final(b, r) = DOMAIN Final(b, q) \cup {m}
  /\ Final(b, r)[m] = PoseOf(m)
  /\ \A x \in DOMAIN Final(b, q) \ {m} : Final(b, r)[x] = Final(b, q)[x]

\* What a tick says of one mob in sight: it is introduced if it was not known, and ends where
\* it is; nothing is said of others.
LEMMA UpdateTold ==
  ASSUME TypeOK, NEW b, NEW q \in Seq(Frame), NEW s \in Sessions, NEW m \in Mobs,
         UpTo(b, q, s, m), NEW r, r = q \o Update(s, m)
  PROVE  r \in Seq(Frame) /\ Updates(b, q, r, m)
<1> USE DEF UpTo, Updates
<1> DEFINE told == IF m \in visible[s] THEN <<>> ELSE <<SpawnEntity(m)>>
           then == IF m \in ticker.moved THEN <<SyncEntityPosition(m)>> ELSE <<>>
           q1 == q \o told
<1>1. told \in Seq(Frame) /\ then \in Seq(Frame)
  BY FramesOfTick
<1>2. q \o Update(s, m) = q1 \o then
  <2>1. Update(s, m) = told \o then
    BY DEF Update
  <2> HIDE DEF told, then
  <2> QED
    BY <1>1, <2>1, ConcatAssociative, SMTT(30)
<1>3. /\ q1 \in Seq(Frame)
      /\ Ordered(b, q1)
      /\ DOMAIN Final(b, q1) = DOMAIN Final(b, q) \cup {m}
      /\ m \notin ticker.moved => Final(b, q1)[m] = PoseOf(m)
      /\ \A x \in DOMAIN Final(b, q) \ {m} : Final(b, q1)[x] = Final(b, q)[x]
  <2>1. CASE m \in visible[s]
    <3>1. q1 = q
      BY <2>1, ConcatEmptySeq
    <3> QED
      BY <2>1, <3>1
  <2>2. CASE m \notin visible[s]
    <3>1. PICK msg : msg = SpawnEntity(m)
      OBVIOUS
    <3>2. PICK pose : pose = PoseOf(m)
      OBVIOUS
    <3>3. msg.kind = "spawn" /\ msg.mobs = {m} /\ msg.pose = pose /\ msg \in Frame
      BY <3>1, <3>2, FramesOfTick DEF SpawnEntity
    <3>4. Fits(msg, DOMAIN Final(b, q))
      BY <2>2, <3>3 DEF Fits
    <3>5. /\ q \o <<msg>> \in Seq(Frame)
          /\ Ordered(b, q \o <<msg>>)
          /\ Final(b, q \o <<msg>>) = Show(Final(b, q), msg)
      BY <3>3, <3>4, OneFrame
    <3>6. q1 = q \o <<msg>>
      BY <2>2, <3>1
    <3>7. PICK now : now = Final(b, q)
      OBVIOUS
    <3>8. /\ DOMAIN Show(now, msg) = DOMAIN now \cup {m}
          /\ Show(now, msg)[m] = pose
          /\ \A x \in DOMAIN now \ {m} : Show(now, msg)[x] = now[x]
      BY <3>3 DEF Show
    <3> HIDE DEF q1
    <3> QED
      BY <3>2, <3>5, <3>6, <3>7, <3>8
  <2> QED
    BY <2>1, <2>2
<1>4. CASE m \notin ticker.moved
  <2>1. q1 \o then = q1
    <3>1. then = <<>>
      BY <1>4
    <3> HIDE DEF q1, then
    <3> QED
      BY <1>3, <3>1, ConcatEmptySeq
  <2> HIDE DEF q1
  <2> QED
    BY <1>2, <1>3, <1>4, <2>1
<1>5. CASE m \in ticker.moved
  <2>1. PICK msg : msg = SyncEntityPosition(m)
    OBVIOUS
  <2>2. PICK pose : pose = PoseOf(m)
    OBVIOUS
  <2>3. msg.kind = "sync" /\ msg.mobs = {m} /\ msg.pose = pose /\ msg \in Frame
    BY <2>1, <2>2, FramesOfTick DEF SyncEntityPosition
  <2>4. then = <<msg>>
    BY <1>5, <2>1
  <2> HIDE DEF q1, then
  <2>5. Fits(msg, DOMAIN Final(b, q1))
    BY <1>3, <2>3 DEF Fits
  <2>6. r = q1 \o <<msg>>
    BY <1>2, <2>4
  <2>7. r \in Seq(Frame) /\ Ordered(b, r) /\ Final(b, r) = Show(Final(b, q1), msg)
    BY <1>3, <2>3, <2>5, <2>6, OneFrame
  <2>8. PICK now : now = Final(b, q1)
    OBVIOUS
  <2>9. /\ DOMAIN Show(now, msg) = DOMAIN now
        /\ m \in DOMAIN now => Show(now, msg)[m] = pose
        /\ \A x \in DOMAIN now \ {m} : Show(now, msg)[x] = now[x]
    BY <2>3 DEF Show
  <2> QED
    BY <1>3, <2>2, <2>7, <2>8, <2>9
<1> QED
  BY <1>4, <1>5

\* The mobs of a tick come in some order, each of them once.
LEMMA OrderOnce ==
  ASSUME NEW order \in Orders
  PROVE  /\ Cardinality(Mobs) \in Nat /\ DOMAIN order = 1 .. Cardinality(Mobs)
         /\ \A i \in DOMAIN order : order[i] \in Mobs
         /\ \A m \in Mobs : \E i \in DOMAIN order : order[i] = m
         /\ \A i, j \in DOMAIN order : order[i] = order[j] => i = j
<1>1. IsFiniteSet(Mobs) /\ Cardinality(Mobs) \in Nat
  BY MobsType, FS_CardinalityType
<1>2. PICK n \in Nat : n = Cardinality(Mobs)
  BY <1>1
<1>3. order \in [1 .. n -> Mobs] /\ \A m \in Mobs : \E i \in 1 .. n : order[i] = m
  BY <1>2 DEF Orders, Range
<1>4. order \in Surjection(1 .. n, Mobs)
  BY <1>3 DEF Surjection
<1>5. IsFiniteSet(1 .. n) /\ Cardinality(1 .. n) = n
  BY <1>2, FS_Interval
<1>6. order \in Injection(1 .. n, Mobs)
  BY <1>1, <1>2, <1>4, <1>5, FS_SurjSameCardinalityImpliesInj
<1>7. \A i, j \in 1 .. n : order[i] = order[j] => i = j
  BY <1>6 DEF Injection, IsInjective
<1> QED
  BY <1>1, <1>2, <1>3, <1>7

\* First, what went out of sight is withdrawn.
LEMMA RemovalTold ==
  ASSUME MobInv, NEW s \in Receiving
  PROVE  LET q == rx[s] \o (IF Lost(s) = {} THEN <<>> ELSE <<RemoveEntities(Lost(s))>>)
         IN  /\ q \in Seq(Frame)
             /\ Ordered(shown[s], q)
             /\ DOMAIN Final(shown[s], q) = visible[s] \cap Sees(s)
             /\ \A m \in (visible[s] \cap Sees(s)) \ ticker.moved :
                  Final(shown[s], q)[m] = PoseOf(m)
<1>1. s \in Sessions /\ rx[s] \in Seq(Frame) /\ visible[s] \subseteq Mobs
  BY DEF MobInv, TypeOK, Receiving
<1>2. Told(s)
  BY DEF MobInv
<1>3. CASE Lost(s) = {}
  <2>1. rx[s] \o <<>> = rx[s]
    BY <1>1, ConcatEmptySeq
  <2>2. visible[s] \cap Sees(s) = visible[s]
    BY <1>1, <1>3 DEF Lost
  <2> QED
    BY <1>1, <1>2, <1>3, <2>1, <2>2 DEF Told
<1>4. CASE Lost(s) # {}
  <2>1. PICK ms : ms = Lost(s)
    OBVIOUS
  <2>2. PICK msg : msg = RemoveEntities(ms)
    OBVIOUS
  <2>3. ms \in SUBSET Mobs /\ visible[s] \ ms = visible[s] \cap Sees(s)
    BY <1>1, <2>1 DEF Lost
  <2>4. msg.kind = "remove" /\ msg.mobs = ms
    BY <2>2 DEF RemoveEntities
  <2>5. msg \in Frame
    BY <2>2, <2>3 DEF RemoveEntities, Frame, Message
  <2>6. PICK b : b = shown[s]
    OBVIOUS
  <2>7. PICK q : q = rx[s]
    OBVIOUS
  <2>8. PICK now : now = Final(b, q)
    OBVIOUS
  <2>9. q \in Seq(Frame) /\ Ordered(b, q) /\ DOMAIN now = visible[s]
    BY <1>1, <1>2, <2>6, <2>7, <2>8 DEF Told
  <2>10. Fits(msg, DOMAIN now)
    BY <2>1, <2>4, <2>9 DEF Fits, Lost
  <2>11. PICK r : r = q \o <<msg>>
    OBVIOUS
  <2>12. r \in Seq(Frame) /\ Ordered(b, r) /\ Final(b, r) = Show(now, msg)
    BY <2>5, <2>8, <2>9, <2>10, <2>11, OneFrame
  <2>13. /\ DOMAIN Show(now, msg) = DOMAIN now \ ms
         /\ \A x \in DOMAIN now \ ms : Show(now, msg)[x] = now[x]
    BY <2>4 DEF Show, Restrict
  <2>14. \A m \in visible[s] \ ticker.moved : now[m] = PoseOf(m)
    BY <1>2, <2>6, <2>7, <2>8 DEF Told
  <2>15. rx[s] \o (IF Lost(s) = {} THEN <<>> ELSE <<RemoveEntities(Lost(s))>>) = r
    BY <1>4, <2>1, <2>2, <2>7, <2>11
  <2> QED
    BY <2>3, <2>6, <2>9, <2>12, <2>13, <2>14, <2>15
<1> QED
  BY <1>3, <1>4

\* Then, one after the other, what is in sight is brought up to date.
LEMMA BatchTold ==
  ASSUME MobInv, NEW order \in Orders, NEW s \in Receiving
  PROVE  LET q == rx[s] \o Batch(s, order)
         IN  /\ q \in Seq(Frame)
             /\ Ordered(shown[s], q)
             /\ DOMAIN Final(shown[s], q) = Sees(s)
             /\ \A m \in Sees(s) : Final(shown[s], q)[m] = PoseOf(m)
<1>1. s \in Sessions /\ rx[s] \in Seq(Frame) /\ visible[s] \subseteq Mobs /\ TypeOK
  BY DEF MobInv, TypeOK, Receiving
<1>2. PICK b : b = shown[s]
  OBVIOUS
<1>3. PICK n \in Nat : n = Cardinality(Mobs)
  BY OrderOnce
<1> DEFINE first == IF Lost(s) = {} THEN <<>> ELSE <<RemoveEntities(Lost(s))>>
           parts == [i \in DOMAIN order |->
                       IF order[i] \in Sees(s) THEN Update(s, order[i]) ELSE <<>>]
<1>4. first \in Seq(Frame)
  <2>1. Lost(s) \in SUBSET Mobs
    BY <1>1 DEF Lost
  <2>2. RemoveEntities(Lost(s)) \in Frame
    BY <2>1 DEF RemoveEntities, Frame, Message
  <2> QED
    BY <2>2
<1>5. parts \in Seq(Seq(Frame)) /\ Len(parts) = n
  <2>1. ASSUME NEW m \in Mobs PROVE Update(s, m) \in Seq(Frame)
    <3>1. SpawnEntity(m) \in Frame /\ SyncEntityPosition(m) \in Frame
      BY <1>1, FramesOfTick
    <3> DEFINE told == IF m \in visible[s] THEN <<>> ELSE <<SpawnEntity(m)>>
               then == IF m \in ticker.moved THEN <<SyncEntityPosition(m)>> ELSE <<>>
    <3>2. told \in Seq(Frame) /\ then \in Seq(Frame)
      BY <3>1
    <3>3. Update(s, m) = told \o then
      BY DEF Update
    <3> HIDE DEF told, then
    <3> QED
      BY <3>2, <3>3, ConcatProperties
  <2>2. \A i \in 1 .. n : order[i] \in Mobs
    BY <1>3, OrderOnce
  <2>3. DOMAIN order = 1 .. n
    BY <1>3, OrderOnce
  <2>4. parts \in [1 .. n -> Seq(Frame)]
    <3>1. <<>> \in Seq(Frame)
      BY EmptySeq
    <3> QED
      BY <2>1, <2>2, <2>3, <3>1
  <2> HIDE DEF parts
  <2>5. parts \in Seq(Seq(Frame))
    BY <2>4, SeqDef
  <2> QED
    BY <2>4, <2>5, LenProperties
<1>6. PICK c : /\ c \in [0 .. n -> Seq(Frame)]
               /\ c[0] = <<>>
               /\ \A i \in 1 .. n : c[i] = c[i - 1] \o parts[i]
               /\ FlattenSeq(parts) = c[n]
  <2> HIDE DEF parts
  <2>1. PICK c : Flattens(c, Frame, parts, n)
    BY <1>5, FlattenSteps
  <2> QED
    BY <2>1 DEF Flattens
<1> DEFINE Q(k)     == (rx[s] \o first) \o c[k]
           Named(k) == {order[i] : i \in 1 .. k}
           Claim(k) == /\ Q(k) \in Seq(Frame)
                       /\ Ordered(b, Q(k))
                       /\ DOMAIN Final(b, Q(k)) = (visible[s] \cup Named(k)) \cap Sees(s)
                       /\ \A m \in DOMAIN Final(b, Q(k)) :
                            m \in Named(k) \/ m \notin ticker.moved =>
                              Final(b, Q(k))[m] = PoseOf(m)
           A        == {k \in Nat : k <= n => Claim(k)}
<1>7. rx[s] \o first \in Seq(Frame)
  <2> HIDE DEF first
  <2> QED
    BY <1>1, <1>4, ConcatProperties
<1>8. 0 \in A
  <2>1. Q(0) = rx[s] \o first
    <3> HIDE DEF first
    <3> QED
      BY <1>6, <1>7, ConcatEmptySeq
  <2>2. Named(0) = {}
    OBVIOUS
  <2>3. Claim(0)
    <3> HIDE DEF Q, Named
    <3> QED
      BY <1>2, <2>1, <2>2, RemovalTold
  <2> QED
    BY <2>3
<1>9. ASSUME NEW k \in A PROVE k + 1 \in A
  <2> HIDE DEF Claim
  <2>1. SUFFICES ASSUME k + 1 <= n PROVE Claim(k + 1)
    OBVIOUS
  <2>2. k \in Nat /\ Claim(k)
    BY <2>1
  <2> USE DEF Claim
  <2>3. PICK i \in 1 .. n : i = k + 1
    BY <2>1, <2>2
  <2>4. PICK m \in Mobs : m = order[i]
    BY <1>3, OrderOnce
  <2>5. Named(i) = Named(k) \cup {m} /\ m \notin Named(k)
    <3>1. \A j \in 1 .. i : j \in 1 .. k \/ j = i
      BY <2>2, <2>3
    <3>2. \A j \in 1 .. k : j \in 1 .. i /\ j \in 1 .. n /\ j # i
      BY <2>1, <2>2, <2>3
    <3>3. i \in 1 .. i
      BY <2>2, <2>3
    <3>4. \A j \in 1 .. k : order[j] # order[i]
      BY <1>3, <3>2, OrderOnce
    <3> QED
      BY <2>4, <3>1, <3>2, <3>3, <3>4
  <2>6. c[i] = c[k] \o parts[i]
    <3>1. PICK j : j = i - 1
      OBVIOUS
    <3>2. j = k
      BY <2>2, <2>3, <3>1
    <3>3. c[i] = c[j] \o parts[i]
      BY <1>6, <3>1
    <3> QED
      BY <3>2, <3>3
  <2>7. c[k] \in Seq(Frame) /\ parts[i] \in Seq(Frame)
    <3>1. k \in 0 .. n
      BY <2>1, <2>2
    <3>2. parts[i] \in Seq(Frame)
      <4> HIDE DEF parts
      <4> QED
        BY <1>5, LenProperties
    <3> QED
      BY <1>6, <3>1, <3>2
  <2>8. Q(i) = Q(k) \o parts[i]
    <3>1. PICK base : base = rx[s] \o first
      OBVIOUS
    <3>2. PICK part : part = parts[i]
      OBVIOUS
    <3>3. PICK done : done = c[k]
      OBVIOUS
    <3>4. base \in Seq(Frame) /\ done \in Seq(Frame) /\ part \in Seq(Frame)
      BY <1>7, <2>7, <3>1, <3>2, <3>3
    <3>5. (base \o done) \o part = base \o (done \o part)
      BY <3>4, ConcatAssociative
    <3>6. Q(i) = base \o c[i] /\ Q(k) = base \o c[k]
      BY <3>1
    <3> HIDE DEF Q, parts
    <3> QED
      BY <2>6, <3>2, <3>3, <3>5, <3>6
  <2>9. parts[i] = IF m \in Sees(s) THEN Update(s, m) ELSE <<>>
    <3>1. i \in DOMAIN order
      BY <1>3, OrderOnce
    <3> QED
      BY <2>4, <3>1
  <2>10. PICK q : q = Q(k)
    OBVIOUS
  <2>11. PICK r : r = Q(i)
    OBVIOUS
  <2>12. PICK old : old = Named(k)
    OBVIOUS
  <2>13. Claim(i) <=> Claim(k + 1)
    BY <2>3
  <2> HIDE DEF Q, Named, parts
  <2>14. /\ q \in Seq(Frame) /\ Ordered(b, q)
         /\ DOMAIN Final(b, q) = (visible[s] \cup old) \cap Sees(s)
         /\ \A x \in DOMAIN Final(b, q) :
              x \in old \/ x \notin ticker.moved => Final(b, q)[x] = PoseOf(x)
    BY <2>2, <2>10, <2>12
  <2>15. CASE m \notin Sees(s)
    <3>1. r = q
      BY <2>8, <2>9, <2>10, <2>11, <2>14, <2>15, ConcatEmptySeq
    <3> QED
      BY <2>5, <2>11, <2>12, <2>13, <2>14, <2>15, <3>1
  <2>16. CASE m \in Sees(s)
    <3>1. r = q \o Update(s, m)
      BY <2>8, <2>9, <2>10, <2>11, <2>16
    <3>2. m \in DOMAIN Final(b, q) <=> m \in visible[s]
      BY <2>5, <2>12, <2>14, <2>16
    <3>3. m \in DOMAIN Final(b, q) /\ m \notin ticker.moved => Final(b, q)[m] = PoseOf(m)
      BY <2>14
    <3>4. r \in Seq(Frame) /\ Updates(b, q, r, m)
      <4>1. UpTo(b, q, s, m)
        BY <2>14, <3>2, <3>3 DEF UpTo
      <4>2. q \in Seq(Frame)
        BY <2>14
      <4> QED
        BY <1>1, <3>1, <4>1, <4>2, UpdateTold
    <3>5. DOMAIN Final(b, r) = (visible[s] \cup Named(i)) \cap Sees(s)
      BY <2>5, <2>12, <2>14, <2>16, <3>4 DEF Updates
    <3>6. \A x \in DOMAIN Final(b, r) :
            x \in Named(i) \/ x \notin ticker.moved => Final(b, r)[x] = PoseOf(x)
      BY <2>5, <2>12, <2>14, <3>4 DEF Updates
    <3> QED
      BY <2>11, <2>13, <3>4, <3>5, <3>6 DEF Updates
  <2> QED
    BY <2>15, <2>16
<1>10. Claim(n)
  <2>1. A = Nat
    <3> HIDE DEF A
    <3>1. A \in SUBSET Nat
      BY DEF A
    <3> QED
      BY <1>8, <1>9, <3>1, Induction
  <2> HIDE DEF Claim
  <2> QED
    BY <2>1
<1>11. rx[s] \o Batch(s, order) = Q(n)
  <2>1. Batch(s, order) = first \o c[n]
    BY <1>6 DEF Batch
  <2>2. c[n] \in Seq(Frame)
    BY <1>6
  <2>3. PICK f : f = first
    OBVIOUS
  <2>4. PICK done : done = c[n]
    OBVIOUS
  <2>5. PICK waiting : waiting = rx[s]
    OBVIOUS
  <2>6. waiting \in Seq(Frame) /\ f \in Seq(Frame) /\ done \in Seq(Frame)
    BY <1>1, <1>4, <2>2, <2>3, <2>4, <2>5
  <2>7. (waiting \o f) \o done = waiting \o (f \o done)
    BY <2>6, ConcatAssociative
  <2>8. Q(n) = (waiting \o f) \o done /\ Batch(s, order) = f \o done
    BY <2>1, <2>3, <2>4, <2>5
  <2> HIDE DEF Q
  <2> QED
    BY <2>5, <2>7, <2>8
<1>12. (visible[s] \cup Named(n)) \cap Sees(s) = Sees(s) /\ \A m \in Sees(s) : m \in Named(n)
  BY <1>3, OrderOnce DEF Sees
<1> HIDE DEF Q, Named
<1> QED
  BY <1>2, <1>10, <1>11, <1>12

-----------------------------------------------------------------------------
(* The steps *)

\* The columns of the row.
LEMMA Columns ==
  ASSUME NEW p \in Places
  PROVE  Column(p) \in 0 .. Column(Width - 1)
  BY PlaceType DEF Places, Column

\* Whose frames, knowledge and mobs are left alone stays told.
LEMMA TellsTheSame ==
  ASSUME NEW s, Told(s), rx'[s] = rx[s], shown'[s] = shown[s], visible'[s] = visible[s],
         ticker'.moved = ticker.moved, mobs' = mobs
  PROVE  Told(s)'
<1>1. \A m : PoseOf(m)' = PoseOf(m)
  BY DEF PoseOf
<1> QED
  BY <1>1 DEF Told, Ordered, Final

\* A mob steps to a place of the row, and looks along it.
LEMMA StepsAreMobs ==
  ASSUME TypeOK, NEW m \in Mobs, NEW targets \in SUBSET Places, NEW next \in Steps(m, targets)
  PROVE  next \in Mob
<1>1. mobs[m].at \in Places /\ mobs[m].yaw \in Yaw /\ mobs[m].walking \in BOOLEAN
  BY DEF TypeOK, Mob
<1>2. \A p : Face(m, p) \in Yaw
  BY <1>1 DEF Face, Yaw
<1>3. \A yaw : Ahead(m, yaw) \subseteq Places
  BY DEF Ahead
<1>4. \A g \in Leashed(m) : g.yaw \in Yaw /\ g.walking \in BOOLEAN
  <2>1. ASSUME NEW g \in Wander(m)
        PROVE  g.yaw \in Yaw /\ g.walking \in BOOLEAN
    <3>1. CASE \E w \in {mobs[m].walking, FALSE} : g = [yaw |-> mobs[m].yaw, walking |-> w]
      <4>1. PICK w : w \in {mobs[m].walking, FALSE} /\ g = [yaw |-> mobs[m].yaw, walking |-> w]
        BY <3>1
      <4>2. w \in BOOLEAN
        BY <1>1, <4>1, Zenon
      <4>3. g.yaw = mobs[m].yaw /\ g.walking = w
        BY <4>1
      <4> QED
        BY <1>1, <4>2, <4>3, Zenon
    <3>2. CASE \E y \in Yaw : g = [yaw |-> y, walking |-> TRUE]
      BY <3>2
    <3> QED
      BY <3>1, <3>2 DEF Wander
  <2>2. CASE Leashed(m) = Wander(m)
    BY <2>1, <2>2
  <2>3. CASE Leashed(m) = {[yaw |-> Face(m, Home[m]), walking |-> TRUE]}
    <3>1. PICK yaw \in Yaw : yaw = Face(m, Home[m])
      BY <1>2
    <3>2. \A g \in Leashed(m) : g = [yaw |-> yaw, walking |-> TRUE]
      BY <2>3, <3>1
    <3>3. \A g \in Leashed(m) : g.yaw = yaw
      BY <3>2
    <3>4. \A g \in Leashed(m) : g.walking = TRUE
      BY <3>2
    <3>5. TRUE \in BOOLEAN
      OBVIOUS
    <3> QED
      BY <3>3, <3>4, <3>5, Zenon
  <2> QED
    BY <2>2, <2>3 DEF Leashed
<1>5. next.at \in Places /\ next.yaw \in Yaw /\ next.walking \in BOOLEAN
      /\ next = [at |-> next.at, yaw |-> next.yaw, walking |-> next.walking]
  BY <1>1, <1>2, <1>3, <1>4 DEF Steps
<1> QED
  BY <1>5 DEF Mob

\* In an empty world nothing has been told.
LEMMA MobInvStarts == Init => MobInv
<1> SUFFICES ASSUME Init PROVE MobInv
  OBVIOUS
<1>1. SpawnPlace \in Places /\ Column(SpawnPlace) \in 0 .. Column(Width - 1)
  BY PlaceType, Columns
<1>2. TypeOK
  <2>1. mobs \in [Mobs -> Mob]
    BY MobsType DEF Init, Mob, Yaw
  <2>2. shown = [s \in Sessions |-> <<>>] /\ <<>> \in [{} -> Pose] /\ DOMAIN <<>> = {}
    BY DEF Init, Nothing
  <2>3. rx \in [Sessions -> Seq(Message)]
    BY EmptySeq DEF Init
  <2> QED
    BY <1>1, <2>1, <2>2, <2>3 DEF Init, TypeOK, Idle
<1>3. rx \in [Sessions -> Seq(Frame)]
  BY EmptySeq DEF Init
<1>4. Receiving = {}
  BY DEF Init, Receiving
<1> QED
  BY <1>2, <1>3, <1>4 DEF Init, MobInv, Idle

\* The ticker looks at the players.
LEMMA ObserveTells ==
  ASSUME MobInv, Observe
  PROVE  MobInv'
<1>1. ticker' \in [stage : {"idle", "step", "stream"}, targets : SUBSET Places,
                   moved : SUBSET Mobs]
  BY DEF MobInv, TypeOK, Observe, Registered
<1>2. TypeOK'
  BY <1>1 DEF MobInv, TypeOK, Observe
<1>3. \A s \in Receiving : Told(s)'
  <2>1. ticker.moved = {} /\ ticker'.moved = {}
    BY DEF MobInv, Observe, Idle
  <2> QED
    BY <2>1, TellsTheSame DEF MobInv, Observe
<1>4. Receiving' = Receiving
  BY DEF Receiving, Observe
<1> QED
  BY <1>2, <1>3, <1>4 DEF MobInv, Observe

\* The mobs step: those that did not move are still where every client was told they are.
LEMMA StepTells ==
  ASSUME MobInv, StepMobs
  PROVE  MobInv'
<1>1. mobs' \in [Mobs -> Mob]
  <2>1. ticker.targets \in SUBSET Places
    BY DEF MobInv, TypeOK
  <2>2. \A m \in Mobs : mobs'[m] \in Mob
    BY <2>1, StepsAreMobs DEF StepMobs, MobInv
  <2>3. mobs' = [m \in Mobs |-> mobs'[m]]
    BY DEF StepMobs
  <2> QED
    BY <2>2, <2>3
<1>2. ticker' \in [stage : {"idle", "step", "stream"}, targets : SUBSET Places,
                   moved : SUBSET Mobs]
      /\ ticker'.stage = "stream" /\ ticker'.moved = {m \in Mobs : Moved(m, mobs'[m])}
  BY DEF StepMobs
<1>3. TypeOK'
  BY <1>1, <1>2 DEF MobInv, TypeOK, StepMobs
<1>4. ASSUME NEW s \in Receiving
      PROVE  Told(s)'
  <2>1. Told(s) /\ visible[s] \subseteq Mobs /\ ticker.moved = {}
    BY DEF MobInv, TypeOK, Receiving, StepMobs
  <2>2. \A m \in visible[s] \ ticker'.moved : PoseOf(m)' = PoseOf(m)
    BY <1>2, <2>1 DEF Moved, PoseOf
  <2> QED
    BY <2>1, <2>2 DEF Told, StepMobs, Ordered, Final
<1>5. Receiving' = Receiving
  BY DEF Receiving, StepMobs
<1> QED
  BY <1>2, <1>3, <1>4, <1>5 DEF MobInv, StepMobs

\* Every player who still receives is told of what it sees.
LEMMA StreamTells ==
  ASSUME MobInv, Stream
  PROVE  MobInv'
<1>1. PICK order \in Orders :
        rx' = [s \in Sessions |->
                 IF s \in Registered /\ pc[s] # "leaving" THEN rx[s] \o Batch(s, order) ELSE rx[s]]
  BY DEF Stream
<1>2. \A s \in Sessions : s \in Receiving <=> (s \in Registered /\ pc[s] # "leaving")
  BY DEF MobInv, TypeOK, Receiving, Registered
<1>3. \A s \in Receiving : s \in Sessions /\ s \in Registered
  BY <1>2 DEF Receiving
<1>4. \A s \in Sessions : rx'[s] = IF s \in Receiving THEN rx[s] \o Batch(s, order) ELSE rx[s]
  BY <1>1, <1>2
<1>5. rx' \in [Sessions -> Seq(Frame)]
  <2>1. \A s \in Sessions : rx'[s] \in Seq(Frame)
    <3>1. ASSUME NEW s \in Receiving
          PROVE  rx[s] \o Batch(s, order) \in Seq(Frame)
      BY BatchTold
    <3> QED
      BY <1>4, <3>1 DEF MobInv
  <2> QED
    BY <1>1, <2>1
<1>6. TypeOK'
  <2>1. rx' \in [Sessions -> Seq(Message)]
    <3>1. Frame \subseteq Message
      BY DEF Frame
    <3>2. \A q \in Seq(Frame) : q \in Seq(Message)
      BY <3>1
    <3> QED
      BY <1>5, <3>2
  <2>2. visible' \in [Sessions -> SUBSET Mobs]
    BY DEF Stream, Sees, MobInv, TypeOK
  <2>3. ticker' \in [stage : {"idle", "step", "stream"}, targets : SUBSET Places,
                     moved : SUBSET Mobs]
    BY DEF Stream, Idle
  <2> QED
    BY <2>1, <2>2, <2>3 DEF MobInv, TypeOK, Stream
<1>7. ticker'.moved = {}
  BY DEF Stream, Idle
<1>8. Receiving' = Receiving
  BY DEF Receiving, Stream
<1>9. ASSUME NEW s \in Receiving
      PROVE  Told(s)'
  <2>1. PICK q : q = rx[s] \o Batch(s, order)
    OBVIOUS
  <2>2. /\ Ordered(shown[s], q)
        /\ DOMAIN Final(shown[s], q) = Sees(s)
        /\ \A m \in Sees(s) : Final(shown[s], q)[m] = PoseOf(m)
    BY <2>1, BatchTold
  <2>3. rx'[s] = q /\ shown' = shown /\ visible'[s] = Sees(s)
    BY <1>3, <1>4, <2>1 DEF Stream
  <2>4. \A m : PoseOf(m)' = PoseOf(m)
    BY DEF Stream, PoseOf
  <2>5. Ordered(shown'[s], rx'[s]) /\ Final(shown'[s], rx'[s]) = Final(shown[s], q)
    BY <2>2, <2>3
  <2> QED
    BY <2>2, <2>3, <2>4, <2>5 DEF Told, Ordered, Final
<1> QED
  BY <1>4, <1>5, <1>6, <1>7, <1>8, <1>9 DEF MobInv, Stream

\* A player who enters the world has been told of nothing.
LEMMA RegisterTells ==
  ASSUME MobInv, NEW s \in Sessions, Register(s)
  PROVE  MobInv'
<1>1. TypeOK'
  BY PlaceType DEF MobInv, TypeOK, Register, FreshVisible
<1>2. Receiving' = Receiving \cup {s} /\ s \notin Receiving
  BY DEF MobInv, TypeOK, Receiving, Register
<1>3. ASSUME NEW t \in Receiving
      PROVE  Told(t)'
  BY <1>2, TellsTheSame DEF MobInv, TypeOK, Receiving, Register
<1>4. Told(s)'
  <2>1. rx[s] = <<>> /\ shown[s] = Nothing
    BY <1>2 DEF MobInv
  <2>2. rx'[s] = <<>> /\ shown'[s] = Nothing /\ visible'[s] = {}
    BY <2>1 DEF Register, MobInv, TypeOK, FreshVisible
  <2>3. Ordered(Nothing, <<>>) /\ Final(Nothing, <<>>) = Nothing
    BY NothingQueued
  <2>4. DOMAIN Nothing = {}
    BY DEF Nothing
  <2>5. Ordered(shown'[s], rx'[s]) /\ DOMAIN Final(shown'[s], rx'[s]) = visible'[s]
    BY <2>2, <2>3, <2>4
  <2> QED
    BY <2>2, <2>5 DEF Told, Ordered, Final
<1>5. /\ rx' \in [Sessions -> Seq(Frame)]
      /\ ticker'.stage # "stream" => ticker'.moved = {}
      /\ \A t \in Sessions \ Receiving' : rx'[t] = <<>> /\ shown'[t] = Nothing
  BY <1>2 DEF MobInv, Register
<1>6. \A t \in Receiving' : Told(t)'
  BY <1>2, <1>3, <1>4
<1> QED
  BY <1>1, <1>5, <1>6 DEF MobInv

\* What a player does besides leaves what it is told alone.
LEMMA PlayerTells ==
  ASSUME MobInv, NEW s \in Sessions, EnterLoop(s) \/ Move(s) \/ StreamChunks(s)
  PROVE  MobInv'
<1>1. UNCHANGED <<mobs, ticker, visible, rx, shown>>
  BY DEF EnterLoop, Move, StreamChunks
<1>2. Receiving' = Receiving
  BY DEF MobInv, TypeOK, Receiving, EnterLoop, Move, StreamChunks
<1>3. TypeOK'
  <2>1. CASE EnterLoop(s)
    <3>1. Column(SpawnPlace) \in 0 .. Column(Width - 1)
      BY PlaceType, Columns
    <3> QED
      BY <2>1, <3>1 DEF MobInv, TypeOK, EnterLoop
  <2>2. CASE Move(s)
    BY <2>2 DEF MobInv, TypeOK, Move
  <2>3. CASE StreamChunks(s)
    <3>1. Column(place[s]) \in 0 .. Column(Width - 1)
      BY Columns DEF MobInv, TypeOK
    <3> QED
      BY <2>3, <3>1 DEF MobInv, TypeOK, StreamChunks
  <2> QED
    BY <2>1, <2>2, <2>3
<1>4. ASSUME NEW t \in Receiving
      PROVE  Told(t)'
  BY <1>1, TellsTheSame DEF MobInv
<1> QED
  BY <1>1, <1>2, <1>3, <1>4 DEF MobInv

\* A frame is delivered.
LEMMA DeliverTells ==
  ASSUME MobInv, NEW s \in Sessions, Deliver(s)
  PROVE  MobInv'
<1>1. PICK b : b = shown[s]
  OBVIOUS
<1>2. PICK q : q = rx[s]
  OBVIOUS
<1>3. q \in Seq(Frame) /\ q # <<>>
  BY <1>2 DEF MobInv, Deliver
<1>4. Head(q) \in Frame /\ Tail(q) \in Seq(Frame)
  BY <1>3, HeadTailProperties
<1>5. PICK after : after = Show(b, Head(q))
  OBVIOUS
<1>6. PICK rest : rest = Tail(q)
  OBVIOUS
<1>7. rx' = [rx EXCEPT ![s] = rest] /\ shown' = [shown EXCEPT ![s] = after]
  BY <1>1, <1>2, <1>5, <1>6 DEF Deliver
<1>8. Receiving' = Receiving /\ s \in Receiving
  BY DEF Receiving, Deliver
<1>9. Told(s) /\ DOMAIN shown = Sessions
  BY <1>8 DEF MobInv, TypeOK
<1>10. Ordered(after, rest) /\ Final(after, rest) = Final(b, q)
  BY <1>1, <1>2, <1>3, <1>5, <1>6, <1>9, DeliverFrame DEF Told
<1>11. after \in [DOMAIN after -> Pose] /\ DOMAIN after \subseteq Mobs
  <2>1. b \in [DOMAIN b -> Pose] /\ DOMAIN b \subseteq Mobs
    BY <1>1 DEF MobInv, TypeOK
  <2>2. PICK msg : msg = Head(q)
    OBVIOUS
  <2>3. /\ msg.kind \in {"remove", "spawn", "sync"} /\ msg.mobs \subseteq Mobs
        /\ msg.kind # "remove" => msg.pose \in Pose
    BY <1>4, <2>2 DEF Frame, Message
  <2>4. CASE msg.kind = "remove"
    BY <1>5, <2>1, <2>2, <2>4 DEF Show, Restrict
  <2>5. CASE msg.kind = "spawn"
    BY <1>5, <2>1, <2>2, <2>3, <2>5 DEF Show
  <2>6. CASE msg.kind = "sync"
    BY <1>5, <2>1, <2>2, <2>3, <2>6 DEF Show
  <2> QED
    BY <2>3, <2>4, <2>5, <2>6
<1>12. rx' \in [Sessions -> Seq(Frame)]
  BY <1>4, <1>6, <1>7 DEF MobInv
<1>13. TypeOK'
  <2>1. rest \in Seq(Message)
    <3>1. Frame \subseteq Message
      BY DEF Frame
    <3> QED
      BY <1>4, <1>6, <3>1
  <2>2. rx' \in [Sessions -> Seq(Message)]
    BY <1>7, <2>1 DEF MobInv, TypeOK
  <2>3. DOMAIN shown' = Sessions
        /\ \A t \in Sessions : shown'[t] = IF t = s THEN after ELSE shown[t]
    BY <1>7, <1>9
  <2>4. \A t \in Sessions : /\ shown'[t] \in [DOMAIN shown'[t] -> Pose]
                            /\ DOMAIN shown'[t] \subseteq Mobs
    BY <1>11, <2>3 DEF MobInv, TypeOK
  <2> QED
    BY <2>2, <2>3, <2>4 DEF MobInv, TypeOK, Deliver
<1>14. Told(s)'
  <2>1. rx'[s] = rest /\ shown'[s] = after
    BY <1>7, <1>9 DEF MobInv
  <2>2. \A m : PoseOf(m)' = PoseOf(m)
    BY DEF PoseOf, Deliver
  <2>3. /\ Ordered(shown'[s], rx'[s])
        /\ Final(shown'[s], rx'[s]) = Final(shown[s], rx[s])
    BY <1>1, <1>2, <1>10, <2>1
  <2> QED
    BY <1>9, <2>2, <2>3 DEF Told, Deliver, Ordered, Final
<1>15. ASSUME NEW t \in Receiving, t # s
       PROVE  Told(t)'
  <2>1. t \in Sessions /\ Told(t)
    BY <1>15 DEF Receiving, MobInv
  <2>2. rx'[t] = rx[t] /\ shown'[t] = shown[t]
    BY <1>7, <1>9, <1>15, <2>1 DEF MobInv
  <2> QED
    BY <2>1, <2>2, TellsTheSame DEF Deliver
<1>16. \A t \in Sessions \ Receiving : rx'[t] = <<>> /\ shown'[t] = Nothing
  BY <1>7, <1>8, <1>9 DEF MobInv
<1>17. \A t \in Receiving : Told(t)'
  BY <1>14, <1>15
<1> QED
  BY <1>8, <1>12, <1>13, <1>16, <1>17 DEF MobInv, Deliver

\* A connection ends, and its entry goes.
LEMMA LeaveTells ==
  ASSUME MobInv, NEW s \in Sessions, EndRun(s) \/ LeaveWorld(s)
  PROVE  MobInv'
<1>1. CASE EndRun(s)
  <2>1. Receiving' = Receiving \ {s}
    BY <1>1 DEF MobInv, TypeOK, Receiving, EndRun
  <2>2. DOMAIN shown = Sessions
    BY DEF MobInv, TypeOK
  <2>3. rx' \in [Sessions -> Seq(Frame)] /\ rx' \in [Sessions -> Seq(Message)]
    BY <1>1, EmptySeq DEF MobInv, TypeOK, EndRun
  <2>4. /\ DOMAIN shown' = Sessions
        /\ \A t \in Sessions : shown'[t] = IF t = s THEN Nothing ELSE shown[t]
    BY <1>1, <2>2 DEF EndRun
  <2>5. Nothing \in [DOMAIN Nothing -> Pose] /\ DOMAIN Nothing = {}
    BY DEF Nothing
  <2>6. \A t \in Sessions : /\ shown'[t] \in [DOMAIN shown'[t] -> Pose]
                            /\ DOMAIN shown'[t] \subseteq Mobs
    BY <2>4, <2>5 DEF MobInv, TypeOK
  <2>7. TypeOK'
    BY <1>1, <2>3, <2>4, <2>6 DEF MobInv, TypeOK, EndRun
  <2>8. ASSUME NEW t \in Receiving, t # s
        PROVE  Told(t)'
    <3>1. t \in Sessions /\ Told(t)
      BY DEF Receiving, MobInv
    <3>2. rx'[t] = rx[t] /\ shown'[t] = shown[t]
      BY <1>1, <2>4, <2>8, <3>1 DEF MobInv, EndRun
    <3> QED
      BY <1>1, <3>1, <3>2, TellsTheSame DEF EndRun
  <2>9. \A t \in Sessions \ Receiving' : rx'[t] = <<>> /\ shown'[t] = Nothing
    BY <1>1, <2>1, <2>4 DEF MobInv, EndRun
  <2>10. \A t \in Receiving' : Told(t)'
    BY <2>1, <2>8
  <2> QED
    BY <1>1, <2>3, <2>7, <2>9, <2>10 DEF MobInv, EndRun
<1>2. CASE LeaveWorld(s)
  <2>1. Receiving' = Receiving
    BY <1>2 DEF MobInv, TypeOK, Receiving, LeaveWorld
  <2>2. TypeOK'
    BY <1>2 DEF MobInv, TypeOK, LeaveWorld
  <2>3. ASSUME NEW t \in Receiving
        PROVE  Told(t)'
    BY <1>2, TellsTheSame DEF MobInv, LeaveWorld
  <2> QED
    BY <1>2, <2>1, <2>2, <2>3 DEF MobInv, LeaveWorld
<1> QED
  BY <1>1, <1>2

\* Every step keeps what was told right: the ticker's and the players'.
LEMMA MobInvStep == MobInv /\ [Next]_vars => MobInv'
<1> SUFFICES ASSUME MobInv, [Next]_vars PROVE MobInv'
  OBVIOUS
<1>1. CASE UNCHANGED vars
  <2>1. TypeOK'
    BY <1>1 DEF vars, MobInv, TypeOK
  <2>2. Receiving' = Receiving
    BY <1>1 DEF vars, Receiving
  <2>3. ASSUME NEW t \in Receiving
        PROVE  Told(t)'
    BY <1>1, TellsTheSame DEF MobInv, vars
  <2> QED
    BY <1>1, <2>1, <2>2, <2>3 DEF vars, MobInv
<1>2. CASE Ticker
  BY <1>2, ObserveTells, StepTells, StreamTells DEF Ticker
<1>3. CASE \E s \in Sessions : Task(s) \/ Deliver(s) \/ Client(s)
  BY <1>3, RegisterTells, PlayerTells, DeliverTells, LeaveTells DEF Task, Client
<1> QED
  BY <1>1, <1>2, <1>3 DEF Next

-----------------------------------------------------------------------------
(* Theorems *)

\* The mobs, the ticker, the channels and the clients are well formed, for any number of mobs
\* and players, any world and any walk of the mobs (tick_entities, Entity::step).
THEOREM TypeCorrect == Spec => []TypeOK
<1>1. MobInv => TypeOK
  BY DEF MobInv
<1> QED
  BY MobInvStarts, MobInvStep, <1>1, PTL DEF Spec

\* Whenever a tick falls between a player's steps, each mob is introduced to each client once
\* before it moves there and is withdrawn only where it was introduced (tick_entities).
THEOREM MobsInOrderAlways == Spec => []MobsInOrder
<1>1. MobInv => MobsInOrder
  <2>1. ASSUME MobInv, NEW s \in Receiving, NEW i \in DOMAIN rx[s]
        PROVE  Fits(rx[s][i], DOMAIN After(s, i - 1))
    <3>1. rx[s] \in Seq(Frame) /\ Told(s)
      BY <2>1 DEF MobInv, Receiving
    <3>2. Len(rx[s]) \in Nat /\ i \in 1 .. Len(rx[s]) /\ i - 1 \in 0 .. Len(rx[s])
      BY <3>1, LenProperties
    <3>3. After(s, i - 1) = Trail(shown[s], rx[s])[i - 1]
      BY <3>2 DEF After, Trail
    <3> QED
      BY <3>1, <3>2, <3>3 DEF Told, Ordered
  <2> QED
    BY <2>1 DEF MobsInOrder, Fits
<1> QED
  BY MobInvStarts, MobInvStep, <1>1, PTL DEF Spec

\* What the registry believes a client knows is what it will show, between two ticks every mob
\* exactly where it is (visible_entities, tick_entities).
THEOREM ViewsExactAlways == Spec => []ViewsExact
<1>1. MobInv => ViewsExact
  <2>1. ASSUME MobInv, NEW s \in Receiving
        PROVE  After(s, Len(rx[s])) = Final(shown[s], rx[s])
    <3>1. rx[s] \in Seq(Frame)
      BY <2>1 DEF MobInv, Receiving
    <3>2. Len(rx[s]) \in 0 .. Len(rx[s])
      BY <3>1, LenProperties
    <3> QED
      BY <3>2 DEF After, Final, Trail
  <2> QED
    BY <2>1 DEF MobInv, Told, ViewsExact
<1> QED
  BY MobInvStarts, MobInvStep, <1>1, PTL DEF Spec
=============================================================================
