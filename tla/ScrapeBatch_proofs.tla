---------------------------- MODULE ScrapeBatch_proofs ----------------------------
(***************************************************************************)
(* What the artwork batch keeps while its threads work without the mutex,  *)
(* for every library and every pool of threads: Tracked says that what is  *)
(* shown as pending, what is queued and what a thread has are the same     *)
(* games, each in one place.                                               *)
(***************************************************************************)
EXTENDS ScrapeBatch, FiniteSetTheorems, SequenceTheorems, WellFoundedInduction, TLAPS

\* The constants of the code: a pool of JW__SCRAPE_MAX_WORKERS threads, a library
\* that fits in memory.
Sized ==
    /\ IsFiniteSet(Games)
    /\ \E n \in Nat \ {0} : Workers = 1..n
    /\ MaxAsks \in Nat /\ MaxFlips \in Nat

-----------------------------------------------------------------------------
(* The invariant *)

\* The slots whose item has no result yet.
Live == {w \in Active : slots[w].stage # "over"}
At(g) == \E w \in Live : slots[w].item.game = g

\* No game is in two places of the queue q and the slots.
Unique ==
    /\ \A i, j \in 1..Len(queue) : queue[i].game = queue[j].game => i = j
    /\ \A v, w \in Live : slots[v].item.game = slots[w].item.game => v = w
    /\ \A i \in 1..Len(queue), w \in Live : queue[i].game # slots[w].item.game

\* The rows say which games those are.
Tracked == ~leaving => \A g \in Games : Pending(g) <=> Queued(g) \/ At(g)

BatchInv == TypeOK /\ Unique /\ Tracked /\ CancelsItsOwn

-----------------------------------------------------------------------------
(* The queue *)

LEMMA SetToSeqFacts ==
    ASSUME NEW S, IsFiniteSet(S), NEW T, S \subseteq T
    PROVE  LET q == SetToSeq(S)
           IN  /\ q \in Seq(T)
               /\ \A i, j \in 1..Len(q) : q[i] = q[j] => i = j
               /\ \A i \in 1..Len(q) : q[i] \in S
               /\ \A x \in S : \E i \in 1..Len(q) : q[i] = x
PROOF
<1> DEFINE n == Cardinality(S)
           q == SetToSeq(S)
<1>1. n \in Nat
  BY FS_CardinalityType
<1>2. PICK f \in [1..n -> S] : IsInjective(f)
  BY FS_CardinalityType DEF ExistsBijection, Bijection, Injection
<1>3. q \in [1..n -> S] /\ IsInjective(q)
  BY <1>2 DEF SetToSeq
<1> HIDE DEF q, n
<1>4. q \in Seq(T) /\ Len(q) = n
  BY <1>1, <1>3
<1>5. \A i, j \in 1..n : q[i] = q[j] => i = j
  BY <1>3 DEF IsInjective
<1>6. q \in Surjection(1..n, S)
  <2>1. IsFiniteSet(1..n) /\ Cardinality(1..n) = Cardinality(S)
    BY <1>1, FS_Interval DEF n
  <2>2. q \in Injection(1..n, S)
    BY <1>3 DEF Injection
  <2> QED BY <2>1, <2>2, FS_Injection
<1>7. \A x \in S : \E i \in 1..n : q[i] = x
  BY <1>6 DEF Surjection
<1> QED BY <1>3, <1>4, <1>5, <1>7 DEF q

\* Induction on the natural numbers, for a set instead of a predicate.
LEMMA SetInduction ==
    ASSUME NEW P, 0 \in P, \A n \in Nat : n \in P => n + 1 \in P
    PROVE  Nat \subseteq P
PROOF
<1> DEFINE R == OpToRel(<, Nat)
<1> SUFFICES ASSUME NEW k \in Nat \ P
             PROVE  FALSE
  OBVIOUS
<1>1. IsWellFoundedOn(R, Nat)
  BY NatLessThanWellFounded
<1> HIDE DEF R
<1>2. PICK n \in Nat \ P : \A m \in Nat \ P : <<m, n>> \notin R
  BY <1>1, WFMin
<1>3. \A m \in Nat \ P : ~(m < n)
  BY <1>2 DEF R, OpToRel
<1>4. n # 0 /\ n - 1 \in P
  BY <1>3
<1> QED BY <1>2, <1>4

\* What is kept of the first i items.
Step(f, q, T, i) ==
    IF i = 0 THEN <<>> ELSE IF q[i].game \in T THEN f[i - 1] ELSE Append(f[i - 1], q[i])
Keeping(f, n, q, T) == f = [i \in 0..n |-> Step(f, q, T, i)]

LEMMA KeepingExists ==
    ASSUME NEW q, NEW T, NEW N \in Nat
    PROVE  \E f : Keeping(f, N, q, T)
PROOF
<1> DEFINE P == {n \in Nat : \E f : Keeping(f, n, q, T)}
<1>1. 0 \in P
  <2> DEFINE f == [i \in 0..0 |-> <<>>]
  <2>1. f = [i \in 0..0 |-> Step(f, q, T, i)]
    BY DEF Step
  <2> QED BY <2>1 DEF Keeping
<1>2. ASSUME NEW n \in Nat, n \in P
      PROVE  n + 1 \in P
  <2>1. PICK f : f = [i \in 0..n |-> Step(f, q, T, i)]
    BY <1>2 DEF Keeping
  <2> DEFINE g == [i \in 0..(n + 1) |-> IF i = n + 1 THEN Step(f, q, T, i) ELSE f[i]]
  <2>2. \A i \in 0..(n + 1) : g[i] = Step(g, q, T, i)
    <3> TAKE i \in 0..(n + 1)
    <3>1. CASE i = n + 1
      <4>1. i # 0 /\ i - 1 = n /\ n \in 0..(n + 1) /\ n # n + 1
        BY <3>1
      <4>2. g[n] = f[n] /\ g[i] = Step(f, q, T, i)
        BY <3>1, <4>1
      <4> QED BY <4>1, <4>2 DEF Step
    <3>2. CASE i # n + 1 /\ i # 0
      <4>1. i \in 0..n /\ i - 1 \in 0..(n + 1) /\ i - 1 # n + 1
        BY <3>2
      <4>2. g[i] = f[i] /\ g[i - 1] = f[i - 1] /\ f[i] = Step(f, q, T, i)
        BY <2>1, <3>2, <4>1
      <4> QED BY <3>2, <4>2 DEF Step
    <3>3. CASE i = 0
      <4>1. i \in 0..n /\ i # n + 1
        BY <3>3
      <4> QED BY <2>1, <3>3, <4>1 DEF Step
    <3> QED BY <3>1, <3>2, <3>3
  <2>3. Keeping(g, n + 1, q, T)
    BY <2>2 DEF Keeping
  <2> QED BY <2>3
<1> HIDE DEF P
<1>3. Nat \subseteq P
  BY <1>1, <1>2, SetInduction
<1> QED BY <1>3 DEF P

\* The queue r has once, and only, the items of the first n of q whose games are
\* not in T.
Filters(r, q, T, n) ==
    /\ r \in Seq(Items)
    /\ \A i, j \in 1..Len(r) : r[i].game = r[j].game => i = j
    /\ \A i \in 1..Len(r) :
          r[i].game \notin T /\ \E j \in 1..n : q[j].game = r[i].game
    /\ \A j \in 1..n : q[j].game \notin T => \E i \in 1..Len(r) : r[i].game = q[j].game

LEMMA WithoutFacts ==
    ASSUME NEW q \in Seq(Items), NEW T,
           \A i, j \in 1..Len(q) : q[i].game = q[j].game => i = j
    PROVE  Filters(Without(q, T), q, T, Len(q))
PROOF
<1> DEFINE L == Len(q)
           f == CHOOSE f : f = [i \in 0..L |->
                   IF i = 0 THEN <<>>
                   ELSE IF q[i].game \in T THEN f[i - 1] ELSE Append(f[i - 1], q[i])]
           P == {n \in Nat : n <= L => Filters(f[n], q, T, n)}
<1>1. L \in Nat
  OBVIOUS
<1>2. f = [i \in 0..L |-> Step(f, q, T, i)]
  <2>1. PICK g : Keeping(g, L, q, T)
    BY <1>1, KeepingExists
  <2>2. g = [i \in 0..L |->
                   IF i = 0 THEN <<>>
                   ELSE IF q[i].game \in T THEN g[i - 1] ELSE Append(g[i - 1], q[i])]
    BY <2>1 DEF Keeping, Step
  <2>3. f = [i \in 0..L |->
                   IF i = 0 THEN <<>>
                   ELSE IF q[i].game \in T THEN f[i - 1] ELSE Append(f[i - 1], q[i])]
    BY <2>2
  <2> HIDE DEF f
  <2> QED BY <2>3 DEF Step
<1>3. Without(q, T) = f[L]
  BY DEF Without
<1> HIDE DEF f
<1>4. 0 \in P
  BY <1>1, <1>2 DEF Step, Filters
<1>5. ASSUME NEW n \in Nat, n \in P
      PROVE  n + 1 \in P
  <2> SUFFICES ASSUME n + 1 <= L
               PROVE  Filters(f[n + 1], q, T, n + 1)
    OBVIOUS
  <2>1. n + 1 \in 0..L /\ n + 1 # 0 /\ (n + 1) - 1 = n /\ n + 1 \in 1..L /\ n \in 0..L
    BY <1>1
  <2>2. f[n + 1] = IF q[n + 1].game \in T THEN f[n] ELSE Append(f[n], q[n + 1])
    BY <1>2, <2>1 DEF Step
  <2>3. Filters(f[n], q, T, n)
    BY <1>1, <1>5
  <2>4. q[n + 1] \in Items
    BY <2>1
  <2>5. \A j \in 1..(n + 1) : j \in 1..n \/ j = n + 1
    OBVIOUS
  <2> DEFINE r == f[n]
             x == q[n + 1]
  <2>6. CASE x.game \in T
    BY <2>2, <2>3, <2>5, <2>6 DEF Filters
  <2>7. CASE x.game \notin T
    <3> DEFINE s == Append(r, x)
    <3>1. r \in Seq(Items) /\ Len(r) \in Nat
      BY <2>3 DEF Filters
    <3>2. /\ s \in Seq(Items) /\ Len(s) = Len(r) + 1
          /\ \A i \in 1..Len(r) : s[i] = r[i]
          /\ s[Len(r) + 1] = x
      BY <2>4, <3>1
    <3>3. \A i \in 1..Len(s) : i \in 1..Len(r) \/ i = Len(r) + 1
      BY <3>1, <3>2
    <3>4. \A i \in 1..Len(r) : r[i].game # x.game
      <4> TAKE i \in 1..Len(r)
      <4>1. PICK j \in 1..n : q[j].game = r[i].game
        BY <2>3 DEF Filters
      <4>2. j # n + 1 /\ j \in 1..L
        BY <1>1, <2>1
      <4> QED BY <2>1, <4>1, <4>2
    <3>5. f[n + 1] = s
      BY <2>2, <2>7
    <3> HIDE DEF r, x, s
    <3>6. \A i, j \in 1..Len(s) : s[i].game = s[j].game => i = j
      <4>1. \A i, j \in 1..Len(r) : r[i].game = r[j].game => i = j
        BY <2>3 DEF Filters, r
      <4> TAKE i, j \in 1..Len(s)
      <4> QED BY <3>2, <3>3, <3>4, <4>1
    <3>7. \A i \in 1..Len(s) :
             s[i].game \notin T /\ \E j \in 1..(n + 1) : q[j].game = s[i].game
      <4> TAKE i \in 1..Len(s)
      <4>1. CASE i \in 1..Len(r)
        <5>1. r[i].game \notin T /\ \E j \in 1..n : q[j].game = r[i].game
          BY <2>3, <4>1 DEF Filters, r
        <5>2. PICK j \in 1..n : q[j].game = r[i].game
          BY <5>1
        <5>3. j \in 1..(n + 1) /\ s[i] = r[i]
          BY <3>2, <4>1
        <5> QED BY <5>1, <5>2, <5>3
      <4>2. CASE i = Len(r) + 1
        <5>1. s[i] = q[n + 1] /\ q[n + 1].game \notin T /\ n + 1 \in 1..(n + 1)
          BY <2>7, <3>2, <4>2 DEF x
        <5> QED BY <5>1
      <4> QED BY <3>3, <4>1, <4>2
    <3>8. \A j \in 1..(n + 1) : q[j].game \notin T =>
             \E i \in 1..Len(s) : s[i].game = q[j].game
      <4> TAKE j \in 1..(n + 1)
      <4> HAVE q[j].game \notin T
      <4>1. CASE j \in 1..n
        <5>1. PICK i \in 1..Len(r) : r[i].game = q[j].game
          BY <2>3, <4>1 DEF Filters, r
        <5>2. i \in 1..Len(s) /\ s[i] = r[i]
          BY <3>1, <3>2 DEF r
        <5> QED BY <5>1, <5>2
      <4>2. CASE j = n + 1
        <5>1. Len(r) + 1 \in 1..Len(s) /\ s[Len(r) + 1].game = q[j].game
          BY <3>1, <3>2, <4>2 DEF r, x
        <5> QED BY <5>1
      <4> QED BY <2>5, <4>1, <4>2
    <3> QED BY <3>2, <3>5, <3>6, <3>7, <3>8 DEF Filters
  <2> QED BY <2>6, <2>7
<1> HIDE DEF P
<1>6. L \in P
  BY <1>1, <1>4, <1>5, SetInduction
<1> QED BY <1>1, <1>3, <1>6 DEF P

-----------------------------------------------------------------------------
(* The slots *)

Slot == {Free} \cup Busy

\* The slot of v keeps its item, and is interrupted only with a reason.
Stays(v) ==
    /\ slots'[v] = Free <=> slots[v] = Free
    /\ slots[v] # Free =>
          /\ slots'[v].item.game = slots[v].item.game
          /\ slots'[v].stage = "over" <=> slots[v].stage = "over"
          /\ slots'[v].interrupt => slots[v].interrupt \/ slots[v].item.game \in asked'

AllStay ==
    /\ slots' \in [Workers -> Slot]
    /\ asked \subseteq asked' /\ asked' \subseteq Games
    /\ \A v \in Workers : Stays(v)

LEMMA SlotFacts ==
    ASSUME TypeOK, NEW v \in Active
    PROVE  /\ v \in Workers /\ slots[v] \in Busy
           /\ slots[v].stage \in Stages /\ slots[v].item \in Items
           /\ slots[v].item.game \in Games /\ slots[v].interrupt \in BOOLEAN
PROOF
<1>1. v \in Workers /\ slots[v] \in Busy
  BY DEF Active, TypeOK
<1>2. slots[v].stage \in Stages /\ slots[v].item \in Items /\ slots[v].interrupt \in BOOLEAN
  BY <1>1 DEF Busy
<1>3. slots[v].item.game \in Games
  BY <1>2 DEF Items
<1> QED BY <1>1, <1>2, <1>3

LEMMA BusyIsTaken ==
    ASSUME NEW x \in Busy
    PROVE  x # Free
PROOF
<1>1. x.stage \in Stages
  BY DEF Busy
<1> QED BY <1>1 DEF Free, Stages

LEMMA InterruptFacts ==
    ASSUME TypeOK, NEW T, T \subseteq Active, Interrupt(T)
    PROVE  AllStay
PROOF
<1>1. \A v \in Workers : slots'[v] = IF v \in T THEN [slots[v] EXCEPT !.interrupt = TRUE]
                                     ELSE slots[v]
  BY DEF Interrupt
<1>2. ASSUME NEW v \in T
      PROVE  LET x == [slots[v] EXCEPT !.interrupt = TRUE]
             IN  x \in Busy /\ x.item = slots[v].item /\ x.stage = slots[v].stage
  <2>1. slots[v] \in Busy
    BY <1>2, SlotFacts
  <2> QED BY <2>1 DEF Busy
<1>3. asked \subseteq asked' /\ asked' \subseteq Games
  BY SlotFacts DEF Interrupt, TypeOK
<1>4. ASSUME NEW v \in Workers
      PROVE  slots'[v] \in Slot /\ Stays(v)
  <2>1. CASE v \in T
    <3>1. slots[v] # Free /\ slots'[v] \in Busy
      BY <1>1, <1>2, <2>1 DEF Active
    <3>2. slots'[v] # Free
      BY <3>1, BusyIsTaken
    <3>3. slots[v].item.game \in asked'
      BY <2>1 DEF Interrupt
    <3> QED BY <1>1, <1>2, <2>1, <3>1, <3>2, <3>3 DEF Stays, Slot
  <2>2. CASE v \notin T
    BY <1>1, <2>2 DEF Stays, Slot, TypeOK
  <2> QED BY <2>1, <2>2
<1>5. slots' \in [Workers -> Slot]
  BY <1>4 DEF Interrupt
<1> QED BY <1>3, <1>4, <1>5 DEF AllStay

\* Nothing that stays moves.
LEMMA StayFacts ==
    ASSUME TypeOK, AllStay
    PROVE  /\ Live' = Live
           /\ \A v \in Live : slots'[v].item.game = slots[v].item.game
           /\ \A g : At(g)' <=> At(g)
           /\ CancelsItsOwn => CancelsItsOwn'
PROOF
<1>1. Live' = Live
  BY DEF AllStay, Stays, Live, Active
<1>2. \A v \in Live : slots'[v].item.game = slots[v].item.game
  BY DEF AllStay, Stays, Live, Active
<1>3. \A g : At(g)' <=> At(g)
  BY <1>1, <1>2 DEF At
<1>4. CancelsItsOwn => CancelsItsOwn'
  BY DEF AllStay, Stays, Live, Active, CancelsItsOwn
<1> QED BY <1>1, <1>2, <1>3, <1>4

\* The item of w got its result or left the slot, and the others stay.
LEMMA LeaveFacts ==
    ASSUME TypeOK, NEW w \in Live, NEW x \in Slot, x = Free \/ x.stage = "over",
           slots' = [slots EXCEPT ![w] = x], asked' = asked
    PROVE  /\ slots' \in [Workers -> Slot]
           /\ Live' = Live \ {w}
           /\ \A v \in Live' : slots'[v] = slots[v]
           /\ CancelsItsOwn => CancelsItsOwn'
PROOF
<1>1. w \in Workers /\ slots \in [Workers -> Slot]
  BY DEF Live, Active, TypeOK, Slot
<1>2. slots' \in [Workers -> Slot]
  BY <1>1
<1>3. \A v \in Workers : slots'[v] = IF v = w THEN x ELSE slots[v]
  BY <1>1
<1>4. Live' = Live \ {w}
  BY <1>3 DEF Live, Active
<1>5. \A v \in Live' : slots'[v] = slots[v]
  BY <1>3, <1>4 DEF Live, Active
<1>6. CancelsItsOwn => CancelsItsOwn'
  BY <1>3, <1>4, <1>5 DEF Live, Active, CancelsItsOwn
<1> QED BY <1>2, <1>4, <1>5, <1>6

-----------------------------------------------------------------------------
(* The daemon *)

\* A step that moves no item.
LEMMA StayStep ==
    ASSUME BatchInv, AllStay, queue' = queue, rows' = rows, leaving' = leaving
    PROVE  Unique' /\ Tracked' /\ CancelsItsOwn'
PROOF
<1>1. /\ Live' = Live /\ \A v \in Live : slots'[v].item.game = slots[v].item.game
      /\ \A g : At(g)' <=> At(g)
      /\ CancelsItsOwn'
  BY StayFacts DEF BatchInv
<1>2. Unique'
  BY <1>1 DEF BatchInv, Unique
<1>3. Tracked'
  BY <1>1 DEF BatchInv, Tracked, Pending, Queued
<1> QED BY <1>1, <1>2, <1>3

LEMMA EnqueueStep ==
    ASSUME Sized, BatchInv, NEW T \in SUBSET Games, NEW system, Enqueue(T, system)
    PROVE  BatchInv'
PROOF
<1> DEFINE new == {g \in T : ~Pending(g)}
           fresh == {Fresh(g) : g \in new}
           s == SetToSeq(fresh)
           L == Len(queue)
<1>1. /\ ~leaving /\ asks < MaxAsks /\ asks' = asks + 1
      /\ queue' = queue \o s
      /\ rows' = [g \in Games |-> IF g \in new THEN "queued" ELSE rows[g]]
      /\ quota' = FALSE
      /\ permits' = permits /\ leaving' = leaving /\ writable' = writable
      /\ probed' = probed /\ flips' = flips
  BY DEF Enqueue
<1>2. AllStay /\ paused' \in BOOLEAN
  <2>1. CASE system /\ ~writable
    <3>1. paused' = TRUE /\ Interrupt(Active)
      BY <2>1 DEF Enqueue
    <3> QED BY <3>1, InterruptFacts DEF BatchInv
  <2>2. CASE ~(system /\ ~writable)
    <3>1. paused' = paused /\ slots' = slots /\ asked' = asked
      BY <2>2 DEF Enqueue
    <3> QED BY <3>1 DEF BatchInv, TypeOK, AllStay, Stays, Slot
  <2> QED BY <2>1, <2>2
<1>3. fresh \subseteq Items /\ IsFiniteSet(fresh)
  <2>1. fresh \subseteq Items
    <3>1. \A g \in new : Fresh(g) \in Items
      BY DEF Fresh, Items
    <3> QED BY <3>1
  <2>2. IsFiniteSet(new)
    BY FS_Subset DEF Sized
  <2>3. [g \in new |-> Fresh(g)] \in Surjection(new, fresh)
    BY DEF Surjection
  <2> QED BY <2>1, <2>2, <2>3, FS_Surjection
<1>4. /\ s \in Seq(Items)
      /\ \A i, j \in 1..Len(s) : s[i] = s[j] => i = j
      /\ \A i \in 1..Len(s) : s[i] \in fresh
      /\ \A x \in fresh : \E i \in 1..Len(s) : s[i] = x
  BY <1>3, SetToSeqFacts
<1> HIDE DEF s
<1>5. /\ \A i \in 1..Len(s) : s[i].game \in new
      /\ \A i, j \in 1..Len(s) : s[i].game = s[j].game => i = j
      /\ \A g \in new : \E i \in 1..Len(s) : s[i].game = g
  <2>1. \A g : Fresh(g).game = g
    BY DEF Fresh
  <2>2. \A x \in fresh : x.game \in new /\ x = Fresh(x.game)
    BY <2>1
  <2>3. \A g \in new : Fresh(g) \in fresh
    OBVIOUS
  <2> HIDE DEF fresh, new
  <2> QED BY <1>4, <2>1, <2>2, <2>3
<1>6. /\ queue' \in Seq(Items) /\ Len(queue') = L + Len(s) /\ L \in Nat /\ Len(s) \in Nat
      /\ \A i \in 1..L : queue'[i] = queue[i]
      /\ \A i \in 1..Len(s) : queue'[L + i] = s[i]
      /\ \A i \in 1..Len(queue') : i \in 1..L \/ i - L \in 1..Len(s)
      /\ \A i \in 1..Len(queue') : i \notin 1..L => queue'[i] = s[i - L]
  BY <1>1, <1>4 DEF BatchInv, TypeOK
<1>7. /\ Live' = Live /\ \A v \in Live : slots'[v].item.game = slots[v].item.game
      /\ \A g : At(g)' <=> At(g)
      /\ CancelsItsOwn'
  BY <1>2, StayFacts DEF BatchInv
<1>8. \A g \in new : ~Queued(g) /\ ~At(g)
  BY <1>1 DEF BatchInv, Tracked
<1>9. TypeOK'
  <2>1. rows' \in [Games -> {"none", "queued", "busy", "ended", "cancelled"}]
    BY <1>1 DEF BatchInv, TypeOK
  <2>2. asks' \in 0..MaxAsks
    BY <1>1 DEF BatchInv, TypeOK, Sized
  <2> QED BY <1>1, <1>2, <1>6, <2>1, <2>2 DEF BatchInv, TypeOK, AllStay, Slot
<1>10. \A g \in Games : Queued(g)' <=> Queued(g) \/ g \in new
  <2> TAKE g \in Games
  <2>1. ASSUME Queued(g)'
        PROVE  Queued(g) \/ g \in new
    <3>1. PICK i \in 1..Len(queue') : queue'[i].game = g
      BY <2>1 DEF Queued
    <3>2. CASE i \in 1..L
      BY <1>6, <3>1, <3>2 DEF Queued
    <3>3. CASE i \notin 1..L
      <4>1. i - L \in 1..Len(s) /\ s[i - L].game = g
        BY <1>6, <3>1, <3>3
      <4> HIDE DEF new
      <4> QED BY <1>5, <4>1
    <3> QED BY <3>2, <3>3
  <2>2. ASSUME Queued(g)
        PROVE  Queued(g)'
    <3>1. PICK i \in 1..L : queue[i].game = g
      BY <2>2 DEF Queued
    <3>2. i \in 1..Len(queue') /\ queue'[i].game = g
      BY <1>6, <3>1
    <3> QED BY <3>2 DEF Queued
  <2>3. ASSUME g \in new
        PROVE  Queued(g)'
    <3>1. PICK i \in 1..Len(s) : s[i].game = g
      BY <1>5, <2>3
    <3>2. L + i \in 1..Len(queue') /\ queue'[L + i].game = g
      BY <1>6, <3>1
    <3> QED BY <3>2 DEF Queued
  <2> QED BY <2>1, <2>2, <2>3
<1>11. Unique'
  <2>1. ASSUME NEW i \in 1..Len(queue'), NEW j \in 1..Len(queue'), i \in 1..L, j \notin 1..L
        PROVE  queue'[i].game # queue'[j].game
    <3>1. queue'[i] = queue[i] /\ j - L \in 1..Len(s) /\ queue'[j] = s[j - L]
      BY <1>6, <2>1
    <3>2. queue'[j].game \in new
      BY <1>5, <3>1
    <3>3. ~Queued(queue'[j].game)
      BY <1>8, <3>2
    <3> QED BY <2>1, <3>1, <3>3 DEF Queued
  <2>2. ASSUME NEW i \in 1..Len(queue'), NEW j \in 1..Len(queue'),
               queue'[i].game = queue'[j].game
        PROVE  i = j
    <3>1. CASE i \in 1..L /\ j \in 1..L
      BY <1>6, <2>2, <3>1 DEF BatchInv, Unique
    <3>2. CASE i \notin 1..L /\ j \notin 1..L
      <4>1. i - L \in 1..Len(s) /\ j - L \in 1..Len(s) /\ s[i - L].game = s[j - L].game
        BY <1>6, <2>2, <3>2
      <4>2. i - L = j - L
        BY <1>5, <4>1
      <4> QED BY <1>6, <4>2
    <3> QED BY <2>1, <2>2, <3>1, <3>2
  <2>3. ASSUME NEW i \in 1..Len(queue'), NEW w \in Live
        PROVE  queue'[i].game # slots[w].item.game
    <3>1. CASE i \in 1..L
      BY <1>6, <3>1 DEF BatchInv, Unique
    <3>2. CASE i \notin 1..L
      <4>1. queue'[i].game \in new
        BY <1>5, <1>6, <3>2
      <4> QED BY <1>8, <4>1 DEF At
    <3> QED BY <3>1, <3>2
  <2>4. \A v, w \in Live : slots'[v].item.game = slots'[w].item.game => v = w
    BY <1>7 DEF BatchInv, Unique
  <2> QED BY <1>7, <2>2, <2>3, <2>4 DEF Unique
<1>12. Tracked'
  <2>1. \A g \in Games : Pending(g)' <=> Pending(g) \/ g \in new
    BY <1>1 DEF Pending
  <2> HIDE DEF new
  <2> QED BY <1>1, <1>7, <1>10, <2>1 DEF BatchInv, Tracked
<1> QED BY <1>7, <1>9, <1>11, <1>12 DEF BatchInv

LEMMA CancelStep ==
    ASSUME Sized, BatchInv, NEW T \in SUBSET Games, Cancel(T)
    PROVE  BatchInv'
PROOF
<1>1. /\ ~leaving /\ asks < MaxAsks /\ asks' = asks + 1
      /\ queue' = Without(queue, T)
      /\ rows' = [g \in Games |-> IF g \in T /\ Queued(g) THEN "cancelled" ELSE rows[g]]
      /\ Interrupt({w \in Active : slots[w].item.game \in T})
      /\ quota' \in BOOLEAN /\ paused' \in BOOLEAN
      /\ permits' = permits /\ leaving' = leaving /\ writable' = writable
      /\ probed' = probed /\ flips' = flips
  BY DEF Cancel
<1>2. Filters(queue', queue, T, Len(queue))
  BY <1>1, WithoutFacts DEF BatchInv, TypeOK, Unique
<1>3. AllStay
  BY <1>1, InterruptFacts DEF BatchInv
<1>4. /\ Live' = Live /\ \A v \in Live : slots'[v].item.game = slots[v].item.game
      /\ \A g : At(g)' <=> At(g)
      /\ CancelsItsOwn'
  BY <1>3, StayFacts DEF BatchInv
<1>5. \A g : Queued(g)' <=> Queued(g) /\ g \notin T
  <2> TAKE g
  <2>1. ASSUME NEW i \in 1..Len(queue'), queue'[i].game = g
        PROVE  Queued(g) /\ g \notin T
    BY <1>2, <2>1 DEF Filters, Queued
  <2>2. ASSUME NEW j \in 1..Len(queue), queue[j].game = g, g \notin T
        PROVE  Queued(g)'
    <3>1. PICK i \in 1..Len(queue') : queue'[i].game = g
      BY <1>2, <2>2 DEF Filters
    <3> QED BY <3>1 DEF Queued
  <2> QED BY <2>1, <2>2 DEF Queued
<1>6. TypeOK'
  <2>1. rows' \in [Games -> {"none", "queued", "busy", "ended", "cancelled"}]
    BY <1>1 DEF BatchInv, TypeOK
  <2>2. asks' \in 0..MaxAsks
    BY <1>1 DEF BatchInv, TypeOK, Sized
  <2> QED BY <1>1, <1>2, <1>3, <2>1, <2>2 DEF BatchInv, TypeOK, AllStay, Slot, Filters
<1>7. Unique'
  <2>1. \A i \in 1..Len(queue'), w \in Live : queue'[i].game # slots[w].item.game
    BY <1>2 DEF Filters, BatchInv, Unique
  <2>2. \A v, w \in Live : slots'[v].item.game = slots'[w].item.game => v = w
    BY <1>4 DEF BatchInv, Unique
  <2> QED BY <1>2, <1>4, <2>1, <2>2 DEF Unique, Filters
<1>8. Tracked'
  <2>1. \A g \in Games : Pending(g)' <=> Pending(g) /\ ~(g \in T /\ Queued(g))
    BY <1>1 DEF Pending
  <2>2. \A g : Queued(g) => ~At(g)
    BY DEF BatchInv, Unique, Queued, At
  <2> QED BY <1>1, <1>4, <1>5, <2>1, <2>2 DEF BatchInv, Tracked
<1> QED BY <1>4, <1>6, <1>7, <1>8 DEF BatchInv

LEMMA StopWorkersStep ==
    ASSUME BatchInv, StopWorkers
    PROVE  BatchInv'
PROOF
<1>1. AllStay
  BY InterruptFacts DEF BatchInv, StopWorkers
<1>2. /\ Live' = Live /\ \A v \in Live : slots'[v].item.game = slots[v].item.game
      /\ CancelsItsOwn'
  BY <1>1, StayFacts DEF BatchInv
<1>3. TypeOK'
  BY <1>1 DEF BatchInv, TypeOK, AllStay, Slot, StopWorkers
<1>4. Unique'
  BY <1>2 DEF BatchInv, Unique, StopWorkers
<1> QED BY <1>2, <1>3, <1>4 DEF BatchInv, Tracked, StopWorkers

LEMMA CardStep ==
    ASSUME Sized, BatchInv, CardFlips \/ HealthRefresh
    PROVE  BatchInv'
PROOF
<1>1. queue' = queue /\ rows' = rows /\ slots' = slots /\ asked' = asked /\ leaving' = leaving
  BY DEF CardFlips, HealthRefresh
<1>2. AllStay
  BY <1>1 DEF BatchInv, TypeOK, AllStay, Stays, Slot
<1>3. TypeOK'
  <2>1. CASE CardFlips
    <3>1. flips' \in 0..MaxFlips
      BY <2>1 DEF CardFlips, BatchInv, TypeOK, Sized
    <3> QED BY <2>1, <3>1 DEF CardFlips, BatchInv, TypeOK
  <2>2. CASE HealthRefresh
    BY <2>2 DEF HealthRefresh, BatchInv, TypeOK
  <2> QED BY <2>1, <2>2
<1> QED BY <1>1, <1>2, <1>3, StayStep DEF BatchInv

-----------------------------------------------------------------------------
(* The threads *)

LEMMA ClaimStep ==
    ASSUME BatchInv, Claim
    PROVE  BatchInv'
PROOF
<1> DEFINE x == Head(queue)
           L == Len(queue)
<1>1. PICK w \in Workers \ Active :
        slots' = [slots EXCEPT ![w] = [stage |-> "resolve", item |-> x, interrupt |-> FALSE]]
  BY DEF Claim
<1>2. /\ ~leaving /\ queue # <<>> /\ queue' = Tail(queue)
      /\ rows' = [rows EXCEPT ![x.game] = "busy"]
      /\ asked' = asked \ {x.game}
      /\ permits' = permits /\ quota' = quota /\ paused' = paused /\ leaving' = leaving
      /\ writable' = writable /\ probed' = probed /\ asks' = asks /\ flips' = flips
  BY DEF Claim
<1>3. /\ queue \in Seq(Items) /\ L \in Nat \ {0} /\ x = queue[1] /\ x \in Items
      /\ x.game \in Games
      /\ queue' \in Seq(Items) /\ Len(queue') = L - 1
      /\ \A i \in 1..Len(queue') : queue'[i] = queue[i + 1] /\ i + 1 \in 1..L
  <2>1. queue \in Seq(Items) /\ L \in Nat \ {0} /\ x = queue[1]
    BY <1>2 DEF BatchInv, TypeOK
  <2>2. /\ x \in Items /\ queue' \in Seq(Items) /\ Len(queue') = L - 1
        /\ \A i \in 1..Len(queue') : queue'[i] = queue[i + 1]
    BY <1>2, <2>1, HeadTailProperties
  <2>3. x.game \in Games
    BY <2>2 DEF Items
  <2>4. \A i \in 1..Len(queue') : i + 1 \in 1..L
    BY <2>1, <2>2
  <2> QED BY <2>1, <2>2, <2>3, <2>4
<1> DEFINE new == [stage |-> "resolve", item |-> x, interrupt |-> FALSE]
<1>4. new \in Busy /\ new # Free
  BY <1>3, BusyIsTaken DEF Busy, Stages
<1>5. /\ slots' \in [Workers -> Slot]
      /\ \A v \in Workers : slots'[v] = IF v = w THEN new ELSE slots[v]
  BY <1>1, <1>4 DEF BatchInv, TypeOK, Slot
<1>6. Live' = Live \cup {w} /\ w \notin Live
  BY <1>1, <1>4, <1>5 DEF Live, Active
<1>7. \A v \in Live : slots'[v] = slots[v] /\ slots[v].item.game # x.game
  <2>1. 1 \in 1..L
    BY <1>3
  <2> QED BY <1>3, <1>5, <1>6, <2>1 DEF BatchInv, Unique, Live, Active
<1>8. slots'[w].item.game = x.game /\ ~slots'[w].interrupt
  BY <1>5
<1> HIDE DEF x, new
<1>9. \A g : At(g)' <=> At(g) \/ g = x.game
  BY <1>6, <1>7, <1>8 DEF At
<1>10. TypeOK'
  <2>1. rows' \in [Games -> {"none", "queued", "busy", "ended", "cancelled"}]
    BY <1>2, <1>3 DEF BatchInv, TypeOK
  <2> QED BY <1>2, <1>3, <1>5, <2>1 DEF BatchInv, TypeOK, Slot
<1>11. \A i \in 1..Len(queue') : queue'[i].game # x.game
  <2> TAKE i \in 1..Len(queue')
  <2>1. i + 1 \in 1..L /\ 1 \in 1..L /\ i + 1 # 1
    BY <1>3
  <2> QED BY <1>3, <2>1 DEF BatchInv, Unique
<1>12. Unique'
  <2>1. \A i, j \in 1..Len(queue') : queue'[i].game = queue'[j].game => i = j
    <3> TAKE i, j \in 1..Len(queue')
    <3> HAVE queue'[i].game = queue'[j].game
    <3>1. i + 1 = j + 1
      BY <1>3 DEF BatchInv, Unique
    <3> QED BY <1>3, <3>1
  <2>2. \A u, v \in Live' : slots'[u].item.game = slots'[v].item.game => u = v
    BY <1>6, <1>7, <1>8 DEF BatchInv, Unique
  <2>3. \A i \in 1..Len(queue'), v \in Live' : queue'[i].game # slots'[v].item.game
    BY <1>3, <1>6, <1>7, <1>8, <1>11 DEF BatchInv, Unique
  <2> QED BY <2>1, <2>2, <2>3 DEF Unique
<1>13. Tracked'
  <2>1. \A g \in Games : Queued(g) <=> Queued(g)' \/ g = x.game
    <3> TAKE g \in Games
    <3>1. ASSUME Queued(g)
          PROVE  Queued(g)' \/ g = x.game
      <4>1. PICK i \in 1..L : queue[i].game = g
        BY <3>1 DEF Queued
      <4>2. CASE i = 1
        BY <1>3, <4>1, <4>2
      <4>3. CASE i # 1
        <5>1. i - 1 \in 1..Len(queue') /\ (i - 1) + 1 = i
          BY <1>3, <4>3
        <5>2. queue'[i - 1].game = g
          BY <1>3, <4>1, <5>1
        <5> QED BY <5>1, <5>2 DEF Queued
      <4> QED BY <4>2, <4>3
    <3>2. ASSUME Queued(g)'
          PROVE  Queued(g)
      BY <1>3, <3>2 DEF Queued
    <3>3. Queued(x.game)
      <4>1. 1 \in 1..L
        BY <1>3
      <4> QED BY <1>3, <4>1 DEF Queued
    <3> QED BY <3>1, <3>2, <3>3
  <2>2. \A g \in Games : Pending(g)' <=> Pending(g) \/ g = x.game
    <3> TAKE g \in Games
    <3>1. rows'[g] = IF g = x.game THEN "busy" ELSE rows[g]
      BY <1>2, <1>3 DEF BatchInv, TypeOK
    <3> QED BY <3>1 DEF Pending
  <2>3. \A g \in Games : Pending(g) <=> Queued(g) \/ At(g)
    BY <1>2 DEF BatchInv, Tracked
  <2>4. \A g \in Games : Pending(g)' <=> Queued(g)' \/ At(g)'
    BY <1>9, <2>1, <2>2, <2>3
  <2> QED BY <2>4 DEF Tracked
<1>14. CancelsItsOwn'
  <2>1. \A v \in Live' : slots'[v].interrupt => slots'[v].item.game \in asked'
    BY <1>2, <1>6, <1>7, <1>8 DEF BatchInv, CancelsItsOwn, Live
  <2> QED BY <2>1 DEF CancelsItsOwn, Live
<1> QED BY <1>10, <1>12, <1>13, <1>14 DEF BatchInv

\* The item of w has its result.
LEMMA EndedStep ==
    ASSUME BatchInv, NEW w \in Live, NEW row \in {"ended", "cancelled"}, Ended(w, row),
           queue' = queue, leaving' = leaving
    PROVE  /\ slots' \in [Workers -> Slot]
           /\ rows' \in [Games -> {"none", "queued", "busy", "ended", "cancelled"}]
           /\ Unique' /\ Tracked' /\ CancelsItsOwn'
PROOF
<1> DEFINE x == [slots[w] EXCEPT !.stage = "over"]
           h == slots[w].item.game
<1>1. slots[w] \in Busy /\ h \in Games
  BY SlotFacts DEF BatchInv, Live
<1>2. x \in Slot /\ x.stage = "over"
  BY <1>1 DEF Slot, Busy, Stages
<1>3. /\ slots' = [slots EXCEPT ![w] = x] /\ asked' = asked
      /\ rows' = [rows EXCEPT ![h] = row]
  BY DEF Ended
<1> HIDE DEF x
<1>4. /\ slots' \in [Workers -> Slot]
      /\ Live' = Live \ {w}
      /\ \A v \in Live' : slots'[v] = slots[v]
      /\ CancelsItsOwn'
  BY <1>2, <1>3, LeaveFacts DEF BatchInv
<1>5. Unique'
  BY <1>4 DEF BatchInv, Unique
<1>6. /\ rows' \in [Games -> {"none", "queued", "busy", "ended", "cancelled"}]
      /\ \A g \in Games : rows'[g] = IF g = h THEN row ELSE rows[g]
  BY <1>1, <1>3 DEF BatchInv, TypeOK
<1>7. \A g \in Games : Pending(g)' <=> Pending(g) /\ g # h
  BY <1>6 DEF Pending
<1>8. \A g : At(g)' <=> At(g) /\ g # h
  BY <1>4 DEF At, BatchInv, Unique
<1>9. ~Queued(h) /\ \A g : Queued(g)' <=> Queued(g)
  BY DEF BatchInv, Unique, Queued
<1>10. Tracked'
  <2> SUFFICES ASSUME ~leaving, NEW g \in Games
               PROVE  Pending(g)' <=> Queued(g)' \/ At(g)'
    BY DEF Tracked
  <2>1. Pending(g) <=> Queued(g) \/ At(g)
    BY DEF BatchInv, Tracked
  <2> QED BY <1>7, <1>8, <1>9, <2>1
<1> QED BY <1>4, <1>5, <1>6, <1>10

\* The thread of w goes on with its item.
LEMMA OnStep ==
    ASSUME BatchInv, NEW w \in Live, NEW x \in Busy, x.stage # "over",
           x.item.game = slots[w].item.game, x.interrupt = slots[w].interrupt,
           slots' = [slots EXCEPT ![w] = x], asked' = asked
    PROVE  AllStay
PROOF
<1>1. slots[w] \in Busy /\ w \in Workers /\ slots[w] # Free /\ slots[w].stage # "over"
  BY SlotFacts DEF BatchInv, Live, Active
<1>2. \A v \in Workers : slots'[v] = IF v = w THEN x ELSE slots[v]
  BY <1>1 DEF BatchInv, TypeOK
<1>3. slots' \in [Workers -> Slot]
  BY <1>1 DEF BatchInv, TypeOK, Slot
<1>4. x # Free
  BY BusyIsTaken
<1>5. \A v \in Workers : Stays(v)
  BY <1>1, <1>2, <1>4 DEF Stays
<1> QED BY <1>3, <1>5 DEF AllStay, BatchInv, TypeOK

LEMMA ProceedFacts ==
    ASSUME BatchInv, NEW w \in Live, NEW stage \in Stages \ {"over"}, Proceed(w, stage)
    PROVE  AllStay /\ rows' = rows
PROOF
<1> DEFINE x == [slots[w] EXCEPT !.stage = stage]
<1>1. slots[w] \in Busy
  BY SlotFacts DEF BatchInv, Live
<1>2. /\ x \in Busy /\ x.stage # "over" /\ x.item = slots[w].item
      /\ x.interrupt = slots[w].interrupt
  BY <1>1 DEF Busy
<1>3. slots' = [slots EXCEPT ![w] = x] /\ asked' = asked /\ rows' = rows
  BY DEF Proceed
<1> HIDE DEF x
<1> QED BY <1>2, <1>3, OnStep

LEMMA BlockedFacts ==
    ASSUME BatchInv, NEW w \in Live, NEW saved \in BOOLEAN, Blocked(w, saved)
    PROVE  AllStay /\ rows' = rows /\ paused' = TRUE /\ permits' = permits /\ quota' = quota
PROOF
<1> DEFINE x == [slots[w] EXCEPT !.interrupt = TRUE, !.stage = "storage",
                                 !.item.saved = saved]
           y(v) == [slots[v] EXCEPT !.interrupt = TRUE]
<1>1. slots[w] \in Busy /\ slots[w].item \in Items /\ slots[w].stage # "over"
  BY SlotFacts DEF BatchInv, Live
<1>2. /\ x \in Busy /\ x.stage = "storage" /\ x.item.game = slots[w].item.game
  BY <1>1 DEF Busy, Items, Stages
<1>3. \A v \in Active : y(v) \in Busy /\ y(v).item = slots[v].item /\ y(v).stage = slots[v].stage
  <2> TAKE v \in Active
  <2>1. slots[v] \in Busy
    BY SlotFacts DEF BatchInv
  <2> QED BY <2>1 DEF Busy
<1>4. /\ slots' = [v \in Workers |-> IF v = w THEN x ELSE IF v \in Active THEN y(v)
                                     ELSE slots[v]]
      /\ asked' = asked \cup {slots[v].item.game : v \in Active}
      /\ rows' = rows /\ paused' = TRUE /\ permits' = permits /\ quota' = quota
  BY DEF Blocked
<1> HIDE DEF x, y
<1>5. \A v \in Workers : slots'[v] \in Slot /\ Stays(v)
  <2> TAKE v \in Workers
  <2>1. CASE v = w
    <3>1. slots'[v] = x /\ x # Free /\ v \in Active /\ slots[v] # Free
      BY <1>2, <1>4, <2>1, BusyIsTaken DEF Live, Active
    <3>2. slots[v].item.game \in asked'
      BY <1>4, <3>1
    <3> QED BY <1>1, <1>2, <2>1, <3>1, <3>2 DEF Stays, Slot
  <2>2. CASE v # w /\ v \in Active
    <3>1. slots'[v] = y(v) /\ y(v) # Free /\ slots[v] # Free
      BY <1>3, <1>4, <2>2, BusyIsTaken DEF Active
    <3>2. slots[v].item.game \in asked'
      BY <1>4, <2>2
    <3> QED BY <1>3, <2>2, <3>1, <3>2 DEF Stays, Slot
  <2>3. CASE v # w /\ v \notin Active
    BY <1>4, <2>3 DEF Stays, Slot, Active
  <2> QED BY <2>1, <2>2, <2>3
<1>6. asked \subseteq asked' /\ asked' \subseteq Games
  BY <1>4, SlotFacts DEF BatchInv, TypeOK
<1> QED BY <1>4, <1>5, <1>6 DEF AllStay

\* What a thread with an item may do, but for returning it.
Worked(w) ==
    /\ slots' \in [Workers -> Slot]
    /\ rows' \in [Games -> {"none", "queued", "busy", "ended", "cancelled"}]
    /\ permits' \in Workers /\ quota' \in BOOLEAN /\ paused' \in BOOLEAN
    /\ asked' \subseteq Games
    /\ Unique' /\ Tracked' /\ CancelsItsOwn'

LEMMA StayWorked ==
    ASSUME BatchInv, NEW w, AllStay, queue' = queue, rows' = rows, leaving' = leaving,
           permits' \in Workers, quota' \in BOOLEAN, paused' \in BOOLEAN
    PROVE  Worked(w)
BY StayStep DEF Worked, AllStay, BatchInv, TypeOK

LEMMA EndedWorked ==
    ASSUME BatchInv, NEW w \in Live, NEW row \in {"ended", "cancelled"}, Ended(w, row),
           queue' = queue, leaving' = leaving, permits' \in Workers, quota' \in BOOLEAN
    PROVE  Worked(w)
BY EndedStep DEF Worked, Ended, BatchInv, TypeOK

LEMMA ResolveStep ==
    ASSUME BatchInv, NEW w \in Live, Resolve(w), queue' = queue, leaving' = leaving
    PROVE  Worked(w)
PROOF
<1>1. slots[w] \in Busy /\ slots[w].item \in Items /\ slots[w].item.saved \in BOOLEAN
  BY SlotFacts DEF BatchInv, Live, Items
<1>2. permits \in Workers /\ quota \in BOOLEAN /\ paused \in BOOLEAN
  BY DEF BatchInv, TypeOK
<1>3. CASE Ended(w, "ended") /\ UNCHANGED <<permits, quota>>
  BY <1>2, <1>3, EndedWorked
<1>4. ASSUME NEW stage \in {"record", "barred"}, Proceed(w, stage)
      PROVE  Worked(w)
  <2>1. AllStay /\ rows' = rows
    BY <1>4, ProceedFacts DEF Stages
  <2>2. permits' = permits /\ quota' = quota /\ paused' = paused
    BY <1>4 DEF Proceed
  <2> QED BY <1>2, <2>1, <2>2, StayWorked
<1>5. CASE /\ slots' = [slots EXCEPT ![w].stage = "request", ![w].item.saved = FALSE]
           /\ permits' \in Workers /\ UNCHANGED <<rows, quota, paused, asked>>
  <2> DEFINE x == [slots[w] EXCEPT !.stage = "request", !.item.saved = FALSE]
  <2>1. /\ x \in Busy /\ x.stage = "request" /\ x.item.game = slots[w].item.game
        /\ x.interrupt = slots[w].interrupt
    BY <1>1 DEF Busy, Items, Stages
  <2>2. slots' = [slots EXCEPT ![w] = x]
    <3>1. w \in Workers
      BY DEF Live, Active
    <3> QED BY <1>5, <3>1 DEF BatchInv, TypeOK
  <2> HIDE DEF x
  <2>3. AllStay
    BY <1>5, <2>1, <2>2, OnStep
  <2> QED BY <1>2, <1>5, <2>3, StayWorked
<1> QED BY <1>3, <1>4, <1>5 DEF Resolve

LEMMA FewerFacts ==
    ASSUME Sized, NEW n \in Workers
    PROVE  Fewer(n) \in Workers
BY DEF Sized, Fewer

LEMMA RequestStep ==
    ASSUME Sized, BatchInv, NEW w \in Live, Request(w), queue' = queue, leaving' = leaving
    PROVE  Worked(w)
PROOF
<1>1. slots[w] \in Busy
  BY SlotFacts DEF BatchInv, Live
<1>2. permits \in Workers /\ quota \in BOOLEAN /\ paused \in BOOLEAN
  BY DEF BatchInv, TypeOK
<1>3. ASSUME NEW stage \in Stages \ {"over"}, Proceed(w, stage)
      PROVE  Worked(w)
  <2>1. AllStay /\ rows' = rows
    BY <1>3, ProceedFacts
  <2>2. permits' = permits /\ quota' = quota /\ paused' = paused
    BY <1>3 DEF Proceed
  <2> QED BY <1>2, <2>1, <2>2, StayWorked
<1>4. ASSUME NEW row \in {"ended", "cancelled"}, Ended(w, row),
             permits' \in {permits, Fewer(permits)}, quota' = quota
      PROVE  Worked(w)
  <2>1. permits' \in Workers
    BY <1>2, <1>4, FewerFacts
  <2> QED BY <1>2, <1>4, <2>1, EndedWorked
<1>5. CASE /\ quota' = TRUE /\ slots' = [slots EXCEPT ![w].stage = "quota"]
           /\ UNCHANGED <<rows, permits, paused, asked>>
  <2> DEFINE x == [slots[w] EXCEPT !.stage = "quota"]
  <2>1. /\ x \in Busy /\ x.stage = "quota" /\ x.item = slots[w].item
        /\ x.interrupt = slots[w].interrupt
    BY <1>1 DEF Busy, Stages
  <2>2. slots' = [slots EXCEPT ![w] = x]
    BY <1>5
  <2> HIDE DEF x
  <2>3. AllStay
    BY <1>5, <2>1, <2>2, OnStep
  <2> QED BY <1>2, <1>5, <2>3, StayWorked
<1>6. CASE Blocked(w, FALSE)
  <2>1. AllStay /\ rows' = rows /\ paused' = TRUE /\ permits' = permits /\ quota' = quota
    BY <1>6, BlockedFacts
  <2> QED BY <1>2, <2>1, StayWorked
<1>7. "record" \in Stages \ {"over"} /\ "storage" \in Stages \ {"over"}
  BY DEF Stages
<1> QED BY <1>3, <1>4, <1>5, <1>6, <1>7 DEF Request

LEMMA RecordStep ==
    ASSUME BatchInv, NEW w \in Live, Record(w), queue' = queue, leaving' = leaving
    PROVE  Worked(w)
PROOF
<1>1. permits \in Workers /\ quota \in BOOLEAN /\ paused \in BOOLEAN
  BY DEF BatchInv, TypeOK
<1>2. CASE /\ Ended(w, "ended") /\ permits' \in {permits} \cup Workers
           /\ quota' \in {quota, TRUE}
  BY <1>1, <1>2, EndedWorked
<1>3. CASE /\ slots' = [slots EXCEPT ![w].stage = "barred", ![w].item.saved = TRUE]
           /\ UNCHANGED <<rows, permits, quota, paused, asked>>
  <2> DEFINE x == [slots[w] EXCEPT !.stage = "barred", !.item.saved = TRUE]
  <2>1. /\ x \in Busy /\ x.stage = "barred" /\ x.item.game = slots[w].item.game
        /\ x.interrupt = slots[w].interrupt
    BY SlotFacts DEF BatchInv, Live, Busy, Items, Stages
  <2>2. slots' = [slots EXCEPT ![w] = x]
    <3>1. w \in Workers
      BY DEF Live, Active
    <3> QED BY <1>3, <3>1 DEF BatchInv, TypeOK
  <2> HIDE DEF x
  <2>3. AllStay
    BY <1>3, <2>1, <2>2, OnStep
  <2> QED BY <1>1, <1>3, <2>3, StayWorked
<1> QED BY <1>2, <1>3 DEF Record

LEMMA PauseForCardStep ==
    ASSUME BatchInv, NEW w \in Live, PauseForCard(w), queue' = queue, leaving' = leaving
    PROVE  Worked(w)
PROOF
<1>1. slots[w].item.saved \in BOOLEAN
  BY SlotFacts DEF BatchInv, Live, Items
<1>2. permits \in Workers /\ quota \in BOOLEAN
  BY DEF BatchInv, TypeOK
<1>3. AllStay /\ rows' = rows /\ paused' = TRUE /\ permits' = permits /\ quota' = quota
  BY <1>1, BlockedFacts DEF PauseForCard
<1> QED BY <1>2, <1>3, StayWorked

\* The item goes from the slot of w to the head of the queue.
LEMMA ReturnStep ==
    ASSUME BatchInv, NEW w \in Live, Return(w), leaving' = leaving
    PROVE  Worked(w) /\ queue' \in Seq(Items)
PROOF
<1> DEFINE x == [slots[w].item EXCEPT !.again = @ \/ slots[w].stage = "storage"]
           h == slots[w].item.game
           L == Len(queue)
<1>1. slots[w].item \in Items /\ h \in Games
  BY SlotFacts DEF BatchInv, Live
<1>2. x \in Items /\ x.game = h
  BY <1>1 DEF Items
<1>3. /\ queue' = <<x>> \o queue /\ rows' = [rows EXCEPT ![h] = "queued"]
      /\ slots' = [slots EXCEPT ![w] = Free]
      /\ permits' = permits /\ quota' = quota /\ paused' = paused /\ asked' = asked
  BY DEF Return
<1> HIDE DEF x
<1>4. /\ queue' \in Seq(Items) /\ L \in Nat /\ Len(queue') = L + 1
      /\ queue'[1] = x
      /\ \A i \in 1..L : queue'[i + 1] = queue[i]
      /\ \A i \in 1..Len(queue') : i = 1 \/ (i - 1 \in 1..L /\ queue'[i] = queue[i - 1])
  <2>1. queue \in Seq(Items) /\ L \in Nat /\ <<x>> \in Seq(Items)
    BY <1>2 DEF BatchInv, TypeOK
  <2> QED BY <1>3, <2>1
<1>5. /\ slots' \in [Workers -> Slot]
      /\ Live' = Live \ {w}
      /\ \A v \in Live' : slots'[v] = slots[v]
      /\ CancelsItsOwn'
  BY <1>3, LeaveFacts DEF BatchInv, Slot
<1>6. \A i \in 1..L : queue[i].game # h
  BY DEF BatchInv, Unique
<1>7. Unique'
  <2>1. \A i, j \in 1..Len(queue') : queue'[i].game = queue'[j].game => i = j
    <3> TAKE i, j \in 1..Len(queue')
    <3> HAVE queue'[i].game = queue'[j].game
    <3>1. CASE i = 1 \/ j = 1
      <4>1. \A m \in 1..Len(queue') : m # 1 => queue'[m].game # h
        BY <1>4, <1>6
      <4>2. queue'[1].game = h
        BY <1>2, <1>4
      <4> QED BY <3>1, <4>1, <4>2
    <3>2. CASE i # 1 /\ j # 1
      <4>1. /\ i - 1 \in 1..L /\ j - 1 \in 1..L
            /\ queue[i - 1].game = queue[j - 1].game
        BY <1>4, <3>2
      <4>2. i - 1 = j - 1
        BY <4>1 DEF BatchInv, Unique
      <4> QED BY <1>4, <4>2
    <3> QED BY <3>1, <3>2
  <2>2. \A i \in 1..Len(queue'), v \in Live' : queue'[i].game # slots'[v].item.game
    <3> TAKE i \in 1..Len(queue'), v \in Live'
    <3>1. v \in Live /\ v # w /\ slots'[v] = slots[v]
      BY <1>5
    <3>2. slots[v].item.game # h
      BY <3>1 DEF BatchInv, Unique
    <3>3. CASE i = 1
      BY <1>2, <1>4, <3>1, <3>2, <3>3
    <3>4. CASE i # 1
      <4>1. i - 1 \in 1..L /\ queue'[i] = queue[i - 1]
        BY <1>4, <3>4
      <4> QED BY <3>1, <4>1 DEF BatchInv, Unique
    <3> QED BY <3>3, <3>4
  <2>3. \A u, v \in Live' : slots'[u].item.game = slots'[v].item.game => u = v
    BY <1>5 DEF BatchInv, Unique
  <2> QED BY <2>1, <2>2, <2>3 DEF Unique
<1>8. /\ rows' \in [Games -> {"none", "queued", "busy", "ended", "cancelled"}]
      /\ \A g \in Games : rows'[g] = IF g = h THEN "queued" ELSE rows[g]
  BY <1>1, <1>3 DEF BatchInv, TypeOK
<1>9. Tracked'
  <2> SUFFICES ASSUME ~leaving, NEW g \in Games
               PROVE  Pending(g)' <=> Queued(g)' \/ At(g)'
    BY DEF Tracked
  <2>1. Pending(g) <=> Queued(g) \/ At(g)
    BY DEF BatchInv, Tracked
  <2>2. Pending(g)' <=> Pending(g) \/ g = h
    BY <1>8 DEF Pending
  <2>3. At(g)' <=> At(g) /\ g # h
    BY <1>5 DEF At, BatchInv, Unique
  <2>4. Queued(g)' <=> Queued(g) \/ g = h
    <3>1. ASSUME NEW i \in 1..L, queue[i].game = g
          PROVE  Queued(g)'
      <4>1. i + 1 \in 1..Len(queue') /\ queue'[i + 1].game = g
        BY <1>4, <3>1
      <4> QED BY <4>1 DEF Queued
    <3>2. ASSUME g = h
          PROVE  Queued(g)'
      <4>1. 1 \in 1..Len(queue') /\ queue'[1].game = g
        BY <1>2, <1>4, <3>2
      <4> QED BY <4>1 DEF Queued
    <3>3. ASSUME NEW i \in 1..Len(queue'), queue'[i].game = g
          PROVE  Queued(g) \/ g = h
      BY <1>2, <1>4, <3>3 DEF Queued
    <3> QED BY <3>1, <3>2, <3>3 DEF Queued
  <2> QED BY <2>1, <2>2, <2>3, <2>4
<1> QED BY <1>3, <1>4, <1>5, <1>7, <1>8, <1>9 DEF Worked, BatchInv, TypeOK

LEMMA RetireStep ==
    ASSUME BatchInv, NEW w \in Active, slots[w].stage = "over", Retire(w), queue' = queue,
           leaving' = leaving
    PROVE  Worked(w)
PROOF
<1>1. w \in Workers /\ slots' = [slots EXCEPT ![w] = Free] /\ rows' = rows
      /\ permits' = permits /\ quota' = quota /\ paused' = paused /\ asked' = asked
  BY DEF Retire, Active
<1>2. slots' \in [Workers -> Slot]
  BY <1>1 DEF BatchInv, TypeOK, Slot
<1>3. \A v \in Workers : slots'[v] = IF v = w THEN Free ELSE slots[v]
  BY <1>1 DEF BatchInv, TypeOK
<1>4. Live' = Live /\ \A v \in Live : slots'[v] = slots[v]
  BY <1>3 DEF Live, Active
<1>5. CancelsItsOwn'
  BY <1>1, <1>3 DEF BatchInv, CancelsItsOwn, Active
<1>6. Unique'
  BY <1>4 DEF BatchInv, Unique
<1>7. Tracked'
  BY <1>1, <1>4 DEF BatchInv, Tracked, Pending, Queued, At
<1> QED BY <1>1, <1>2, <1>5, <1>6, <1>7 DEF Worked, BatchInv, TypeOK

LEMMA ThreadStep ==
    ASSUME Sized, BatchInv, NEW w \in Workers, Thread(w)
    PROVE  BatchInv'
PROOF
<1>1. /\ w \in Active /\ leaving' = leaving /\ writable' = writable /\ probed' = probed
      /\ asks' = asks /\ flips' = flips
  BY DEF Thread
<1>2. slots[w].stage # "over" => w \in Live
  BY <1>1 DEF Live
<1>3. Worked(w) /\ queue' \in Seq(Items)
  <2>1. queue \in Seq(Items)
    BY DEF BatchInv, TypeOK
  <2>2. CASE slots[w].stage = "resolve" /\ Resolve(w) /\ UNCHANGED queue
    BY <1>1, <1>2, <2>1, <2>2, ResolveStep
  <2>3. CASE slots[w].stage = "request" /\ Request(w) /\ UNCHANGED queue
    BY <1>1, <1>2, <2>1, <2>3, RequestStep
  <2>4. CASE slots[w].stage = "record" /\ Record(w) /\ UNCHANGED queue
    BY <1>1, <1>2, <2>1, <2>4, RecordStep
  <2>5. CASE slots[w].stage \in {"quota", "storage"} /\ Return(w)
    BY <1>1, <1>2, <2>5, ReturnStep
  <2>6. CASE slots[w].stage = "over" /\ Retire(w) /\ UNCHANGED queue
    BY <1>1, <2>1, <2>6, RetireStep
  <2>7. CASE slots[w].stage = "barred" /\ PauseForCard(w) /\ UNCHANGED queue
    BY <1>1, <1>2, <2>1, <2>7, PauseForCardStep
  <2> QED BY <2>2, <2>3, <2>4, <2>5, <2>6, <2>7 DEF Thread
<1> QED BY <1>1, <1>3 DEF Worked, BatchInv, TypeOK, Slot

-----------------------------------------------------------------------------
(* The theorems *)

LEMMA InitBatch ==
    ASSUME Sized, Init
    PROVE  BatchInv
PROOF
<1>1. 1 \in Workers /\ 0 \in 0..MaxAsks /\ 0 \in 0..MaxFlips
  BY DEF Sized
<1>2. TypeOK
  <2>1. rows \in [Games -> {"none", "queued", "busy", "ended", "cancelled"}]
    BY DEF Init
  <2>2. slots \in [Workers -> {Free} \cup Busy]
    BY DEF Init
  <2>3. queue \in Seq(Items) /\ asked \subseteq Games
    BY DEF Init
  <2>4. {quota, paused, leaving, writable, probed} \subseteq BOOLEAN
    BY DEF Init
  <2>5. permits \in Workers /\ asks \in 0..MaxAsks /\ flips \in 0..MaxFlips
    BY <1>1 DEF Init
  <2> QED BY <2>1, <2>2, <2>3, <2>4, <2>5 DEF TypeOK
<1>3. Active = {} /\ Len(queue) = 0
  BY DEF Init, Active
<1>4. Unique /\ CancelsItsOwn
  BY <1>3 DEF Unique, CancelsItsOwn, Live
<1>5. Tracked
  BY <1>3 DEF Init, Tracked, Pending, Queued, At, Live
<1> QED BY <1>2, <1>4, <1>5 DEF BatchInv

LEMMA BatchStep ==
    ASSUME Sized, BatchInv, [Next]_scrapeVars
    PROVE  BatchInv'
PROOF
<1>1. ASSUME NEW g \in Games, Enqueue({g}, FALSE) \/ Cancel({g})
      PROVE  BatchInv'
  BY <1>1, EnqueueStep, CancelStep
<1>2. CASE Enqueue(Games, TRUE) \/ Cancel(Games)
  BY <1>2, EnqueueStep, CancelStep
<1>3. CASE StopWorkers
  BY <1>3, StopWorkersStep
<1>4. CASE CardFlips \/ HealthRefresh
  BY <1>4, CardStep
<1>5. CASE Scrapes
  BY <1>5, ClaimStep, ThreadStep DEF Scrapes
<1>6. CASE UNCHANGED scrapeVars
  <2>1. TypeOK' /\ Unique' /\ CancelsItsOwn'
    BY <1>6 DEF scrapeVars, BatchInv, TypeOK, Unique, CancelsItsOwn, Live, Active
  <2>2. Tracked'
    BY <1>6 DEF scrapeVars, BatchInv, Tracked, Pending, Queued, At, Live, Active
  <2> QED BY <2>1, <2>2 DEF BatchInv
<1> QED BY <1>1, <1>2, <1>3, <1>4, <1>5, <1>6 DEF Next

\* A game in the queue once or with one thread has one place.
LEMMA PlacesFacts ==
    ASSUME BatchInv, NEW g \in Games, ~leaving
    PROVE  Places(g) = IF Pending(g) THEN 1 ELSE 0
PROOF
<1> DEFINE A == {i \in 1..Len(queue) : queue[i].game = g}
           B == {w \in Active : slots[w].stage # "over" /\ slots[w].item.game = g}
<1>1. Places(g) = Cardinality(A) + Cardinality(B)
  BY DEF Places
<1>2. Pending(g) <=> Queued(g) \/ At(g)
  BY DEF BatchInv, Tracked
<1>3. (Queued(g) <=> A # {}) /\ (At(g) <=> B # {})
  BY DEF Queued, At, Live
<1>4. \A i, j \in A : i = j
  BY DEF BatchInv, Unique
<1>5. \A v, w \in B : v = w
  BY DEF BatchInv, Unique, Live
<1>6. A = {} \/ B = {}
  BY DEF BatchInv, Unique, Live
<1> HIDE DEF A, B
<1>7. \A S : (\A x, y \in S : x = y) => Cardinality(S) = IF S = {} THEN 0 ELSE 1
  <2> TAKE S
  <2> HAVE \A x, y \in S : x = y
  <2>1. CASE S = {}
    BY <2>1, FS_EmptySet
  <2>2. CASE S # {}
    <3>1. PICK x : S = {x}
      BY <2>2
    <3> QED BY <2>2, <3>1, FS_Singleton
  <2> QED BY <2>1, <2>2
<1>8. Cardinality(A) = IF A = {} THEN 0 ELSE 1
  BY <1>4, <1>7
<1>9. Cardinality(B) = IF B = {} THEN 0 ELSE 1
  BY <1>5, <1>7
<1> QED BY <1>1, <1>2, <1>3, <1>6, <1>8, <1>9

\* What is queued, what is shown as pending and what the threads have are the
\* same games, each in one place, and an interrupt is one of its item.
THEOREM BatchInvariance == Sized => (ScrapeSpec => []BatchInv)
PROOF
<1>1. ASSUME Sized
      PROVE  ScrapeSpec => []BatchInv
  <2>1. Init => BatchInv
    BY <1>1, InitBatch
  <2>2. BatchInv /\ [Next]_scrapeVars => BatchInv'
    BY <1>1, BatchStep
  <2> QED BY <2>1, <2>2, PTL DEF ScrapeSpec
<1> QED BY <1>1

\* For every library and pool of threads: through pauses, cancellations, repeated
\* requests and returns to the queue (scrape_worker.c:1042-1103), a game that is
\* shown as pending is in the queue or with one thread, and never with two.
THEOREM OnePlaceEach == Sized => (ScrapeSpec => []OnePlace)
PROOF
<1>1. ASSUME Sized
      PROVE  ScrapeSpec => []OnePlace
  <2>1. BatchInv => OnePlace
    BY PlacesFacts DEF OnePlace
  <2> QED BY <1>1, <2>1, BatchInvariance, PTL
<1> QED BY <1>1

\* For every library and pool of threads: an interrupt (jw__cancel,
\* jw__enter_storage_pause_locked) ends only the scrape it was meant for, and
\* never the next item of the slot it was set for.
THEOREM InterruptsItsOwn == Sized => (ScrapeSpec => []CancelsItsOwn)
PROOF
<1>1. ASSUME Sized
      PROVE  ScrapeSpec => []CancelsItsOwn
  <2>1. BatchInv => CancelsItsOwn
    BY DEF BatchInv
  <2> QED BY <1>1, <2>1, BatchInvariance, PTL
<1> QED BY <1>1
=============================================================================
