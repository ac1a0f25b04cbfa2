--------------------------- MODULE DaemonLoop_proofs ---------------------------
(***************************************************************************)
(* Safety of two parts of jawakad's main loop that are modelled apart: the *)
(* save before a power-off and the connections of the socket.              *)
(*                                                                         *)
(* The save, for every cut of the power chip, every reserve, margin,       *)
(* window, grace and long press, every estimate of a save and every pace   *)
(* of the daemon's passes within the margin.  The policy knows of the key  *)
(* what its edges told it, the power chip what the key does: HInv ties the *)
(* two across the edges that are not read yet, and says how much of the    *)
(* chip's time is left after a pass.                                       *)
(*                                                                         *)
(* The connections, for any number of clients and slots: ConnInv says      *)
(* whose connection a slot is, and that every frame of an open client is   *)
(* still unread or has its reply in the queue.                             *)
(***************************************************************************)
EXTENDS HoldSave, IpcStream, FiniteSetTheorems, SequenceTheorems, WellFoundedInduction, TLAPS

\* A cut that leaves room for the long press itself and the late passes around
\* it.  The stock cut does not, and a hold of the key then ends in the cut.
Roomy ==
    /\ LongPress + Gap + Gap + Reserve <= Cut
    /\ Gap + Gap + Gap + Reserve <= Cut

Edges == [down : BOOLEAN, at : 1..Horizon]

\* The last edge that the daemon has not read.
LastEdge == edges[Len(edges)]

\* The clock and the passes.
Paced ==
    /\ now \in Nat /\ pass \in Nat /\ 1 <= pass /\ pass <= now /\ now <= pass + Gap
    /\ held <= now

\* The unread edges are the changes of the key since the last pass.
Unread ==
    /\ \A i \in 1..Len(edges) : pass <= edges[i].at /\ edges[i].at <= now
    /\ \A i \in 1..Len(edges) : i + 1 <= Len(edges) => edges[i].down # edges[i + 1].down
    /\ edges # <<>> => held = IF LastEdge.down THEN LastEdge.at ELSE 0

\* Before the shutdown the daemon knows the press, and what it does not know
\* is in the edges; a long press is recognised at the first pass after it.
Awake ==
    /\ policy = FreshPolicy /\ teardown = 0 /\ quit = 0
    /\ edges = <<>> => down = held
    /\ edges # <<>> => (edges[1].down <=> down = 0)
    /\ down <= now
    /\ down # 0 => pass < down + LongPress \/ pass <= down + Gap

\* What the policy knows of the key while it defers the shutdown, or has saved
\* and lets RetroArch exit.
KeyKnown ==
    /\ edges = <<>> => (policy.key <=> held # 0)
    /\ edges # <<>> => (edges[1].down <=> ~policy.key)

\* The policy waits for the release of the first press, and counts from the
\* press of a key that goes down again.
Waiting ==
    policy.phase = "await" =>
        /\ policy.key /\ pass < policy.boundary
        /\ edges = <<>> => policy.boundary = held + Offset
Saving ==
    policy.phase \in {"released", "saving"} =>
        /\ pass <= policy.window
        /\ policy.key /\ edges = <<>> => policy.repress = held

Leaving ==
    /\ policy.phase # "idle"
    /\ policy.saved => policy.phase = "done"
    /\ teardown = 0 /\ (Deferring(policy) \/ policy.saved) => KeyKnown
    /\ Waiting
    /\ Saving
    /\ teardown = 0 /\ policy.saved => quit # 0
    /\ teardown # 0 => ~Deferring(policy)

\* With the key held, the next pass still comes before the reserve is touched;
\* a teardown that began had the reserve.
InReserve ==
    /\ teardown = 0 /\ held # 0 /\ (Roomy \/ (shutdown /\ Deferring(policy))) =>
           pass + Gap + Reserve <= held + Cut
    /\ Roomy => TeardownInTime

HInv ==
    /\ HoldTypeOK /\ Paced /\ Unread
    /\ ~shutdown => Awake
    /\ shutdown => Leaving
    /\ InReserve

\* Induction on the natural numbers, for a set instead of a predicate.
LEMMA LeastNatural ==
    ASSUME NEW T, T \subseteq Nat, T # {}
    PROVE  \E n \in T : \A k \in T : n <= k
PROOF
<1> DEFINE R == OpToRel(<, Nat)
<1>1. IsWellFoundedOn(R, Nat)
  BY NatLessThanWellFounded
<1> HIDE DEF R
<1>2. PICK n \in T : \A k \in T : <<k, n>> \notin R
  BY <1>1, WFMin
<1>3. \A k \in T : ~(k < n)
  BY <1>2 DEF R, OpToRel
<1> QED BY <1>3

LEMMA SetInduction ==
    ASSUME NEW P, 0 \in P, \A n \in Nat : n \in P => n + 1 \in P
    PROVE  Nat \subseteq P
PROOF
<1> SUFFICES ASSUME NEW k \in Nat, k \notin P
             PROVE  FALSE
  OBVIOUS
<1>1. Nat \ P \subseteq Nat /\ Nat \ P # {}
  OBVIOUS
<1>2. PICK n \in Nat \ P : \A m \in Nat \ P : n <= m
  BY <1>1, LeastNatural
<1>3. n # 0 /\ n - 1 \in P
  BY <1>2
<1> QED BY <1>2, <1>3

-----------------------------------------------------------------------------
(* The save: the edges of a pass *)

Policies ==
    [phase : {"idle", "await", "released", "saving", "done"}, saved : BOOLEAN,
     boundary : Nat, window : Nat, key : BOOLEAN, repress : 0..Horizon]

LEMMA ConstantsAreNat ==
    /\ Cut \in Nat /\ Reserve \in Nat /\ Margin \in Nat /\ SaveWindow \in Nat
    /\ Grace \in Nat /\ LongPress \in Nat /\ Gap \in Nat /\ MaxPresses \in Nat
    /\ Horizon \in Nat /\ Horizon # 0
    /\ Offset \in Nat /\ Offset + Margin + Reserve = Cut
    /\ Gap <= Margin /\ Gap <= SaveWindow
PROOF
<1>1. /\ Cut \in Nat /\ Reserve \in Nat /\ Margin \in Nat /\ SaveWindow \in Nat
      /\ Grace \in Nat /\ LongPress \in Nat /\ Gap \in Nat /\ MaxPresses \in Nat
  BY HoldAssumption
<1> QED BY <1>1, HoldAssumption DEF Offset

\* An edge tells the policy where the key is, and a press during the save when
\* it began; it never brings the wait for the release back.
LEMMA KeyEdgeFacts ==
    ASSUME NEW p \in Policies, NEW e \in Edges
    PROVE  LET q == KeyEdge(p, e)
           IN  /\ q \in Policies /\ q.saved = p.saved /\ q.boundary = p.boundary
               /\ q.key = e.down
               /\ ~e.down \/ p.phase # "await" => q.phase # "await"
               /\ p.phase = "done" => q.phase = "done"
               /\ p.phase # "idle" => q.phase # "idle"
               /\ e.down /\ q.phase \in {"released", "saving"} => q.repress = e.at
               /\ ~e.down /\ p.phase = "await" =>
                      \/ q.phase = "done"
                      \/ q.phase = "released" /\ q.window = e.at + SaveWindow
PROOF
<1> DEFINE q == KeyEdge(p, e)
<1> SUFFICES /\ q \in Policies /\ q.saved = p.saved /\ q.boundary = p.boundary
             /\ q.key = e.down
             /\ ~e.down \/ p.phase # "await" => q.phase # "await"
             /\ p.phase = "done" => q.phase = "done"
             /\ p.phase # "idle" => q.phase # "idle"
             /\ e.down /\ q.phase \in {"released", "saving"} => q.repress = e.at
             /\ ~e.down /\ p.phase = "await" =>
                    \/ q.phase = "done"
                    \/ q.phase = "released" /\ q.window = e.at + SaveWindow
  OBVIOUS
<1>1. e.down \in BOOLEAN /\ e.at \in 1..Horizon /\ e.at \in 0..Horizon
      /\ e.at + SaveWindow \in Nat
  BY ConstantsAreNat DEF Edges
<1>2. CASE e.down
  <2> DEFINE r == IF p.phase \in {"released", "saving"} THEN e.at ELSE p.repress
  <2>1. q = [p EXCEPT !.key = TRUE, !.repress = r]
    BY <1>2 DEF KeyEdge, Policies
  <2>2. r \in 0..Horizon /\ (p.phase \in {"released", "saving"} => r = e.at)
    BY <1>1 DEF Policies
  <2> HIDE DEF r
  <2>3. q \in Policies
    BY <2>1, <2>2 DEF Policies
  <2>4. /\ q.saved = p.saved /\ q.boundary = p.boundary /\ q.phase = p.phase
        /\ q.key = TRUE /\ q.repress = r
    BY <2>1 DEF Policies
  <2>5. e.down = TRUE
    BY <1>1, <1>2
  <2> HIDE DEF q, r
  <2> QED BY <2>2, <2>3, <2>4, <2>5
<1>3. CASE ~e.down /\ p.phase = "await"
  <2> DEFINE x == [p EXCEPT !.phase = "done", !.key = FALSE]
             w == e.at + SaveWindow
             y == [p EXCEPT !.phase = "released", !.key = FALSE, !.window = w]
  <2>1. q = x \/ q = y
    BY <1>3 DEF KeyEdge, Done, Policies
  <2> HIDE DEF w
  <2>2. x \in Policies /\ x.saved = p.saved /\ x.boundary = p.boundary /\ x.key = FALSE
        /\ x.phase = "done"
    BY DEF Policies
  <2>3. y \in Policies
    BY <1>1 DEF Policies, w
  <2>4. y.saved = p.saved /\ y.boundary = p.boundary /\ y.key = FALSE
        /\ y.phase = "released" /\ y.window = w
    BY DEF Policies
  <2>5. e.down = FALSE
    BY <1>1, <1>3
  <2> HIDE DEF x, y, q
  <2> QED BY <1>3, <2>5, <2>1, <2>2, <2>3, <2>4 DEF w
<1>4. CASE ~e.down /\ p.phase # "await"
  <2>1. q = [p EXCEPT !.key = FALSE, !.repress = 0]
    BY <1>4 DEF KeyEdge
  <2>2. 0 \in 0..Horizon
    BY ConstantsAreNat
  <2>3. q \in Policies
    BY <2>1, <2>2 DEF Policies
  <2>4. q.saved = p.saved /\ q.boundary = p.boundary /\ q.phase = p.phase
        /\ q.key = FALSE
    BY <2>1 DEF Policies
  <2>5. e.down = FALSE
    BY <1>1, <1>4
  <2> HIDE DEF q
  <2> QED BY <1>4, <2>5, <2>3, <2>4
<1> QED BY <1>1, <1>2, <1>3, <1>4

\* The policies between the edges, one after the other.
Reads(f, n, p, es) ==
    f = [i \in 0..n |-> IF i = 0 THEN p ELSE KeyEdge(f[i - 1], es[i])]

LEMMA ReadsExist ==
    ASSUME NEW p, NEW es, NEW N \in Nat
    PROVE  \E f : Reads(f, N, p, es)
PROOF
<1> DEFINE P == {n \in Nat : \E f : Reads(f, n, p, es)}
<1>1. 0 \in P
  <2> DEFINE f == [i \in 0..0 |-> p]
  <2>1. f = [i \in 0..0 |-> IF i = 0 THEN p ELSE KeyEdge(f[i - 1], es[i])]
    OBVIOUS
  <2> QED BY <2>1 DEF Reads
<1>2. ASSUME NEW n \in Nat, n \in P
      PROVE  n + 1 \in P
  <2>1. PICK f : f = [i \in 0..n |-> IF i = 0 THEN p ELSE KeyEdge(f[i - 1], es[i])]
    BY <1>2 DEF Reads
  <2> DEFINE g == [i \in 0..(n + 1) |-> IF i = n + 1 THEN KeyEdge(f[n], es[i]) ELSE f[i]]
  <2>2. \A i \in 0..(n + 1) : g[i] = IF i = 0 THEN p ELSE KeyEdge(g[i - 1], es[i])
    <3> TAKE i \in 0..(n + 1)
    <3>1. CASE i = n + 1
      <4>1. i # 0 /\ i - 1 = n /\ n \in 0..(n + 1) /\ n # n + 1
        BY <3>1
      <4>2. g[n] = f[n] /\ g[i] = KeyEdge(f[n], es[i])
        BY <3>1, <4>1
      <4> QED BY <4>1, <4>2
    <3>2. CASE i # n + 1 /\ i # 0
      <4>1. i \in 0..n /\ i - 1 \in 0..(n + 1) /\ i - 1 # n + 1
        BY <3>2
      <4>2. g[i] = f[i] /\ g[i - 1] = f[i - 1] /\ f[i] = KeyEdge(f[i - 1], es[i])
        BY <2>1, <3>2, <4>1
      <4> QED BY <3>2, <4>2
    <3>3. CASE i = 0
      <4>1. i \in 0..n /\ i # n + 1
        BY <3>3
      <4> QED BY <2>1, <3>3, <4>1
    <3> QED BY <3>1, <3>2, <3>3
  <2>3. Reads(g, n + 1, p, es)
    BY <2>2 DEF Reads
  <2> QED BY <2>3
<1> HIDE DEF P
<1>3. Nat \subseteq P
  BY <1>1, <1>2, SetInduction
<1> QED BY <1>3 DEF P

\* All edges of a pass, of which the first is the release that the policy
\* waits for, if it does.
LEMMA EdgesReadFacts ==
    ASSUME NEW p \in Policies, NEW es \in Seq(Edges),
           es # <<>> /\ p.phase = "await" => ~es[1].down
    PROVE  LET q == EdgesRead(p, es)
               last == es[Len(es)]
           IN  /\ q \in Policies /\ q.saved = p.saved /\ q.boundary = p.boundary
               /\ es = <<>> => q = p
               /\ es # <<>> => q.key = last.down /\ q.phase # "await"
               /\ p.phase = "done" => q.phase = "done"
               /\ p.phase # "idle" => q.phase # "idle"
               /\ es # <<>> /\ last.down /\ q.phase \in {"released", "saving"} =>
                      q.repress = last.at
PROOF
<1> DEFINE L == Len(es)
           Body(g) == [i \in 0..L |-> IF i = 0 THEN p ELSE KeyEdge(g[i - 1], es[i])]
           f == CHOOSE g : g = Body(g)
           Fine(n) == /\ f[n] \in Policies /\ f[n].saved = p.saved
                      /\ f[n].boundary = p.boundary
                      /\ n = 0 => f[n] = p
                      /\ n # 0 => f[n].key = es[n].down /\ f[n].phase # "await"
                      /\ p.phase = "done" => f[n].phase = "done"
                      /\ p.phase # "idle" => f[n].phase # "idle"
                      /\ n # 0 /\ es[n].down /\ f[n].phase \in {"released", "saving"} =>
                             f[n].repress = es[n].at
           P == {n \in Nat : n <= L => Fine(n)}
<1>1. L \in Nat /\ (es = <<>> <=> L = 0)
  OBVIOUS
<1>2. f = Body(f)
  <2>1. PICK g : Reads(g, L, p, es)
    BY <1>1, ReadsExist
  <2>2. g = Body(g)
    BY <2>1 DEF Reads
  <2> QED BY <2>2
<1>3. EdgesRead(p, es) = f[L]
  BY DEF EdgesRead
<1> HIDE DEF f
<1>4. 0 \in P
  BY <1>1, <1>2
<1>5. ASSUME NEW n \in Nat, n \in P
      PROVE  n + 1 \in P
  <2> SUFFICES ASSUME n + 1 <= L
               PROVE  Fine(n + 1)
    OBVIOUS
  <2>1. n + 1 \in 0..L /\ n + 1 # 0 /\ (n + 1) - 1 = n /\ n + 1 \in 1..L
    BY <1>1
  <2> DEFINE e == es[n + 1]
  <2>2. f[n + 1] = KeyEdge(f[n], e)
    BY <1>2, <2>1
  <2>3. e \in Edges
    BY <2>1
  <2>4. Fine(n)
    BY <1>1, <1>5
  <2>5. ~e.down \/ f[n].phase # "await"
    <3>1. CASE n = 0
      BY <1>1, <2>1, <2>4, <3>1
    <3>2. CASE n # 0
      BY <2>4, <3>2
    <3> QED BY <3>1, <3>2
  <2> DEFINE a == f[n]
             b == f[n + 1]
  <2>6. /\ b \in Policies /\ b.saved = a.saved /\ b.boundary = a.boundary
        /\ b.key = e.down /\ b.phase # "await"
        /\ a.phase = "done" => b.phase = "done"
        /\ a.phase # "idle" => b.phase # "idle"
        /\ e.down /\ b.phase \in {"released", "saving"} => b.repress = e.at
    <3>1. a \in Policies
      BY <2>4
    <3>2. ~e.down \/ a.phase # "await"
      BY <2>5
    <3>3. b = KeyEdge(a, e)
      BY <2>2
    <3> HIDE DEF a, b, e
    <3> QED BY <2>3, <3>1, <3>2, <3>3, KeyEdgeFacts
  <2> QED BY <2>1, <2>4, <2>6
<1> HIDE DEF P
<1>6. L \in P
  BY <1>1, <1>4, <1>5, SetInduction
<1>7. Fine(L)
  BY <1>1, <1>6 DEF P
<1> QED BY <1>1, <1>3, <1>7

-----------------------------------------------------------------------------
(* The save: the policy *)

LEMMA InvariantTypes ==
    ASSUME HInv
    PROVE  /\ policy \in Policies /\ edges \in Seq(Edges)
           /\ now \in 1..Horizon /\ pass \in 1..Horizon
           /\ held \in 0..Horizon /\ presses \in 0..MaxPresses
           /\ down \in 0..Horizon /\ shutdown \in BOOLEAN /\ session \in BOOLEAN
           /\ quit \in 0..Horizon /\ teardown \in 0..Horizon
PROOF
  BY DEF HInv, HoldTypeOK, Policies, Edges

\* HoldTypeOK in the next state, from the names of its sets.
LEMMA TypesNext ==
    ASSUME policy' \in Policies, edges' \in Seq(Edges),
           now' \in 1..Horizon, pass' \in 1..Horizon,
           held' \in 0..Horizon, presses' \in 0..MaxPresses,
           down' \in 0..Horizon, shutdown' \in BOOLEAN, session' \in BOOLEAN,
           quit' \in 0..Horizon, teardown' \in 0..Horizon
    PROVE  HoldTypeOK'
PROOF
  BY DEF HoldTypeOK, Policies, Edges

\* The answer to a long press: wait for its release, or shut down.
LEMMA LongPressedFacts ==
    ASSUME now \in Nat, NEW press \in Nat, NEW eligible
    PROVE  LET p == LongPressed(press, eligible)
           IN  /\ p \in Policies /\ p.saved = FALSE
               /\ \/ p.phase = "done"
                  \/ /\ p.phase = "await" /\ p.key = TRUE
                     /\ p.boundary = press + Offset /\ now < press + Offset
PROOF
<1> DEFINE p == LongPressed(press, eligible)
           b == press + Offset
           x == [FreshPolicy EXCEPT !.phase = "await", !.boundary = b, !.key = TRUE]
           y == Done(FreshPolicy)
<1> SUFFICES /\ p \in Policies /\ p.saved = FALSE
             /\ \/ p.phase = "done"
                \/ /\ p.phase = "await" /\ p.key = TRUE
                   /\ p.boundary = b /\ now < b
  OBVIOUS
<1>1. b \in Nat /\ 0 \in 0..Horizon
  BY ConstantsAreNat
<1>2. \/ p = x /\ now < b
      \/ p = y
  BY DEF LongPressed
<1> HIDE DEF b
<1>3. FreshPolicy \in Policies /\ FreshPolicy.saved = FALSE
  BY <1>1 DEF FreshPolicy, Policies
<1> DEFINE f == FreshPolicy
<1> HIDE DEF f
<1>4. y \in Policies /\ y.saved = FALSE /\ y.phase = "done"
  <2> y = [f EXCEPT !.phase = "done"]
    BY DEF Done, f
  <2> HIDE DEF y
  <2> QED BY <1>3 DEF Policies, f
<1>5. x \in Policies
  <2> x = [f EXCEPT !.phase = "await", !.boundary = b, !.key = TRUE]
    BY DEF f
  <2> f \in Policies
    BY <1>3 DEF f
  <2> HIDE DEF x
  <2> QED BY <1>1 DEF Policies
<1>6. x.saved = FALSE /\ x.phase = "await" /\ x.key = TRUE /\ x.boundary = b
  BY <1>3 DEF Policies
<1> HIDE DEF x, y, p
<1> QED BY <1>2, <1>4, <1>5, <1>6

\* The deadline is that of the window, or that of the press that came since.
LEMMA DeadlineFacts ==
    ASSUME NEW p \in Policies
    PROVE  /\ Deadline(p) \in Nat /\ Deadline(p) <= p.window
           /\ p.key /\ p.repress > 0 => Deadline(p) <= p.repress + Offset
PROOF
<1>1. p.window \in Nat /\ p.repress \in Nat /\ p.repress + Offset \in Nat
  BY ConstantsAreNat DEF Policies
<1> DEFINE c == p.repress + Offset
           w == p.window
<1>2. Deadline(p) = IF p.key /\ p.repress > 0 /\ c < w THEN c ELSE w
  BY DEF Deadline
<1> HIDE DEF c, w
<1>3. c \in Nat /\ w \in Nat
  BY <1>1 DEF c, w
<1>4. Deadline(p) \in Nat /\ Deadline(p) <= w
      /\ (p.key /\ p.repress > 0 => Deadline(p) <= c)
  BY <1>2, <1>3
<1> QED BY <1>4 DEF c, w

\* A tick goes on only before the boundary or the deadline; it leaves the key
\* and the times alone.
LEMMA TickFacts ==
    ASSUME now \in Nat, NEW p \in Policies, NEW q \in Ticked(p)
    PROVE  /\ q \in Policies
           /\ q.key = p.key /\ q.boundary = p.boundary /\ q.window = p.window
           /\ q.repress = p.repress
           /\ p.phase # "idle" => q.phase # "idle"
           /\ q.phase = "await" => p.phase = "await" /\ now < p.boundary
           /\ q.phase \in {"released", "saving"} =>
                  p.phase \in {"released", "saving"} /\ now < Deadline(p)
           /\ q.saved => \/ p.saved /\ (p.phase = "done" => q.phase = "done")
                         \/ p.phase = "saving" /\ now < Deadline(p) /\ q.phase = "done"
           /\ p.phase = "done" => q = p
PROOF
<1> DEFINE x == Done(p)
           y == [p EXCEPT !.phase = "saving"]
           z == [Done(p) EXCEPT !.saved = TRUE]
<1>1. \/ q = x
      \/ q = p /\ p.phase = "await" /\ ~(now >= p.boundary)
      \/ q = y /\ p.phase = "released" /\ ~(now >= Deadline(p))
      \/ q = p /\ p.phase = "saving" /\ ~(now >= Deadline(p))
      \/ q = z /\ p.phase = "saving" /\ ~(now >= Deadline(p))
      \/ q = p /\ p.phase \in {"idle", "done"}
  BY DEF Ticked, Admitted, Policies
<1>2. p.phase = "done" => q = p
  BY DEF Ticked, Deferring
<1>3. Deadline(p) \in Nat /\ p.boundary \in Nat
  BY DeadlineFacts DEF Policies
<1>4. x \in Policies /\ x.phase = "done" /\ x.saved = p.saved
  BY DEF Done, Policies
<1>5. y \in Policies /\ y.phase = "saving" /\ y.saved = p.saved
  BY DEF Policies
<1>6. z \in Policies /\ z.phase = "done"
  BY DEF Done, Policies
<1>7. \A r \in {x, y, z} :
          /\ r.key = p.key /\ r.boundary = p.boundary /\ r.window = p.window
          /\ r.repress = p.repress
  BY DEF Done, Policies
<1> HIDE DEF x, y, z
<1>8. q \in {p, x, y, z}
  BY <1>1
<1>9. now >= Deadline(p) \/ now < Deadline(p)
  BY <1>3
<1>10. now >= p.boundary \/ now < p.boundary
  BY <1>3
<1>11. /\ q \in Policies
       /\ q.key = p.key /\ q.boundary = p.boundary /\ q.window = p.window
       /\ q.repress = p.repress
  BY <1>4, <1>5, <1>6, <1>7, <1>8
<1>12. /\ p.phase # "idle" => q.phase # "idle"
       /\ q.phase = "await" => p.phase = "await" /\ now < p.boundary
  BY <1>1, <1>4, <1>5, <1>6, <1>10
<1>13. q.phase \in {"released", "saving"} =>
           p.phase \in {"released", "saving"} /\ now < Deadline(p)
  BY <1>1, <1>4, <1>5, <1>6, <1>9
<1>14. q.saved => \/ p.saved /\ (p.phase = "done" => q.phase = "done")
                  \/ p.phase = "saving" /\ now < Deadline(p) /\ q.phase = "done"
  BY <1>1, <1>2, <1>4, <1>5, <1>6, <1>9
<1> QED BY <1>2, <1>11, <1>12, <1>13, <1>14

-----------------------------------------------------------------------------
(* The save: the steps *)

LEMMA InitHolds == HoldInit => HInv
PROOF
<1> SUFFICES ASSUME HoldInit PROVE HInv
  OBVIOUS
<1>1. /\ 1 \in 1..Horizon /\ 0 \in 0..Horizon /\ 0 \in 0..MaxPresses
      /\ Gap \in Nat
  BY ConstantsAreNat
<1>2. edges = <<>> /\ Len(edges) = 0 /\ edges \in Seq(Edges)
  BY DEF HoldInit
<1>3. HoldTypeOK
  BY <1>1, <1>2 DEF HoldInit, HoldTypeOK, FreshPolicy, Edges
<1>4. Paced
  BY <1>1 DEF HoldInit, Paced
<1>5. Unread
  BY <1>2 DEF Unread
<1>6. ~shutdown /\ Awake
  BY <1>1, <1>2 DEF HoldInit, Awake
<1>7. InReserve
  BY DEF HoldInit, InReserve, TeardownInTime
<1> QED BY <1>3, <1>4, <1>5, <1>6, <1>7 DEF HInv

LEMMA ClockKeeps == HInv /\ Clock => HInv'
PROOF
<1> SUFFICES ASSUME HInv, Clock PROVE HInv'
  OBVIOUS
<1>1. /\ teardown = 0 /\ now < Horizon /\ now < pass + Gap /\ now' = now + 1
      /\ pass' = pass /\ held' = held /\ presses' = presses /\ edges' = edges
      /\ down' = down /\ shutdown' = shutdown /\ policy' = policy
      /\ session' = session /\ quit' = quit /\ teardown' = teardown
  BY DEF Clock
<1>2. HoldTypeOK'
  <2>1. now' \in 1..Horizon
    BY <1>1, ConstantsAreNat, InvariantTypes
  <2> QED BY <1>1, <2>1, InvariantTypes, TypesNext
<1>3. Paced'
  BY <1>1, ConstantsAreNat, InvariantTypes DEF HInv, Paced
<1>4. Unread'
  <2>1. \A i \in 1..Len(edges) : edges[i].at <= now'
    <3> TAKE i \in 1..Len(edges)
    <3>1. edges[i] \in Edges
      BY InvariantTypes
    <3>2. edges[i].at \in Nat
      BY <3>1, ConstantsAreNat DEF Edges
    <3> QED BY <1>1, <3>2, InvariantTypes DEF HInv, Unread
  <2> QED BY <1>1, <2>1 DEF HInv, Unread, LastEdge
<1>5. ~shutdown' => Awake'
  <2> SUFFICES ASSUME ~shutdown PROVE Awake'
    BY <1>1
  <2>1. Awake
    BY DEF HInv
  <2>2. down <= now'
    BY <1>1, <2>1, ConstantsAreNat, InvariantTypes DEF Awake
  <2> QED BY <1>1, <2>1, <2>2 DEF Awake, FreshPolicy
<1>6. shutdown' => Leaving'
  <2> SUFFICES ASSUME shutdown PROVE Leaving'
    BY <1>1
  <2> QED BY <1>1 DEF HInv, Leaving, KeyKnown, Waiting, Saving, Deferring
<1>7. InReserve'
  BY <1>1 DEF HInv, InReserve, TeardownInTime, Deferring
<1> QED BY <1>2, <1>3, <1>4, <1>5, <1>6, <1>7 DEF HInv

\* The key goes down or up: one more edge that the daemon has not read.
LEMMA NewEdgeKeeps ==
    ASSUME HInv, teardown = 0, NEW e,
           e.down \in BOOLEAN, e.down <=> held = 0, e.at = now, e \in Edges,
           edges' = Append(edges, e), held' = IF e.down THEN now ELSE 0,
           presses' \in 0..MaxPresses,
           now' = now, pass' = pass, down' = down, shutdown' = shutdown,
           policy' = policy, session' = session, quit' = quit, teardown' = teardown
    PROVE  HInv'
PROOF
<1> DEFINE L == Len(edges)
<1>1. /\ L \in Nat /\ edges' \in Seq(Edges) /\ Len(edges') = L + 1
      /\ edges'[L + 1] = e /\ edges' # <<>>
      /\ \A i \in 1..L : edges'[i] = edges[i] /\ edges[i] \in Edges
      /\ edges = <<>> <=> L = 0
  BY InvariantTypes
<1>2. /\ now \in Nat /\ pass \in Nat /\ held \in Nat /\ down \in Nat
      /\ 1 <= pass /\ pass <= now /\ held <= now
  BY ConstantsAreNat, InvariantTypes DEF HInv, Paced
<1>3. HoldTypeOK'
  <2>1. held' \in 0..Horizon
    BY ConstantsAreNat, InvariantTypes
  <2> QED BY <1>1, <2>1, InvariantTypes, TypesNext
<1>4. Paced'
  BY <1>2 DEF HInv, Paced
<1>5. held = IF edges = <<>> THEN held ELSE IF edges[L].down THEN edges[L].at ELSE 0
  BY DEF HInv, Unread, LastEdge
<1>6. L # 0 => edges[L].down # e.down
  <2> SUFFICES ASSUME L # 0 PROVE edges[L].down # e.down
    OBVIOUS
  <2>1. L \in 1..L /\ edges[L] \in Edges
    BY <1>1
  <2>2. edges[L].down \in BOOLEAN /\ edges[L].at # 0
    BY <2>1, ConstantsAreNat DEF Edges
  <2>3. held = IF edges[L].down THEN edges[L].at ELSE 0
    BY <1>1, <1>5
  <2>4. edges[L].down <=> held # 0
    BY <2>2, <2>3
  <2> QED BY <2>2, <2>4
<1>7. Unread'
  <2>1. \A i \in 1..(L + 1) : pass <= edges'[i].at /\ edges'[i].at <= now
    <3> TAKE i \in 1..(L + 1)
    <3>1. CASE i = L + 1
      BY <1>1, <1>2, <3>1
    <3>2. CASE i # L + 1
      <4>1. i \in 1..L
        BY <1>1, <3>2
      <4> QED BY <1>1, <4>1 DEF HInv, Unread
    <3> QED BY <3>1, <3>2
  <2>2. \A i \in 1..(L + 1) : i + 1 <= L + 1 => edges'[i].down # edges'[i + 1].down
    <3> SUFFICES ASSUME NEW i \in 1..(L + 1), i + 1 <= L + 1
                 PROVE  edges'[i].down # edges'[i + 1].down
      OBVIOUS
    <3>1. i \in 1..L /\ edges'[i] = edges[i]
      BY <1>1
    <3>2. CASE i = L
      <4> L # 0
        BY <1>1, <3>1
      <4> QED BY <1>1, <1>6, <3>1, <3>2
    <3>3. CASE i # L
      <4>1. i + 1 \in 1..L /\ i + 1 <= L
        BY <1>1, <3>1, <3>3
      <4>2. edges'[i + 1] = edges[i + 1]
        BY <1>1, <4>1
      <4>3. edges[i].down # edges[i + 1].down
        BY <3>1, <4>1 DEF HInv, Unread
      <4> QED BY <3>1, <4>2, <4>3
    <3> QED BY <3>2, <3>3
  <2>3. LastEdge' = e
    BY <1>1 DEF LastEdge
  <2> QED BY <1>1, <2>1, <2>2, <2>3 DEF Unread
<1>8. edges'[1] = IF L = 0 THEN e ELSE edges[1]
  <2>1. CASE L = 0
    BY <1>1, <2>1
  <2>2. CASE L # 0
    BY <1>1, <2>2
  <2> QED BY <2>1, <2>2
<1>9. ~shutdown' => Awake'
  <2> SUFFICES ASSUME ~shutdown PROVE Awake'
    OBVIOUS
  <2>1. Awake
    BY DEF HInv
  <2>2. edges'[1].down <=> down = 0
    <3>1. CASE L = 0
      BY <1>1, <1>8, <2>1, <3>1 DEF Awake
    <3>2. CASE L # 0
      BY <1>1, <1>8, <2>1, <3>2 DEF Awake
    <3> QED BY <3>1, <3>2
  <2> QED BY <1>1, <2>1, <2>2 DEF Awake, FreshPolicy
<1>10. shutdown' => Leaving'
  <2> SUFFICES ASSUME shutdown PROVE Leaving'
    OBVIOUS
  <2>1. Leaving
    BY DEF HInv
  <2>2. (Deferring(policy) \/ policy.saved) => (edges'[1].down <=> ~policy.key)
    <3> SUFFICES ASSUME Deferring(policy) \/ policy.saved
                 PROVE  edges'[1].down <=> ~policy.key
      OBVIOUS
    <3>1. KeyKnown
      BY <2>1 DEF Leaving
    <3>2. CASE L = 0
      BY <1>1, <1>8, <3>1, <3>2 DEF KeyKnown
    <3>3. CASE L # 0
      BY <1>1, <1>8, <3>1, <3>3 DEF KeyKnown
    <3> QED BY <3>2, <3>3
  <2>3. (Deferring(policy) \/ policy.saved) => KeyKnown'
    BY <1>1, <2>2 DEF KeyKnown
  <2>4. Waiting'
    BY <1>1, <2>1 DEF Leaving, Waiting
  <2>5. Saving'
    BY <1>1, <2>1 DEF Leaving, Saving
  <2> QED BY <2>1, <2>3, <2>4, <2>5 DEF Leaving, Deferring
<1>11. InReserve'
  <2>1. held' # 0 => pass + Gap + Reserve <= held' + Cut
    <3>1. Gap + Reserve <= Cut /\ Gap \in Nat /\ Reserve \in Nat /\ Cut \in Nat
      BY ConstantsAreNat
    <3> QED BY <1>2, <3>1
  <2> QED BY <2>1 DEF InReserve, TeardownInTime
<1> QED BY <1>3, <1>4, <1>7, <1>9, <1>10, <1>11 DEF HInv

LEMMA KeyKeeps == HInv /\ (Press \/ Release) => HInv'
PROOF
<1> SUFFICES ASSUME HInv, Press \/ Release PROVE HInv'
  OBVIOUS
<1>1. now \in 1..Horizon
  BY InvariantTypes
<1>2. CASE Press
  <2> DEFINE e == [down |-> TRUE, at |-> now]
  <2>1. e \in Edges /\ e.down = TRUE /\ e.at = now
    BY <1>1 DEF Edges
  <2>2. /\ teardown = 0 /\ held = 0 /\ edges' = Append(edges, e) /\ held' = now
        /\ presses < MaxPresses /\ presses' = presses + 1
        /\ now' = now /\ pass' = pass /\ down' = down /\ shutdown' = shutdown
        /\ policy' = policy /\ session' = session /\ quit' = quit /\ teardown' = teardown
    BY <1>2 DEF Press
  <2>3. presses' \in 0..MaxPresses
    BY <2>2, ConstantsAreNat, InvariantTypes
  <2>4. /\ e.down \in BOOLEAN /\ (e.down <=> held = 0)
        /\ held' = IF e.down THEN now ELSE 0
    BY <2>1, <2>2
  <2> HIDE DEF e
  <2> QED BY <2>1, <2>2, <2>3, <2>4, NewEdgeKeeps
<1>3. CASE Release
  <2> DEFINE e == [down |-> FALSE, at |-> now]
  <2>1. e \in Edges /\ e.down = FALSE /\ e.at = now
    BY <1>1 DEF Edges
  <2>2. /\ teardown = 0 /\ held # 0 /\ edges' = Append(edges, e) /\ held' = 0
        /\ presses' = presses
        /\ now' = now /\ pass' = pass /\ down' = down /\ shutdown' = shutdown
        /\ policy' = policy /\ session' = session /\ quit' = quit /\ teardown' = teardown
    BY <1>3 DEF Release
  <2>3. presses' \in 0..MaxPresses
    BY <2>2, InvariantTypes
  <2>4. /\ e.down \in BOOLEAN /\ (e.down <=> held = 0)
        /\ held' = IF e.down THEN now ELSE 0
    BY <2>1, <2>2
  <2> HIDE DEF e
  <2> QED BY <2>1, <2>2, <2>3, <2>4, NewEdgeKeeps
<1> QED BY <1>2, <1>3

LEMMA ExitKeeps == HInv /\ RetroArchExits => HInv'
PROOF
<1> SUFFICES ASSUME HInv, RetroArchExits PROVE HInv'
  OBVIOUS
<1>1. /\ now' = now /\ session' = FALSE
      /\ pass' = pass /\ held' = held /\ presses' = presses /\ edges' = edges
      /\ down' = down /\ shutdown' = shutdown /\ policy' = policy
      /\ quit' = quit /\ teardown' = teardown
  BY DEF RetroArchExits
<1>2. HoldTypeOK'
  BY <1>1, InvariantTypes, TypesNext
<1>3. Paced' /\ Unread'
  BY <1>1 DEF HInv, Paced, Unread, LastEdge
<1>4. (~shutdown' => Awake') /\ (shutdown' => Leaving')
  BY <1>1 DEF HInv, Awake, FreshPolicy, Leaving, KeyKnown, Waiting, Saving, Deferring
<1>5. InReserve'
  BY <1>1 DEF HInv, InReserve, TeardownInTime, Deferring
<1> QED BY <1>2, <1>3, <1>4, <1>5 DEF HInv

\* A pass that has nothing to read and no long press to recognise.
LEMMA IdlePassKeeps == HInv /\ IdlePass => HInv'
PROOF
<1> SUFFICES ASSUME HInv, IdlePass PROVE HInv'
  OBVIOUS
<1>1. /\ teardown = 0 /\ ~shutdown /\ edges = <<>>
      /\ (down = 0 \/ now - down < LongPress)
      /\ pass' = now /\ now' = now
      /\ held' = held /\ presses' = presses /\ edges' = edges
      /\ down' = down /\ shutdown' = shutdown /\ policy' = policy
      /\ session' = session /\ quit' = quit /\ teardown' = teardown
  BY DEF IdlePass
<1>2. /\ now \in Nat /\ pass \in Nat /\ held \in Nat /\ down \in Nat
      /\ 1 <= pass /\ pass <= now /\ held <= now /\ now <= pass + Gap
  BY ConstantsAreNat, InvariantTypes DEF HInv, Paced
<1>3. Awake
  BY <1>1 DEF HInv
<1>4. HoldTypeOK'
  BY <1>1, InvariantTypes, TypesNext
<1>5. Paced'
  BY <1>1, <1>2, ConstantsAreNat DEF Paced
<1>6. Unread'
  <2>1. Len(edges) = 0 /\ Len(edges') = 0
    BY <1>1
  <2> QED BY <1>1, <2>1 DEF Unread
<1>7. Awake'
  <2>1. down # 0 => now < down + LongPress
    BY <1>1, <1>2, <1>3, ConstantsAreNat DEF Awake
  <2> QED BY <1>1, <1>3, <2>1 DEF Awake, FreshPolicy
<1>8. InReserve'
  <2>1. ASSUME Roomy, held # 0
        PROVE  now + Gap + Reserve <= held + Cut
    <3>1. down = held /\ now < held + LongPress
      BY <1>1, <1>2, <1>3, <2>1, ConstantsAreNat DEF Awake
    <3> QED BY <1>2, <2>1, <3>1, ConstantsAreNat DEF Roomy
  <2> QED BY <1>1, <2>1 DEF InReserve, TeardownInTime
<1> QED BY <1>1, <1>4, <1>5, <1>6, <1>7, <1>8 DEF HInv

\* The daemon knows the key as it is, and the press is over the threshold: the
\* policy waits for its release or lets the shutdown go on.
LEMMA HoldRecognisedKeeps == HInv /\ HoldRecognised => HInv'
PROOF
<1> SUFFICES ASSUME HInv, HoldRecognised PROVE HInv'
  OBVIOUS
<1>1. /\ teardown = 0 /\ ~shutdown /\ edges = <<>> /\ down # 0
      /\ down' = 0 /\ shutdown' = TRUE /\ pass' = now /\ now' = now
      /\ held' = held /\ presses' = presses /\ edges' = edges
      /\ session' = session /\ quit' = quit /\ teardown' = teardown
  BY DEF HoldRecognised
<1>2. /\ now \in Nat /\ pass \in Nat /\ held \in Nat /\ down \in Nat
      /\ 1 <= pass /\ pass <= now /\ held <= now /\ now <= pass + Gap
  BY ConstantsAreNat, InvariantTypes DEF HInv, Paced
<1>3. Awake /\ down = held
  BY <1>1 DEF HInv, Awake
<1>4. PICK eligible \in {session, FALSE} : policy' = LongPressed(down, eligible)
  BY DEF HoldRecognised
<1>5. /\ policy' \in Policies /\ policy'.saved = FALSE
      /\ \/ policy'.phase = "done"
         \/ /\ policy'.phase = "await" /\ policy'.key = TRUE
            /\ policy'.boundary = held + Offset /\ now < held + Offset
  BY <1>2, <1>3, <1>4, LongPressedFacts
<1>6. HoldTypeOK'
  <2>1. 0 \in 0..Horizon
    BY ConstantsAreNat
  <2> QED BY <1>1, <1>5, <2>1, InvariantTypes, TypesNext
<1>7. Paced'
  BY <1>1, <1>2, ConstantsAreNat DEF Paced
<1>8. Unread'
  <2>1. Len(edges) = 0 /\ Len(edges') = 0
    BY <1>1
  <2> QED BY <1>1, <2>1 DEF Unread
<1>9. Leaving'
  <2>1. (Deferring(policy') \/ policy'.saved) => KeyKnown'
    BY <1>1, <1>3, <1>5 DEF Deferring, KeyKnown
  <2>2. Waiting'
    BY <1>1, <1>5 DEF Waiting
  <2>3. Saving'
    BY <1>5 DEF Saving
  <2> QED BY <1>1, <1>5, <2>1, <2>2, <2>3 DEF Leaving
<1>10. InReserve'
  <2>1. ASSUME Roomy
        PROVE  now + Gap + Reserve <= held + Cut
    <3>1. pass < held + LongPress \/ pass <= held + Gap
      BY <1>1, <1>3 DEF Awake
    <3> QED BY <1>2, <2>1, <3>1, ConstantsAreNat DEF Roomy
  <2>2. ASSUME policy'.phase # "done"
        PROVE  now + Gap + Reserve <= held + Cut
    <3>1. now < held + Offset
      BY <1>5, <2>2
    <3> QED BY <1>2, <3>1, ConstantsAreNat
  <2>3. Deferring(policy') => policy'.phase # "done"
    BY DEF Deferring
  <2> QED BY <1>1, <2>1, <2>2, <2>3 DEF InReserve, TeardownInTime
<1> QED BY <1>1, <1>6, <1>7, <1>8, <1>9, <1>10 DEF HInv

\* Before the shutdown one edge is read; the edge that ends a long press is
\* the first that the policy hears of.
LEMMA ReadEdgeKeeps == HInv /\ ReadEdge => HInv'
PROOF
<1> SUFFICES ASSUME HInv, ReadEdge PROVE HInv'
  OBVIOUS
<1> DEFINE L == Len(edges)
           e == Head(edges)
           t == Tail(edges)
<1>1. /\ teardown = 0 /\ ~shutdown /\ edges # <<>>
      /\ down' = IF e.down THEN e.at ELSE 0
      /\ pass' = IF t = <<>> THEN now ELSE pass
      /\ now' = now /\ held' = held /\ presses' = presses /\ edges' = t
      /\ session' = session /\ quit' = quit /\ teardown' = teardown
  BY DEF ReadEdge
<1>2. \/ shutdown' = FALSE /\ policy' = policy
      \/ /\ shutdown' = TRUE /\ ~e.down
         /\ \E eligible \in {session, FALSE} :
                policy' = KeyEdge(LongPressed(down, eligible), e)
  BY DEF ReadEdge
<1>3. /\ L \in Nat /\ L >= 1 /\ e = edges[1] /\ t \in Seq(Edges) /\ Len(t) = L - 1
      /\ \A i \in 1..(L - 1) : t[i] = edges[i + 1]
      /\ t = <<>> <=> L = 1
  <2>1. edges \in Seq(Edges) /\ edges # <<>>
    BY <1>1, InvariantTypes
  <2>2. L \in Nat /\ L >= 1 /\ e = edges[1]
    BY <2>1
  <2>3. t \in Seq(Edges) /\ Len(t) = L - 1
    BY <2>1
  <2>4. \A i \in 1..(L - 1) : t[i] = edges[i + 1]
    BY <2>1
  <2>5. t = <<>> <=> Len(t) = 0
    BY <2>3, EmptySeq
  <2> QED BY <2>2, <2>3, <2>4, <2>5
<1>4. /\ e \in Edges /\ e.down \in BOOLEAN /\ e.at \in 1..Horizon /\ e.at \in Nat
      /\ e.at # 0
  <2>1. e \in Edges
    BY <1>3, InvariantTypes
  <2> QED BY <2>1, ConstantsAreNat DEF Edges
<1>5. /\ now \in Nat /\ pass \in Nat /\ held \in Nat /\ down \in Nat
      /\ 1 <= pass /\ pass <= now /\ held <= now /\ now <= pass + Gap
  BY ConstantsAreNat, InvariantTypes DEF HInv, Paced
<1>6. pass <= e.at /\ e.at <= now
  BY <1>3 DEF HInv, Unread
<1>7. t = <<>> => held = IF e.down THEN e.at ELSE 0
  BY <1>1, <1>3 DEF HInv, Unread, LastEdge
<1>8. t # <<>> => t[1].down # e.down
  <2> SUFFICES ASSUME t # <<>> PROVE t[1].down # e.down
    OBVIOUS
  <2>1. 1 \in 1..L /\ 1 + 1 <= L /\ t[1] = edges[1 + 1]
    BY <1>3
  <2> QED BY <1>3, <2>1 DEF HInv, Unread
<1>9. t # <<>> => /\ t[L - 1].at \in Nat /\ pass <= t[L - 1].at
                  /\ held = IF t[L - 1].down THEN t[L - 1].at ELSE 0
                  /\ t[1].down \in BOOLEAN
  <2> SUFFICES ASSUME t # <<>>
               PROVE  /\ t[L - 1].at \in Nat /\ pass <= t[L - 1].at
                      /\ held = IF t[L - 1].down THEN t[L - 1].at ELSE 0
                      /\ t[1].down \in BOOLEAN
    OBVIOUS
  <2>1. L - 1 \in 1..(L - 1) /\ t[L - 1] = edges[L] /\ L \in 1..L /\ 1 \in 1..(L - 1)
    BY <1>3
  <2>2. edges[L] \in Edges /\ t[1] \in Edges
    BY <1>3, <2>1, InvariantTypes
  <2>3. edges[L].at \in Nat /\ t[1].down \in BOOLEAN
    BY <2>2, ConstantsAreNat DEF Edges
  <2>4. pass <= edges[L].at
    BY <2>1 DEF HInv, Unread
  <2>5. held = IF edges[L].down THEN edges[L].at ELSE 0
    BY <1>1 DEF HInv, Unread, LastEdge
  <2> QED BY <2>1, <2>3, <2>4, <2>5
<1>10. Awake
  BY <1>1 DEF HInv
<1>11. /\ pass' \in Nat /\ pass <= pass' /\ pass' <= now /\ pass' <= e.at + Gap
       /\ pass' \in 1..Horizon
  BY <1>1, <1>4, <1>5, <1>6, ConstantsAreNat, InvariantTypes
<1>12. Paced'
  BY <1>1, <1>5, <1>11, ConstantsAreNat DEF Paced
<1>13. Unread'
  <2> SUFFICES ASSUME t # <<>> PROVE Unread'
    <3>1. ASSUME t = <<>> PROVE Unread'
      <4>1. edges' = <<>> /\ Len(edges') = 0
        BY <1>1, <3>1
      <4> QED BY <4>1 DEF Unread
    <3> QED BY <3>1
  <2>1. pass' = pass
    BY <1>1
  <2>2. \A i \in 1..(L - 1) : pass <= t[i].at /\ t[i].at <= now
    <3> TAKE i \in 1..(L - 1)
    <3>1. i + 1 \in 1..L /\ t[i] = edges[i + 1]
      BY <1>3
    <3> QED BY <3>1 DEF HInv, Unread
  <2>3. \A i \in 1..(L - 1) : i + 1 <= L - 1 => t[i].down # t[i + 1].down
    <3> SUFFICES ASSUME NEW i \in 1..(L - 1), i + 1 <= L - 1
                 PROVE  t[i].down # t[i + 1].down
      OBVIOUS
    <3>1. /\ i + 1 \in 1..(L - 1) /\ i + 1 \in 1..L /\ (i + 1) + 1 <= L
          /\ t[i] = edges[i + 1] /\ t[i + 1] = edges[(i + 1) + 1]
      BY <1>3
    <3> QED BY <3>1 DEF HInv, Unread
  <2>4. LastEdge' = t[L - 1]
    BY <1>1, <1>3 DEF LastEdge
  <2> HIDE DEF t
  <2> QED BY <1>1, <1>3, <1>9, <2>1, <2>2, <2>3, <2>4 DEF Unread
<1>14. held # 0 /\ (Roomy \/ ~e.down) => pass' + Gap + Reserve <= held + Cut
  <2> SUFFICES ASSUME held # 0, Roomy \/ ~e.down
               PROVE  pass' + Gap + Reserve <= held + Cut
    OBVIOUS
  <2>1. CASE t = <<>>
    <3>1. Roomy /\ held = e.at
      BY <1>7, <2>1
    <3> QED BY <1>4, <1>5, <1>11, <3>1, ConstantsAreNat DEF Roomy
  <2>2. CASE t # <<>>
    <3>1. pass' = pass /\ pass <= held
      BY <1>1, <1>9, <2>2
    <3> QED BY <1>5, <3>1, ConstantsAreNat
  <2> QED BY <2>1, <2>2
<1>15. down' \in 0..Horizon /\ down' \in Nat
  BY <1>1, <1>4, ConstantsAreNat
<1>16. CASE shutdown' = FALSE /\ policy' = policy
  <2>1. HoldTypeOK'
    BY <1>1, <1>3, <1>11, <1>15, <1>16, InvariantTypes, TypesNext
  <2>2. Awake'
    <3>1. t = <<>> => down' = held
      BY <1>1, <1>7
    <3>2. t # <<>> => (t[1].down <=> down' = 0)
      BY <1>1, <1>4, <1>8, <1>9
    <3>3. down' <= now /\ (down' # 0 => pass' <= down' + Gap)
      BY <1>1, <1>4, <1>5, <1>6, <1>11
    <3> HIDE DEF t
    <3> QED BY <1>1, <1>10, <1>16, <3>1, <3>2, <3>3 DEF Awake, FreshPolicy
  <2>3. InReserve'
    BY <1>1, <1>14, <1>16 DEF InReserve, TeardownInTime
  <2> QED BY <1>12, <1>13, <1>16, <2>1, <2>2, <2>3 DEF HInv
<1>17. CASE /\ shutdown' = TRUE /\ ~e.down
            /\ \E eligible \in {session, FALSE} :
                   policy' = KeyEdge(LongPressed(down, eligible), e)
  <2>1. PICK eligible \in {session, FALSE} :
            policy' = KeyEdge(LongPressed(down, eligible), e)
    BY <1>17
  <2> DEFINE p == LongPressed(down, eligible)
  <2>2. p \in Policies /\ p.saved = FALSE /\ p.phase \in {"await", "done"}
    BY <1>5, LongPressedFacts
  <2>3. policy' = KeyEdge(p, e)
    BY <2>1
  <2> HIDE DEF p, e
  <2>4. /\ policy' \in Policies /\ policy'.saved = FALSE /\ policy'.key = FALSE
        /\ policy'.phase \in {"done", "released"}
        /\ policy'.phase = "released" => policy'.window = e.at + SaveWindow
    BY <1>4, <1>17, <2>2, <2>3, KeyEdgeFacts
  <2>5. HoldTypeOK'
    BY <1>1, <1>3, <1>11, <1>15, <1>17, <2>4, InvariantTypes, TypesNext
  <2>6. KeyKnown'
    <3>1. t = <<>> => held = 0
      BY <1>7, <1>17
    <3>2. t # <<>> => t[1].down
      BY <1>4, <1>8, <1>9, <1>17
    <3> HIDE DEF t
    <3> QED BY <1>1, <2>4, <3>1, <3>2 DEF KeyKnown
  <2>7. Leaving'
    <3>1. Waiting'
      BY <2>4 DEF Waiting
    <3>2. Saving'
      <4>1. e.at + Gap <= e.at + SaveWindow
        BY <1>4, ConstantsAreNat
      <4>2. pass' <= e.at + SaveWindow
        BY <1>4, <1>11, <4>1, ConstantsAreNat
      <4> QED BY <2>4, <4>2 DEF Saving
    <3> QED BY <1>1, <2>4, <2>6, <3>1, <3>2 DEF Leaving
  <2>8. InReserve'
    BY <1>1, <1>14, <1>17 DEF InReserve, TeardownInTime
  <2> QED BY <1>12, <1>13, <1>17, <2>5, <2>7, <2>8 DEF HInv
<1> QED BY <1>2, <1>16, <1>17

\* A shutdown pass: after the edges the policy knows the key as it is, and what
\* the tick lets go on has its deadline ahead.
LEMMA ShutdownPassKeeps == HInv /\ ShutdownPass => HInv'
PROOF
<1> SUFFICES ASSUME HInv, ShutdownPass PROVE HInv'
  OBVIOUS
<1> DEFINE p == EdgesRead(policy, edges)
<1>1. /\ teardown = 0 /\ shutdown
      /\ edges' = <<>> /\ pass' = now /\ now' = now
      /\ held' = held /\ presses' = presses /\ down' = down
      /\ shutdown' = shutdown /\ session' = session
  BY DEF ShutdownPass
<1>2. PICK q \in Ticked(p) :
          /\ policy' = q
          /\ IF Deferring(q) THEN UNCHANGED <<quit, teardown>> ELSE QuitGrace(q)
  BY DEF ShutdownPass
<1>3. /\ now \in Nat /\ pass \in Nat /\ held \in Nat
      /\ 1 <= pass /\ pass <= now /\ held <= now /\ now <= pass + Gap
  BY ConstantsAreNat, InvariantTypes DEF HInv, Paced
<1>4. Leaving
  BY <1>1 DEF HInv
<1>5. edges # <<>> =>
          /\ LastEdge.down \in BOOLEAN /\ LastEdge.at # 0
          /\ held = IF LastEdge.down THEN LastEdge.at ELSE 0
  <2> SUFFICES ASSUME edges # <<>>
               PROVE  /\ LastEdge.down \in BOOLEAN /\ LastEdge.at # 0
                      /\ held = IF LastEdge.down THEN LastEdge.at ELSE 0
    OBVIOUS
  <2>1. Len(edges) \in 1..Len(edges)
    BY InvariantTypes
  <2>2. LastEdge \in Edges
    BY <2>1, InvariantTypes DEF LastEdge
  <2> QED BY <2>2, ConstantsAreNat DEF Edges, HInv, Unread
<1>6. edges # <<>> /\ policy.phase = "await" => ~edges[1].down
  BY <1>1, <1>4 DEF Leaving, KeyKnown, Waiting, Deferring
<1>7. policy \in Policies /\ edges \in Seq(Edges)
  BY InvariantTypes
<1>8. /\ p \in Policies /\ p.saved = policy.saved /\ p.boundary = policy.boundary
      /\ edges = <<>> => p = policy
      /\ edges # <<>> => p.key = LastEdge.down /\ p.phase # "await"
      /\ policy.phase = "done" => p.phase = "done"
      /\ policy.phase # "idle" => p.phase # "idle"
      /\ edges # <<>> /\ LastEdge.down /\ p.phase \in {"released", "saving"} =>
             p.repress = LastEdge.at
  BY <1>6, <1>7, EdgesReadFacts DEF LastEdge
<1> HIDE DEF p
<1>9. /\ q \in Policies
      /\ q.key = p.key /\ q.boundary = p.boundary /\ q.window = p.window
      /\ q.repress = p.repress
      /\ p.phase # "idle" => q.phase # "idle"
      /\ q.phase = "await" => p.phase = "await" /\ now < p.boundary
      /\ q.phase \in {"released", "saving"} =>
             p.phase \in {"released", "saving"} /\ now < Deadline(p)
      /\ q.saved => \/ p.saved /\ (p.phase = "done" => q.phase = "done")
                    \/ p.phase = "saving" /\ now < Deadline(p) /\ q.phase = "done"
      /\ p.phase = "done" => q = p
  BY <1>2, <1>3, <1>8, TickFacts
<1>10. q.phase # "idle" /\ (q.saved => q.phase = "done")
  BY <1>4, <1>8, <1>9 DEF Leaving
\* the policy knows the key as it is
<1>11. Deferring(q) \/ q.saved => (q.key <=> held # 0)
  <2> SUFFICES ASSUME Deferring(q) \/ q.saved PROVE q.key <=> held # 0
    OBVIOUS
  <2>1. Deferring(p) \/ p.saved
    BY <1>9 DEF Deferring
  <2>2. Deferring(policy) \/ policy.saved
    BY <1>4, <1>7, <1>8, <2>1 DEF Deferring, Leaving, Policies
  <2>3. CASE edges = <<>>
    BY <1>1, <1>4, <1>8, <1>9, <2>2, <2>3 DEF Leaving, KeyKnown
  <2>4. CASE edges # <<>>
    BY <1>5, <1>8, <1>9, <2>4
  <2> QED BY <2>3, <2>4
\* a press is counted from its beginning
<1>12. p.phase \in {"released", "saving"} /\ p.key /\ (p.key <=> held # 0) =>
           p.repress = held
  <2> SUFFICES ASSUME p.phase \in {"released", "saving"}, p.key, held # 0
               PROVE  p.repress = held
    OBVIOUS
  <2>1. CASE edges = <<>>
    BY <1>4, <1>8, <2>1 DEF Leaving, Saving
  <2>2. CASE edges # <<>>
    BY <1>5, <1>8, <2>2
  <2> QED BY <2>1, <2>2
<1>13. p.phase \in {"released", "saving"} /\ now < Deadline(p) /\ held # 0
           /\ (p.key <=> held # 0) => now < held + Offset
  <2> SUFFICES ASSUME p.phase \in {"released", "saving"}, now < Deadline(p), held # 0,
                      p.key
               PROVE  now < held + Offset
    OBVIOUS
  <2>1. p.repress = held /\ p.repress > 0
    BY <1>3, <1>12
  <2>2. Deadline(p) \in Nat /\ Deadline(p) <= held + Offset
    BY <1>8, <2>1, DeadlineFacts
  <2> QED BY <1>3, <2>2, ConstantsAreNat
<1>14. q.phase = "await" => /\ q.key /\ now < q.boundary /\ q.boundary = held + Offset
  <2> SUFFICES ASSUME q.phase = "await"
               PROVE  q.key /\ now < q.boundary /\ q.boundary = held + Offset
    OBVIOUS
  <2>1. p.phase = "await" /\ now < p.boundary
    BY <1>9
  <2>2. edges = <<>> /\ p = policy
    BY <1>8, <2>1
  <2> QED BY <1>4, <1>9, <2>1, <2>2 DEF Leaving, Waiting
\* what goes on has its deadline ahead
<1>15. (Deferring(q) \/ (q.saved /\ ~p.saved)) /\ held # 0 =>
           now + Gap + Reserve <= held + Cut
  <2> SUFFICES ASSUME Deferring(q) \/ (q.saved /\ ~p.saved), held # 0
               PROVE  now + Gap + Reserve <= held + Cut
    OBVIOUS
  <2>1. p.key <=> held # 0
    BY <1>9, <1>11
  <2>2. \/ q.phase = "await"
        \/ p.phase \in {"released", "saving"} /\ now < Deadline(p)
    BY <1>9 DEF Deferring
  <2>3. now < held + Offset
    BY <1>13, <1>14, <2>1, <2>2
  <2> QED BY <1>3, <2>3, ConstantsAreNat
<1>16. now # 0
  BY <1>3
<1>17. /\ quit' \in {quit, now} /\ teardown' \in {0, now}
       /\ Deferring(q) => teardown' = 0
  BY <1>1, <1>2 DEF QuitGrace
<1>18. teardown' = 0 /\ ~Deferring(q) =>
           /\ q.saved
           /\ \/ quit = 0 /\ quit' = now
              \/ quit # 0 /\ quit' = quit /\ ~q.key
  BY <1>1, <1>2, <1>16 DEF QuitGrace
<1>19. HoldTypeOK'
  <2>1. edges' \in Seq(Edges)
    BY <1>1, EmptySeq
  <2>2. pass' \in 1..Horizon /\ quit' \in 0..Horizon /\ teardown' \in 0..Horizon
    BY <1>1, <1>17, ConstantsAreNat, InvariantTypes
  <2>3. policy' \in Policies
    BY <1>2, <1>9
  <2> QED BY <1>1, <2>1, <2>2, <2>3, InvariantTypes, TypesNext
<1>20. Paced'
  BY <1>1, <1>3, ConstantsAreNat DEF Paced
<1>21. Unread'
  <2>1. Len(edges') = 0
    BY <1>1
  <2> QED BY <1>1, <2>1 DEF Unread
<1>22. Leaving'
  <2>1. (Deferring(q) \/ q.saved) => KeyKnown'
    BY <1>1, <1>2, <1>11 DEF KeyKnown
  <2>2. Waiting'
    BY <1>1, <1>2, <1>14 DEF Waiting
  <2>3. Saving'
    <3> SUFFICES ASSUME q.phase \in {"released", "saving"}
                 PROVE  now <= q.window /\ (q.key => q.repress = held)
      BY <1>1, <1>2 DEF Saving
    <3>1. p.phase \in {"released", "saving"} /\ now < Deadline(p)
      BY <1>9
    <3>2. Deadline(p) \in Nat /\ Deadline(p) <= p.window /\ p.window \in Nat
      BY <1>8, DeadlineFacts DEF Policies
    <3>3. now <= q.window
      BY <1>3, <1>9, <3>1, <3>2
    <3>4. q.key => q.repress = held
      BY <1>9, <1>11, <1>12, <3>1 DEF Deferring
    <3> QED BY <3>3, <3>4
  <2>4. teardown' = 0 /\ q.saved => quit' # 0
    BY <1>10, <1>16, <1>18 DEF Deferring
  <2> QED BY <1>2, <1>10, <1>17, <1>16, <2>1, <2>2, <2>3, <2>4 DEF Leaving
<1>23. InReserve'
  <2>1. ASSUME teardown' = 0, held # 0
        PROVE  now + Gap + Reserve <= held + Cut
    <3>1. CASE Deferring(q)
      BY <1>15, <2>1, <3>1
    <3>2. CASE ~Deferring(q)
      <4>1. q.saved /\ quit = 0
        BY <1>11, <1>18, <2>1, <3>2
      <4>2. ~p.saved
        BY <1>1, <1>4, <1>8, <4>1 DEF Leaving
      <4> QED BY <1>15, <2>1, <4>1, <4>2
    <3> QED BY <3>1, <3>2
  <2>2. ASSUME Roomy, teardown' # 0, held # 0
        PROVE  teardown' + Reserve <= held + Cut
    <3>1. teardown' = now
      BY <1>17, <2>2
    <3>2. pass + Gap + Reserve <= held + Cut
      BY <1>1, <2>2 DEF HInv, InReserve
    <3> QED BY <1>3, <3>1, <3>2, ConstantsAreNat
  <2> QED BY <1>1, <2>1, <2>2 DEF InReserve, TeardownInTime
<1> QED BY <1>1, <1>19, <1>20, <1>21, <1>22, <1>23 DEF HInv

LEMMA StutterKeeps == HInv /\ UNCHANGED holdVars => HInv'
PROOF
<1> SUFFICES ASSUME HInv, UNCHANGED holdVars PROVE HInv'
  OBVIOUS
<1>1. /\ now' = now /\ session' = session
      /\ pass' = pass /\ held' = held /\ presses' = presses /\ edges' = edges
      /\ down' = down /\ shutdown' = shutdown /\ policy' = policy
      /\ quit' = quit /\ teardown' = teardown
  BY DEF holdVars
<1>2. HoldTypeOK'
  BY <1>1, InvariantTypes, TypesNext
<1>3. Paced' /\ Unread'
  BY <1>1 DEF HInv, Paced, Unread, LastEdge
<1>4. (~shutdown' => Awake') /\ (shutdown' => Leaving')
  BY <1>1 DEF HInv, Awake, FreshPolicy, Leaving, KeyKnown, Waiting, Saving, Deferring
<1>5. InReserve'
  BY <1>1 DEF HInv, InReserve, TeardownInTime, Deferring
<1> QED BY <1>2, <1>3, <1>4, <1>5 DEF HInv

-----------------------------------------------------------------------------
(* The save: theorems *)

\* Every step of the key, of RetroArch and of the daemon keeps the invariant,
\* for every value of the constants.
THEOREM HoldInvariance == HoldSpec => []HInv
PROOF
<1>1. HInv /\ [HoldNext]_holdVars => HInv'
  BY ClockKeeps, KeyKeeps, ExitKeeps, ReadEdgeKeeps, HoldRecognisedKeeps, IdlePassKeeps,
     ShutdownPassKeeps, StutterKeeps DEF HoldNext, Pass
<1> QED BY <1>1, InitHolds, PTL DEF HoldSpec

\* The state of the policy and of the passes has its type.
THEOREM HoldTypeCorrect == HoldSpec => []HoldTypeOK
PROOF
<1>1. HInv => HoldTypeOK
  BY DEF HInv
<1> QED BY <1>1, HoldInvariance, PTL

\* While the daemon waits for a release or for the save with the key held, the
\* reserve of the teardown is not touched, and a save ends with its window:
\* with every cut, the stock one included, since the policy does not start to
\* wait where the cut leaves no time for it.
THEOREM DeferralInTime == HoldSpec => [](DeferredInTime /\ WindowKept)
PROOF
<1>1. HInv => DeferredInTime /\ WindowKept
  <2> SUFFICES ASSUME HInv PROVE DeferredInTime /\ WindowKept
    OBVIOUS
  <2>1. /\ now \in Nat /\ pass \in Nat /\ held \in Nat /\ now <= pass + Gap
    BY ConstantsAreNat, InvariantTypes DEF HInv, Paced
  <2>2. DeferredInTime
    <3> SUFFICES ASSUME shutdown, Deferring(policy), held # 0
                 PROVE  now + Reserve <= held + Cut
      BY DEF DeferredInTime
    <3>1. teardown = 0
      BY DEF HInv, Leaving
    <3>2. pass + Gap + Reserve <= held + Cut
      BY <3>1 DEF HInv, InReserve
    <3> QED BY <2>1, <3>2, ConstantsAreNat
  <2>3. WindowKept
    <3> SUFFICES ASSUME policy.phase \in {"released", "saving"}
                 PROVE  now <= policy.window + Gap
      BY DEF WindowKept
    <3>1. shutdown
      BY InvariantTypes DEF HInv, Awake, FreshPolicy
    <3>2. pass <= policy.window /\ policy.window \in Nat
      BY <3>1, InvariantTypes DEF HInv, Leaving, Saving, Policies
    <3> QED BY <2>1, <3>2, ConstantsAreNat
  <2> QED BY <2>2, <2>3
<1> QED BY <1>1, HoldInvariance, PTL

\* With a cut that leaves room for the long press and the late passes around
\* it, a teardown that begins with the key held has its reserve before the cut,
\* whatever the presses, the saves and RetroArch's exit.
THEOREM HoldSaveInTime == Roomy => (HoldSpec => []HoldSaveTimely)
PROOF
<1> SUFFICES ASSUME Roomy PROVE HoldSpec => []HoldSaveTimely
  OBVIOUS
<1>1. HInv => TeardownInTime
  BY DEF HInv, InReserve
<1>2. TeardownInTime /\ DeferredInTime /\ WindowKept => HoldSaveTimely
  BY DEF HoldSaveTimely
<1> QED BY <1>1, <1>2, HoldInvariance, DeferralInTime, PTL

-----------------------------------------------------------------------------
(* Connections: the constants of the code, and the bounds *)

SocketSized ==
    /\ NClients \in Nat /\ Slots \in Nat /\ QueueMax \in Nat
    /\ MaxMoves \in Nat /\ MaxEvents \in Nat

-----------------------------------------------------------------------------
(* Connections: the invariant *)

Items == Frames \cup {"half"}
Messages == {"reply", "event"}
Peers == [phase : {"away", "open", "gone", "closed"}, sent : Seq(Items), owed : 0..MaxMoves,
          reads : BOOLEAN]
Connections == [client : Clients \cup {NoClient}, partial : BOOLEAN, late : BOOLEAN,
                queue : Seq(Messages), subscribed : BOOLEAN, closing : BOOLEAN]

\* A slot is empty, or the connection of one client alone.
Linked ==
    /\ \A k \in 1..Slots : slot[k].client = NoClient => slot[k] = Free
    /\ \A j, k \in 1..Slots :
          slot[j].client = slot[k].client /\ slot[j].client # NoClient => j = k

\* A client that is not connected has nothing unread, and none has written more
\* frames than it made moves.
Quiet(p) ==
    /\ p.phase \in {"away", "closed"} => p.sent = <<>> /\ p.owed = 0
    /\ p.owed <= moves

Single == \A j, k \in 1..Slots : slot[j].subscribed /\ slot[k].subscribed => j = k

ConnInv ==
    /\ TypeOK /\ Linked /\ Accounted /\ Single
    /\ \A c \in Clients : Quiet(peer[c])

-----------------------------------------------------------------------------
(* Connections: counting *)

LEMMA CountType ==
    ASSUME NEW S, NEW s \in Seq(S), NEW F
    PROVE  Count(s, F) \in Nat /\ (s = <<>> => Count(s, F) = 0)
PROOF
<1> DEFINE A == {i \in 1..Len(s) : s[i] \in F}
<1>1. IsFiniteSet(A)
  <2>1. IsFiniteSet(1..Len(s))
    BY FS_Interval
  <2> QED BY <2>1, FS_Subset
<1>2. Cardinality(A) \in Nat
  BY <1>1, FS_CardinalityType
<1>3. s = <<>> => A = {}
  OBVIOUS
<1> QED BY <1>2, <1>3, FS_EmptySet DEF Count

LEMMA CountAppend ==
    ASSUME NEW S, NEW s \in Seq(S), NEW x \in S, NEW F
    PROVE  Count(Append(s, x), F) = IF x \in F THEN Count(s, F) + 1 ELSE Count(s, F)
PROOF
<1> DEFINE t == Append(s, x)
           A == {i \in 1..Len(s) : s[i] \in F}
           B == {i \in 1..Len(t) : t[i] \in F}
           n == Len(s) + 1
<1>1. /\ Len(s) \in Nat /\ Len(t) = n /\ t[n] = x
      /\ \A i \in 1..Len(s) : t[i] = s[i]
  OBVIOUS
<1>2. B = IF x \in F THEN A \cup {n} ELSE A
  <2>1. \A i \in 1..n : i \in 1..Len(s) \/ i = n
    BY <1>1
  <2>2. n \notin 1..Len(s) /\ n \in 1..n /\ \A i \in 1..Len(s) : i \in 1..n
    BY <1>1
  <2> HIDE DEF t, n
  <2> QED BY <1>1, <2>1, <2>2
<1>3. IsFiniteSet(A) /\ n \notin A
  <2>1. IsFiniteSet(1..Len(s))
    BY FS_Interval
  <2> QED BY <1>1, <2>1, FS_Subset
<1>4. Cardinality(A \cup {n}) = Cardinality(A) + 1
  BY <1>3, FS_AddElement
<1> QED BY <1>2, <1>4 DEF Count

LEMMA CountTail ==
    ASSUME NEW S, NEW s \in Seq(S), s # <<>>, NEW F
    PROVE  Count(s, F) = IF Head(s) \in F THEN Count(Tail(s), F) + 1 ELSE Count(Tail(s), F)
PROOF
<1> DEFINE t == Tail(s)
           A == {i \in 1..Len(s) : s[i] \in F}
           B == {i \in 1..Len(t) : t[i] \in F}
           f == [i \in B |-> i + 1]
<1>1. /\ Len(s) \in Nat \ {0} /\ Len(t) = Len(s) - 1 /\ Head(s) = s[1]
      /\ \A i \in 1..Len(t) : t[i] = s[i + 1]
  BY HeadTailProperties
<1> HIDE DEF t
<1>2. IsFiniteSet(A) /\ IsFiniteSet(B)
  <2>1. IsFiniteSet(1..Len(s)) /\ IsFiniteSet(1..Len(t))
    BY <1>1, FS_Interval
  <2> QED BY <2>1, FS_Subset
<1>3. f \in Bijection(B, A \ {1})
  <2>1. \A i \in B : i + 1 \in A \ {1}
    BY <1>1
  <2>2. \A j \in A \ {1} : j - 1 \in B /\ (j - 1) + 1 = j
    BY <1>1
  <2>3. f \in [B -> A \ {1}]
    BY <2>1
  <2>4. \A i, j \in B : f[i] = f[j] => i = j
    BY <1>1
  <2>5. \A j \in A \ {1} : \E i \in B : f[i] = j
    BY <2>2
  <2> HIDE DEF f, A, B
  <2> QED BY <2>3, <2>4, <2>5 DEF Bijection, Injection, Surjection, IsInjective
<1>4. Cardinality(A \ {1}) = Cardinality(B)
  BY <1>2, <1>3, FS_Bijection DEF ExistsBijection
<1>5. 1 \in A <=> Head(s) \in F
  BY <1>1
<1>6. Cardinality(A \ {1}) = IF 1 \in A THEN Cardinality(A) - 1 ELSE Cardinality(A)
  BY <1>2, FS_RemoveElement
<1>7. Cardinality(A) \in Nat /\ Cardinality(B) \in Nat
  BY <1>2, FS_CardinalityType
<1> HIDE DEF A, B
<1>8. Cardinality(A) = IF Head(s) \in F THEN Cardinality(B) + 1 ELSE Cardinality(B)
  BY <1>4, <1>5, <1>6, <1>7
<1> QED BY <1>8 DEF Count, A, B, t

-----------------------------------------------------------------------------
(* Connections: serving one, dropping some *)

LEMMA FreeType ==
    SocketSized => Free \in Connections /\ Len(Free.queue) = 0 /\ Free.client = NoClient
PROOF
<1>1. <<>> \in Seq(Messages) /\ Len(<<>>) = 0
  OBVIOUS
<1> QED BY <1>1 DEF Free, Connections

LEMMA ClosedType ==
    ASSUME SocketSized, NEW p \in Peers
    PROVE  /\ Closed(p) \in Peers /\ Closed(p).phase = "closed"
           /\ Closed(p).sent = <<>> /\ Closed(p).owed = 0
PROOF
<1>1. <<>> \in Seq(Items) /\ 0 \in 0..MaxMoves
  BY DEF SocketSized
<1> QED BY <1>1 DEF Closed, Peers

LEMMA Typed ==
    TypeOK <=> /\ peer \in [Clients -> Peers] /\ slot \in [1..Slots -> Connections]
               /\ \A k \in 1..Slots : Len(slot[k].queue) <= QueueMax
               /\ events \in 0..MaxEvents /\ moves \in 0..MaxMoves
PROOF BY DEF TypeOK, Peers, Connections, Items, Messages

\* A step that leaves each slot empty or to the client it served.
LEMMA SameClients ==
    ASSUME SocketSized, ConnInv,
           slot' \in [1..Slots -> Connections], peer' \in [Clients -> Peers],
           moves' \in 0..MaxMoves, events' \in 0..MaxEvents,
           \A k \in 1..Slots :
              \/ slot'[k] = Free
              \/ /\ slot'[k].client = slot[k].client /\ slot[k].client # NoClient
                 /\ Len(slot'[k].queue) <= QueueMax
                 /\ Even(slot'[k], peer'[slot[k].client]),
           (\A c \in Clients : Quiet(peer[c]))', Single'
    PROVE  ConnInv'
PROOF
<1>1. \A k \in 1..Slots : Len(slot'[k].queue) <= QueueMax
  BY FreeType DEF SocketSized
<1>2. TypeOK'
  BY <1>1 DEF TypeOK, Peers, Connections, Items, Messages
<1>3. Linked'
  BY FreeType DEF ConnInv, Linked
<1>4. Accounted'
  BY FreeType DEF Accounted
<1> QED BY <1>2, <1>3, <1>4 DEF ConnInv

\* What serving one connection leaves: another slot and another client are
\* untouched.
LEMMA ServeKeeps ==
    ASSUME SocketSized, ConnInv, NEW k \in Taken, NEW x \in Connections, NEW p \in Peers,
           x.client = slot[k].client, x.subscribed = slot[k].subscribed,
           Len(x.queue) <= QueueMax, Even(x, p), Quiet(p),
           slot' = [slot EXCEPT ![k] = x], peer' = [peer EXCEPT ![slot[k].client] = p],
           moves' = moves, events' \in 0..MaxEvents
    PROVE  ConnInv'
PROOF
<1> DEFINE c == slot[k].client
<1>1. /\ peer \in [Clients -> Peers] /\ slot \in [1..Slots -> Connections]
      /\ moves \in 0..MaxMoves /\ \A j \in 1..Slots : Len(slot[j].queue) <= QueueMax
  BY Typed DEF ConnInv
<1>2. k \in 1..Slots /\ c # NoClient /\ c \in Clients
  BY <1>1 DEF Taken, Connections
<1>3. slot' \in [1..Slots -> Connections] /\ peer' \in [Clients -> Peers]
  BY <1>1
<1>4. slot'[k] = x /\ peer'[c] = p
  BY <1>1, <1>2
<1>5. ASSUME NEW j \in 1..Slots
      PROVE  \/ slot'[j] = Free
             \/ /\ slot'[j].client = slot[j].client /\ slot[j].client # NoClient
                /\ Len(slot'[j].queue) <= QueueMax
                /\ Even(slot'[j], peer'[slot[j].client])
  <2>1. CASE j = k
    BY <2>1, <1>2, <1>4
  <2>2. CASE j # k
    <3>1. slot'[j] = slot[j]
      BY <1>1, <2>2
    <3>2. CASE slot[j].client = NoClient
      BY <3>1, <3>2 DEF ConnInv, Linked
    <3>3. CASE slot[j].client # NoClient
      <4>1. slot[j].client # c /\ slot[j].client \in Clients
        BY <1>1, <1>2, <2>2, <3>3 DEF ConnInv, Linked, Connections
      <4>2. peer'[slot[j].client] = peer[slot[j].client]
        BY <1>1, <4>1
      <4> QED BY <1>1, <3>1, <3>3, <4>2 DEF ConnInv, Accounted
    <3> QED BY <3>2, <3>3
  <2> QED BY <2>1, <2>2
<1>6. (\A b \in Clients : Quiet(peer[b]))'
  BY <1>1, <1>4 DEF ConnInv, Quiet
<1>7. Single'
  BY <1>1, <1>2 DEF ConnInv, Single
<1> QED BY <1>1, <1>3, <1>5, <1>6, <1>7, SameClients

LEMMA DropKeeps ==
    ASSUME SocketSized, ConnInv, NEW ks \in SUBSET Taken, Drop(ks), moves' = moves,
           events' \in 0..MaxEvents
    PROVE  ConnInv'
PROOF
<1> DEFINE gone == {slot[k].client : k \in ks}
<1>1. /\ peer \in [Clients -> Peers] /\ slot \in [1..Slots -> Connections]
      /\ moves \in 0..MaxMoves /\ \A j \in 1..Slots : Len(slot[j].queue) <= QueueMax
  BY Typed DEF ConnInv
<1>2. /\ \A k \in 1..Slots : slot'[k] = IF k \in ks THEN Free ELSE slot[k]
      /\ \A c \in Clients : peer'[c] = IF c \in gone THEN Closed(peer[c]) ELSE peer[c]
  BY DEF Drop
<1>3. slot' \in [1..Slots -> Connections]
  BY <1>1, FreeType DEF Drop
<1>4. peer' \in [Clients -> Peers]
  BY <1>1, ClosedType DEF Drop
<1>5. ASSUME NEW j \in 1..Slots
      PROVE  \/ slot'[j] = Free
             \/ /\ slot'[j].client = slot[j].client /\ slot[j].client # NoClient
                /\ Len(slot'[j].queue) <= QueueMax
                /\ Even(slot'[j], peer'[slot[j].client])
  <2>1. CASE j \in ks \/ slot[j].client = NoClient
    BY <2>1, <1>2 DEF ConnInv, Linked
  <2>2. CASE j \notin ks /\ slot[j].client # NoClient
    <3>1. slot[j].client \notin gone /\ slot[j].client \in Clients
      BY <1>1, <2>2 DEF ConnInv, Linked, Taken, Connections
    <3> QED BY <1>1, <1>2, <2>2, <3>1 DEF ConnInv, Accounted
  <2> QED BY <2>1, <2>2
<1>6. (\A c \in Clients : Quiet(peer[c]))'
  <2> SUFFICES ASSUME NEW c \in Clients PROVE Quiet(peer[c])'
    OBVIOUS
  <2>1. Quiet(peer[c]) /\ moves \in Nat
    BY <1>1 DEF ConnInv, SocketSized
  <2>2. CASE c \in gone
    BY <1>1, <1>2, <2>1, <2>2, ClosedType DEF Quiet
  <2>3. CASE c \notin gone
    BY <1>2, <2>1, <2>3 DEF Quiet
  <2> QED BY <2>2, <2>3
<1>7. Single'
  BY <1>2 DEF ConnInv, Single, Free
<1> QED BY <1>1, <1>3, <1>4, <1>5, <1>6, <1>7, SameClients

-----------------------------------------------------------------------------
(* Connections: frames and replies *)

\* The head of what the client wrote has been read, and x is left of the slot.
LEMMA ReadKeeps ==
    ASSUME SocketSized, ConnInv, NEW k \in Taken, NEW x \in Connections,
           peer[slot[k].client].sent # <<>>,
           x.client = slot[k].client,
           x.queue = IF Head(peer[slot[k].client].sent) \in Frames
                     THEN Append(slot[k].queue, "reply") ELSE slot[k].queue
    PROVE  LET c == slot[k].client
               p == [peer[c] EXCEPT !.sent = Tail(@)]
           IN  /\ c \in Clients /\ peer[c] \in Peers /\ p \in Peers
               /\ Even(x, p) /\ Quiet(p)
               /\ Consumed(c) = [peer EXCEPT ![c] = p]
PROOF
<1> DEFINE c == slot[k].client
           p == [peer[c] EXCEPT !.sent = Tail(@)]
           h == Head(peer[c].sent)
<1>1. /\ peer \in [Clients -> Peers] /\ slot \in [1..Slots -> Connections]
      /\ moves \in 0..MaxMoves
  BY Typed DEF ConnInv
<1>2. k \in 1..Slots /\ c # NoClient /\ c \in Clients
  BY <1>1 DEF Taken, Connections
<1>3. peer[c] \in Peers /\ peer[c].sent \in Seq(Items) /\ slot[k].queue \in Seq(Messages)
  BY <1>1, <1>2 DEF Peers, Connections
<1>4. Tail(peer[c].sent) \in Seq(Items) /\ h \in Items
  BY <1>3, HeadTailProperties
<1>5. /\ p \in Peers /\ p.phase = peer[c].phase /\ p.owed = peer[c].owed
      /\ p.sent = Tail(peer[c].sent)
  BY <1>3, <1>4 DEF Peers
<1>6. Even(slot[k], peer[c]) /\ Quiet(peer[c])
  BY <1>2 DEF ConnInv, Accounted
<1>7. Count(p.sent, Frames) + Count(x.queue, {"reply"})
          = Count(peer[c].sent, Frames) + Count(slot[k].queue, {"reply"})
  <2>1. Count(peer[c].sent, Frames)
            = IF h \in Frames THEN Count(Tail(peer[c].sent), Frames) + 1
              ELSE Count(Tail(peer[c].sent), Frames)
    BY <1>3, CountTail
  <2>2. "reply" \in Messages /\ "reply" \in {"reply"}
    BY DEF Messages
  <2>3. Count(Append(slot[k].queue, "reply"), {"reply"}) = Count(slot[k].queue, {"reply"}) + 1
    BY <1>3, <2>2, CountAppend
  <2>4. /\ Count(Tail(peer[c].sent), Frames) \in Nat
        /\ Count(slot[k].queue, {"reply"}) \in Nat
    BY <1>3, <1>4, CountType
  <2> HIDE DEF c, p, h
  <2>5. CASE h \in Frames
    <3>1. x.queue = Append(slot[k].queue, "reply")
      BY <2>5 DEF h, c
    <3> QED BY <1>5, <2>1, <2>3, <2>4, <2>5, <3>1
  <2>6. CASE h \notin Frames
    <3>1. x.queue = slot[k].queue
      BY <2>6 DEF h, c
    <3> QED BY <1>5, <2>1, <2>4, <2>6, <3>1
  <2> QED BY <2>5, <2>6
<1>8. Even(x, p)
  <2> HIDE DEF c, p, h
  <2> QED BY <1>5, <1>6, <1>7 DEF Even
<1>9. Quiet(p)
  <2>1. peer[c].phase \notin {"away", "closed"}
    BY <1>6 DEF Even
  <2> QED BY <1>5, <1>6, <2>1 DEF Quiet
<1>10. Consumed(c) = [peer EXCEPT ![c] = p]
  BY DEF Consumed
<1> QED BY <1>2, <1>3, <1>5, <1>8, <1>9, <1>10

\* What is left of a connection whose head was a frame, and of one whose head
\* is the beginning of a frame.
LEMMA AnsweredType ==
    ASSUME SocketSized, ConnInv, NEW k \in Taken, NEW on \in BOOLEAN, NEW off \in BOOLEAN,
           Len(slot[k].queue) # QueueMax
    PROVE  LET x == [Complete(k) EXCEPT !.queue = Append(@, "reply"), !.closing = on,
                                        !.subscribed = off]
           IN  /\ x \in Connections /\ x.client = slot[k].client
               /\ x.queue = Append(slot[k].queue, "reply") /\ Len(x.queue) <= QueueMax
               /\ x.subscribed = off
PROOF
<1>1. /\ slot \in [1..Slots -> Connections] /\ k \in 1..Slots
      /\ Len(slot[k].queue) <= QueueMax
  BY Typed DEF ConnInv, Taken
<1>2. slot[k] \in Connections /\ slot[k].queue \in Seq(Messages)
  BY <1>1 DEF Connections
<1>3. /\ Append(slot[k].queue, "reply") \in Seq(Messages)
      /\ Len(Append(slot[k].queue, "reply")) = Len(slot[k].queue) + 1
      /\ Len(slot[k].queue) \in Nat
  BY <1>2 DEF Messages
<1>4. Len(slot[k].queue) + 1 <= QueueMax
  BY <1>1, <1>3 DEF SocketSized
<1> QED BY <1>2, <1>3, <1>4 DEF Complete, Connections

LEMMA ReplyKeeps ==
    ASSUME SocketSized, ConnInv, NEW k \in Taken, NEW closing \in BOOLEAN, Reply(k, closing),
           peer[slot[k].client].sent # <<>>, Head(peer[slot[k].client].sent) \in Frames,
           moves' = moves, events' = events
    PROVE  ConnInv'
PROOF
<1>1. /\ slot \in [1..Slots -> Connections] /\ k \in 1..Slots /\ events' \in 0..MaxEvents
  BY Typed DEF ConnInv, Taken
<1>2. CASE Len(slot[k].queue) = QueueMax
  <2>1. Drop({k})
    BY <1>2 DEF Reply
  <2> QED BY <1>1, <2>1, DropKeeps
<1>3. CASE Len(slot[k].queue) # QueueMax
  <2> DEFINE on == slot[k].closing \/ closing
             off == slot[k].subscribed
             x == [Complete(k) EXCEPT !.queue = Append(@, "reply"), !.closing = on,
                                      !.subscribed = off]
             p == [peer[slot[k].client] EXCEPT !.sent = Tail(@)]
  <2>1. on \in BOOLEAN /\ off \in BOOLEAN
    BY <1>1 DEF Connections
  <2>2. /\ x \in Connections /\ x.client = slot[k].client
        /\ x.queue = Append(slot[k].queue, "reply") /\ Len(x.queue) <= QueueMax
        /\ x.subscribed = slot[k].subscribed
    BY <1>3, <2>1, AnsweredType
  <2>3. x = [Complete(k) EXCEPT !.queue = Append(@, "reply"), !.closing = @ \/ closing]
    BY <1>1 DEF Complete, Connections
  <2>4. slot' = [slot EXCEPT ![k] = x]
    BY <1>3, <2>3 DEF Reply
  <2> HIDE DEF x
  <2>5. p \in Peers /\ Even(x, p) /\ Quiet(p) /\ peer' = [peer EXCEPT ![slot[k].client] = p]
    BY <1>3, <2>2, ReadKeeps DEF Reply
  <2> HIDE DEF p
  <2> QED BY <1>1, <2>2, <2>4, <2>5, ServeKeeps
<1> QED BY <1>2, <1>3

LEMMA HalfKeeps ==
    ASSUME SocketSized, ConnInv, NEW k \in Taken,
           peer[slot[k].client].sent # <<>>, Head(peer[slot[k].client].sent) = "half",
           slot' = [slot EXCEPT ![k].partial = TRUE], peer' = Consumed(slot[k].client),
           moves' = moves, events' = events
    PROVE  ConnInv'
PROOF
<1>1. /\ slot \in [1..Slots -> Connections] /\ k \in 1..Slots /\ events' \in 0..MaxEvents
      /\ Len(slot[k].queue) <= QueueMax
  BY Typed DEF ConnInv, Taken
<1> DEFINE x == [slot[k] EXCEPT !.partial = TRUE]
           p == [peer[slot[k].client] EXCEPT !.sent = Tail(@)]
<1>2. /\ x \in Connections /\ x.client = slot[k].client /\ x.queue = slot[k].queue
      /\ x.subscribed = slot[k].subscribed /\ slot' = [slot EXCEPT ![k] = x]
  BY <1>1 DEF Connections
<1> HIDE DEF x
<1>3. p \in Peers /\ Even(x, p) /\ Quiet(p) /\ peer' = [peer EXCEPT ![slot[k].client] = p]
  <2>1. "half" \notin Frames
    BY DEF Frames
  <2> QED BY <1>2, <2>1, ReadKeeps
<1> HIDE DEF p
<1> QED BY <1>1, <1>2, <1>3, ServeKeeps

\* The registration moves: the older connection is closed and this one keeps
\* the service.
LEMMA SubscribeKeeps ==
    ASSUME SocketSized, ConnInv, NEW k \in Taken, Subscribe(k),
           peer[slot[k].client].sent # <<>>, Head(peer[slot[k].client].sent) \in Frames,
           moves' = moves, events' = events
    PROVE  ConnInv'
PROOF
<1> DEFINE older == {j \in 1..Slots \ {k} : slot[j].subscribed}
           c == slot[k].client
           x == [Complete(k) EXCEPT !.queue = Append(@, "reply"), !.closing = slot[k].closing,
                                    !.subscribed = TRUE]
           p == [peer[c] EXCEPT !.sent = Tail(@)]
           gone == {slot[j].client : j \in older}
<1>1. /\ peer \in [Clients -> Peers] /\ slot \in [1..Slots -> Connections]
      /\ moves \in 0..MaxMoves /\ \A j \in 1..Slots : Len(slot[j].queue) <= QueueMax
      /\ events \in 0..MaxEvents /\ k \in 1..Slots
  BY Typed DEF ConnInv, Taken
<1>2. CASE Len(slot[k].queue) = QueueMax
  <2>1. Drop({k})
    BY <1>2 DEF Subscribe
  <2> QED BY <1>1, <2>1, DropKeeps
<1>3. CASE Len(slot[k].queue) # QueueMax
  <2>1. slot[k].closing \in BOOLEAN /\ TRUE \in BOOLEAN
    BY <1>1 DEF Connections
  <2>2. /\ x \in Connections /\ x.client = c
        /\ x.queue = Append(slot[k].queue, "reply") /\ Len(x.queue) <= QueueMax
        /\ x.subscribed = TRUE
    BY <1>3, <2>1, AnsweredType
  <2>3. x = [Complete(k) EXCEPT !.queue = Append(@, "reply"), !.subscribed = TRUE]
    BY <1>1 DEF Complete, Connections
  <2>4. slot' = [j \in 1..Slots |-> IF j \in older THEN Free ELSE IF j = k THEN x ELSE slot[j]]
    BY <1>3, <2>3 DEF Subscribe
  <2> HIDE DEF x
  <2>5. c \in Clients /\ p \in Peers /\ Even(x, p) /\ Quiet(p)
    BY <2>2, ReadKeeps
  <2>6. peer' = [b \in Clients |->
                    IF b = c THEN p ELSE IF b \in gone THEN Closed(peer[b]) ELSE peer[b]]
    BY <1>3 DEF Subscribe
  <2> HIDE DEF p
  <2>7. slot' \in [1..Slots -> Connections]
    BY <1>1, <2>2, <2>4, FreeType
  <2>8. peer' \in [Clients -> Peers]
    BY <1>1, <2>5, <2>6, ClosedType
  <2>9. ASSUME NEW j \in 1..Slots
        PROVE  \/ slot'[j] = Free
               \/ /\ slot'[j].client = slot[j].client /\ slot[j].client # NoClient
                  /\ Len(slot'[j].queue) <= QueueMax
                  /\ Even(slot'[j], peer'[slot[j].client])
    <3>1. CASE j = k
      <4>1. slot'[j] = x /\ c # NoClient /\ peer'[c] = p
        BY <2>4, <2>5, <2>6, <3>1 DEF Taken
      <4> QED BY <2>2, <2>5, <3>1, <4>1
    <3>2. CASE j # k /\ (j \in older \/ slot[j].client = NoClient)
      BY <2>4, <3>2 DEF ConnInv, Linked
    <3>3. CASE j # k /\ j \notin older /\ slot[j].client # NoClient
      <4>1. slot[j].client \notin gone /\ slot[j].client # c /\ slot[j].client \in Clients
        BY <1>1, <3>3 DEF ConnInv, Linked, Connections
      <4>2. slot'[j] = slot[j] /\ peer'[slot[j].client] = peer[slot[j].client]
        BY <2>4, <2>6, <3>3, <4>1
      <4> QED BY <1>1, <3>3, <4>2 DEF ConnInv, Accounted
    <3> QED BY <3>1, <3>2, <3>3
  <2>10. (\A b \in Clients : Quiet(peer[b]))'
    <3> SUFFICES ASSUME NEW b \in Clients PROVE Quiet(peer[b])'
      OBVIOUS
    <3>1. Quiet(peer[b]) /\ moves \in Nat
      BY <1>1 DEF ConnInv, SocketSized
    <3>2. CASE b = c
      BY <2>5, <2>6, <3>2 DEF Quiet
    <3>3. CASE b # c /\ b \in gone
      BY <1>1, <2>6, <3>1, <3>3, ClosedType DEF Quiet
    <3>4. CASE b # c /\ b \notin gone
      BY <2>6, <3>1, <3>4 DEF Quiet
    <3> QED BY <3>2, <3>3, <3>4
  <2>11. Single'
    <3>1. \A j \in 1..Slots : slot'[j].subscribed => j = k
      BY <2>4 DEF Free
    <3> QED BY <3>1 DEF Single
  <2> QED BY <1>1, <2>7, <2>8, <2>9, <2>10, <2>11, SameClients
<1> QED BY <1>2, <1>3

LEMMA OneShotKeeps ==
    ASSUME SocketSized, ConnInv, NEW k \in Taken, OneShot(k), moves' = moves, events' = events
    PROVE  ConnInv'
PROOF
<1>1. k \in 1..Slots /\ events' \in 0..MaxEvents /\ peer \in [Clients -> Peers]
      /\ slot \in [1..Slots -> Connections]
  BY Typed DEF ConnInv, Taken
<1>2. Drop({k})
  BY <1>1 DEF OneShot, Drop
<1> QED BY <1>1, <1>2, DropKeeps

-----------------------------------------------------------------------------
(* Connections: the tick *)

LEMMA ReceiveKeeps ==
    ASSUME SocketSized, ConnInv, NEW k \in 1..Slots, Receive(k)
    PROVE  ConnInv'
PROOF
<1> DEFINE c == slot[k].client
           item == Head(peer[c].sent)
<1>1. k \in Taken /\ moves' = moves /\ events' = events /\ events' \in 0..MaxEvents
  BY Typed DEF Receive, ConnInv
<1>2. CASE Drop({k})
  BY <1>1, <1>2, DropKeeps
<1>3. CASE /\ peer[c].sent # <<>> /\ item = "half"
           /\ slot' = [slot EXCEPT ![k].partial = TRUE] /\ peer' = Consumed(c)
  BY <1>1, <1>3, HalfKeeps
<1>4. CASE peer[c].sent # <<>> /\ HandleFrame(k, item)
  <2>1. item \in Frames
    BY <1>4 DEF HandleFrame, Frames
  <2>2. CASE Reply(k, TRUE)
    BY <1>1, <1>4, <2>1, <2>2, ReplyKeeps
  <2>3. CASE Reply(k, FALSE)
    BY <1>1, <1>4, <2>1, <2>3, ReplyKeeps
  <2>4. CASE Subscribe(k)
    BY <1>1, <1>4, <2>1, <2>4, SubscribeKeeps
  <2>5. CASE OneShot(k)
    BY <1>1, <2>5, OneShotKeeps
  <2> QED BY <1>2, <1>4, <2>2, <2>3, <2>4, <2>5 DEF HandleFrame
<1> QED BY <1>2, <1>3, <1>4 DEF Receive

\* The replies that are written come off what the client is owed.
LEMMA FlushKeeps ==
    ASSUME SocketSized, ConnInv, NEW k \in 1..Slots, Flush(k)
    PROVE  ConnInv'
PROOF
<1> DEFINE c == slot[k].client
           flushed == slot[k].queue = <<>> \/ peer[c].reads
           replies == Cardinality({i \in DOMAIN slot[k].queue : slot[k].queue[i] = "reply"})
<1>1. k \in Taken /\ moves' = moves /\ events' = events /\ events' \in 0..MaxEvents
  BY Typed DEF Flush, ConnInv
<1>2. CASE Drop({k})
  BY <1>1, <1>2, DropKeeps
<1>3. CASE /\ peer[c].phase = "open" /\ slot' = [slot EXCEPT ![k].queue = <<>>]
           /\ peer' = [peer EXCEPT ![c].owed = @ - replies]
  <2>1. /\ peer \in [Clients -> Peers] /\ slot \in [1..Slots -> Connections]
        /\ c \in Clients /\ slot[k] \in Connections /\ peer[c] \in Peers
        /\ slot[k].queue \in Seq(Messages) /\ peer[c].sent \in Seq(Items)
        /\ peer[c].owed \in 0..MaxMoves /\ moves \in Nat
    BY <1>1, Typed DEF ConnInv, Taken, Connections, Peers, SocketSized
  <2>2. replies = Count(slot[k].queue, {"reply"})
    <3>1. DOMAIN slot[k].queue = 1..Len(slot[k].queue)
      BY <2>1
    <3>2. {i \in DOMAIN slot[k].queue : slot[k].queue[i] = "reply"}
              = {i \in 1..Len(slot[k].queue) : slot[k].queue[i] \in {"reply"}}
      BY <3>1
    <3> QED BY <3>2 DEF Count
  <2> DEFINE none == <<>>
             x == [slot[k] EXCEPT !.queue = none]
             p == [peer[c] EXCEPT !.owed = @ - replies]
             u == Count(peer[c].sent, Frames)
  <2>3. none = <<>> /\ none \in Seq(Messages) /\ Len(none) = 0 /\ 0 <= QueueMax
    BY DEF SocketSized
  <2>4. /\ x \in Connections /\ x.client = c /\ x.subscribed = slot[k].subscribed
        /\ x.queue = <<>> /\ Len(x.queue) <= QueueMax /\ slot' = [slot EXCEPT ![k] = x]
    <3>1. slot' = [slot EXCEPT ![k] = x]
      BY <1>3, <2>1
    <3> HIDE DEF none
    <3>2. /\ x \in Connections /\ x.client = c /\ x.subscribed = slot[k].subscribed
          /\ x.queue = none
      BY <2>1, <2>3 DEF Connections
    <3> QED BY <2>3, <3>1, <3>2
  <2>5. /\ u \in Nat /\ replies \in Nat /\ Count(x.queue, {"reply"}) = 0
        /\ peer[c].owed = u + replies
    <3>1. u \in Nat /\ replies \in Nat /\ Count(x.queue, {"reply"}) = 0
      BY <2>1, <2>2, <2>3, <2>4, CountType
    <3>2. Even(slot[k], peer[c])
      BY <1>1 DEF ConnInv, Accounted, Taken
    <3> QED BY <1>3, <2>2, <3>1, <3>2 DEF Even
  <2> HIDE DEF x, replies, u
  <2>6. peer[c].owed - replies = u /\ u <= peer[c].owed /\ u \in 0..MaxMoves
    BY <2>1, <2>5 DEF SocketSized
  <2>7. /\ p \in Peers /\ p.phase = "open" /\ p.owed = u /\ p.sent = peer[c].sent
        /\ peer' = [peer EXCEPT ![c] = p]
    BY <1>3, <2>1, <2>6 DEF Peers
  <2> HIDE DEF p
  <2>8. Even(x, p)
    BY <2>5, <2>7 DEF Even, u
  <2>9. Quiet(p)
    <3>1. peer[c].owed <= moves
      BY <2>1 DEF ConnInv, Quiet
    <3> QED BY <2>1, <2>5, <2>6, <2>7, <3>1 DEF Quiet
  <2> QED BY <1>1, <2>4, <2>7, <2>8, <2>9, ServeKeeps
<1> QED BY <1>2, <1>3 DEF Flush

LEMMA BroadcastKeeps ==
    ASSUME SocketSized, ConnInv, NEW k \in 1..Slots, Broadcast(k)
    PROVE  ConnInv'
PROOF
<1>1. /\ peer \in [Clients -> Peers] /\ slot \in [1..Slots -> Connections]
      /\ Len(slot[k].queue) <= QueueMax /\ events \in 0..MaxEvents
  BY Typed DEF ConnInv
<1>2. k \in Taken
  BY DEF Broadcast, ConnInv, Linked, Taken, Free
<1>3. moves' = moves /\ events' \in 0..MaxEvents
  BY <1>1 DEF Broadcast, SocketSized
<1>4. CASE Drop({k})
  BY <1>2, <1>3, <1>4, DropKeeps
<1>5. CASE /\ Len(slot[k].queue) # QueueMax
           /\ slot' = [slot EXCEPT ![k].queue = Append(@, "event")] /\ UNCHANGED peer
  <2> DEFINE c == slot[k].client
             x == [slot[k] EXCEPT !.queue = Append(@, "event")]
  <2>1. /\ c \in Clients /\ slot[k] \in Connections /\ peer[c] \in Peers
        /\ slot[k].queue \in Seq(Messages) /\ "event" \in Messages
    BY <1>1, <1>2 DEF Taken, Connections, Messages
  <2>2. /\ Append(slot[k].queue, "event") \in Seq(Messages)
        /\ Len(Append(slot[k].queue, "event")) = Len(slot[k].queue) + 1
        /\ Len(slot[k].queue) \in Nat
    BY <2>1
  <2>3. /\ x \in Connections /\ x.client = c /\ x.subscribed = slot[k].subscribed
        /\ x.queue = Append(slot[k].queue, "event") /\ slot' = [slot EXCEPT ![k] = x]
    BY <1>1, <1>5, <2>1, <2>2 DEF Connections
  <2>4. Len(x.queue) <= QueueMax
    BY <1>1, <1>5, <2>2, <2>3 DEF SocketSized
  <2> HIDE DEF x
  <2>5. Even(x, peer[c])
    <3>1. "event" \notin {"reply"}
      OBVIOUS
    <3>2. Count(x.queue, {"reply"}) = Count(slot[k].queue, {"reply"})
      BY <2>1, <2>3, <3>1, CountAppend
    <3>3. Even(slot[k], peer[c])
      BY <1>2 DEF ConnInv, Accounted, Taken
    <3> QED BY <3>2, <3>3 DEF Even
  <2>6. Quiet(peer[c]) /\ peer' = [peer EXCEPT ![c] = peer[c]]
    BY <1>1, <1>5, <2>1 DEF ConnInv
  <2> QED BY <1>2, <1>3, <2>1, <2>3, <2>4, <2>5, <2>6, ServeKeeps
<1> QED BY <1>4, <1>5 DEF Broadcast

LEMMA ElapseKeeps ==
    ASSUME SocketSized, ConnInv, NEW k \in 1..Slots, Elapse(k)
    PROVE  ConnInv'
PROOF
<1> DEFINE c == slot[k].client
           x == [slot[k] EXCEPT !.late = TRUE]
<1>1. /\ peer \in [Clients -> Peers] /\ slot \in [1..Slots -> Connections]
      /\ Len(slot[k].queue) <= QueueMax /\ events \in 0..MaxEvents
  BY Typed DEF ConnInv
<1>2. k \in Taken
  BY DEF Elapse, ConnInv, Linked, Taken, Free
<1>3. c \in Clients /\ peer[c] \in Peers /\ Quiet(peer[c])
  BY <1>1, <1>2 DEF Taken, Connections, ConnInv
<1>4. /\ x \in Connections /\ x.client = c /\ x.queue = slot[k].queue
      /\ x.subscribed = slot[k].subscribed /\ slot' = [slot EXCEPT ![k] = x]
  BY <1>1 DEF Connections, Elapse
<1> HIDE DEF x
<1>5. Even(x, peer[c])
  BY <1>2, <1>4 DEF Even, ConnInv, Accounted, Taken
<1>6. peer' = [peer EXCEPT ![c] = peer[c]] /\ moves' = moves /\ events' \in 0..MaxEvents
  BY <1>1, <1>3 DEF Elapse
<1> QED BY <1>1, <1>2, <1>3, <1>4, <1>5, <1>6, ServeKeeps

\* No slot serves a client that is not connected.
LEMMA AcceptKeeps ==
    ASSUME SocketSized, ConnInv, NEW c \in Clients, Accept(c)
    PROVE  ConnInv'
PROOF
<1>1. /\ peer \in [Clients -> Peers] /\ slot \in [1..Slots -> Connections]
      /\ moves \in 0..MaxMoves /\ \A j \in 1..Slots : Len(slot[j].queue) <= QueueMax
      /\ events \in 0..MaxEvents
  BY Typed DEF ConnInv
<1>2. peer[c].phase = "away" /\ moves' = moves /\ events' = events
  BY DEF Accept
<1>3. /\ c # NoClient /\ peer[c] \in Peers
      /\ peer[c].sent = <<>> /\ peer[c].owed = 0 /\ moves \in Nat
  <2>1. Quiet(peer[c])
    BY DEF ConnInv
  <2> QED BY <1>1, <1>2, <2>1 DEF Quiet, Clients, NoClient, SocketSized
<1>4. \A j \in 1..Slots : slot[j].client # c
  BY <1>2, <1>3 DEF ConnInv, Accounted, Even
<1>5. CASE peer' = [peer EXCEPT ![c] = Closed(@)] /\ UNCHANGED slot
  <2>1. /\ peer' \in [Clients -> Peers] /\ peer'[c] = Closed(peer[c])
        /\ \A b \in Clients \ {c} : peer'[b] = peer[b]
    BY <1>1, <1>3, <1>5, ClosedType
  <2>2. ASSUME NEW j \in 1..Slots
        PROVE  \/ slot'[j] = Free
               \/ /\ slot'[j].client = slot[j].client /\ slot[j].client # NoClient
                  /\ Len(slot'[j].queue) <= QueueMax
                  /\ Even(slot'[j], peer'[slot[j].client])
    <3>1. slot[j].client # NoClient => slot[j].client \in Clients \ {c}
      BY <1>1, <1>4 DEF Connections
    <3> QED BY <1>1, <1>5, <2>1, <3>1 DEF ConnInv, Linked, Accounted
  <2>3. (\A b \in Clients : Quiet(peer[b]))'
    <3>1. peer'[c].sent = <<>> /\ peer'[c].owed = 0
      BY <1>3, <2>1, ClosedType
    <3>2. Quiet(peer[c])'
      BY <1>2, <1>3, <3>1 DEF Quiet
    <3>3. \A b \in Clients \ {c} : Quiet(peer[b])'
      BY <1>2, <2>1 DEF ConnInv, Quiet
    <3> QED BY <3>2, <3>3
  <2>4. Single'
    BY <1>5 DEF ConnInv, Single
  <2> QED BY <1>1, <1>2, <1>5, <2>1, <2>2, <2>3, <2>4, SameClients
<1>6. ASSUME NEW k \in 1..Slots \ Taken,
             slot' = [slot EXCEPT ![k].client = c], peer' = [peer EXCEPT ![c].phase = "open"]
      PROVE  ConnInv'
  <2> DEFINE x == [Free EXCEPT !.client = c]
             p == [peer[c] EXCEPT !.phase = "open"]
  <2>1. slot[k] = Free /\ k \in 1..Slots
    BY DEF Taken, ConnInv, Linked
  <2>2. /\ x \in Connections /\ x.client = c /\ x.queue = <<>> /\ ~x.subscribed
        /\ Len(x.queue) = 0
    BY FreeType DEF Free, Connections
  <2>3. /\ p \in Peers /\ p.phase = "open" /\ p.sent = <<>> /\ p.owed = 0
    BY <1>3 DEF Peers
  <2>4. /\ slot' = [slot EXCEPT ![k] = x] /\ peer' = [peer EXCEPT ![c] = p]
    BY <1>1, <1>6, <2>1
  <2> HIDE DEF x, p
  <2>5. /\ slot' \in [1..Slots -> Connections] /\ slot'[k] = x
        /\ \A j \in 1..Slots \ {k} : slot'[j] = slot[j]
    BY <1>1, <2>1, <2>2, <2>4
  <2>6. /\ peer' \in [Clients -> Peers] /\ peer'[c] = p
        /\ \A b \in Clients \ {c} : peer'[b] = peer[b]
    BY <1>1, <2>3, <2>4
  <2>7. TypeOK'
    <3>1. \A j \in 1..Slots : Len(slot'[j].queue) <= QueueMax
      BY <1>1, <2>2, <2>5 DEF SocketSized
    <3> QED BY <1>1, <1>2, <2>5, <2>6, <3>1 DEF TypeOK, Peers, Connections, Items, Messages
  <2>8. Linked'
    BY <1>3, <1>4, <2>2, <2>5 DEF ConnInv, Linked
  <2>9. Accounted'
    <3>1. Even(x, p)
      <4>1. Count(<<>>, Frames) = 0 /\ Count(<<>>, {"reply"}) = 0
        <5>1. <<>> \in Seq(Items)
          OBVIOUS
        <5> QED BY <5>1, CountType
      <4> QED BY <2>2, <2>3, <4>1 DEF Even
    <3>2. ASSUME NEW j \in 1..Slots, slot'[j].client # NoClient
          PROVE  Even(slot'[j], peer'[slot'[j].client])
      <4>1. CASE j = k
        BY <2>2, <2>5, <2>6, <3>1, <4>1
      <4>2. CASE j # k
        <5>1. slot'[j] = slot[j] /\ slot[j].client \in Clients \ {c}
          BY <1>1, <1>4, <2>5, <3>2, <4>2 DEF Connections
        <5> QED BY <2>6, <3>2, <5>1 DEF ConnInv, Accounted
      <4> QED BY <4>1, <4>2
    <3> QED BY <3>2 DEF Accounted
  <2>10. Single'
    BY <2>2, <2>5 DEF ConnInv, Single
  <2>11. (\A b \in Clients : Quiet(peer[b]))'
    <3>1. Quiet(peer[c])'
      BY <1>2, <1>3, <2>3, <2>6 DEF Quiet
    <3>2. \A b \in Clients \ {c} : Quiet(peer[b])'
      BY <1>2, <2>6 DEF ConnInv, Quiet
    <3> QED BY <3>1, <3>2
  <2> QED BY <2>7, <2>8, <2>9, <2>10, <2>11 DEF ConnInv
<1> QED BY <1>5, <1>6 DEF Accept

-----------------------------------------------------------------------------
(* Connections: what clients do *)

\* A move of the client c, whose connection stays as even as it was.
LEMMA MoveKeeps ==
    ASSUME SocketSized, ConnInv, NEW c \in Clients, NEW p \in Peers, Client(c, p),
           \A x \in Connections : Even(x, peer[c]) => Even(x, p),
           p.phase \in {"open", "gone"}, p.owed <= moves + 1
    PROVE  ConnInv'
PROOF
<1>1. /\ peer \in [Clients -> Peers] /\ slot \in [1..Slots -> Connections]
      /\ moves \in 0..MaxMoves /\ \A j \in 1..Slots : Len(slot[j].queue) <= QueueMax
      /\ events \in 0..MaxEvents
  BY Typed DEF ConnInv
<1>2. /\ moves' = moves + 1 /\ moves' \in 0..MaxMoves /\ events' = events /\ slot' = slot
  BY <1>1 DEF Client, SocketSized
<1>3. /\ peer' \in [Clients -> Peers] /\ peer'[c] = p
      /\ \A b \in Clients \ {c} : peer'[b] = peer[b]
  BY <1>1 DEF Client
<1>4. ASSUME NEW j \in 1..Slots
      PROVE  \/ slot'[j] = Free
             \/ /\ slot'[j].client = slot[j].client /\ slot[j].client # NoClient
                /\ Len(slot'[j].queue) <= QueueMax
                /\ Even(slot'[j], peer'[slot[j].client])
  <2>1. CASE slot[j].client = NoClient
    BY <1>2, <2>1 DEF ConnInv, Linked
  <2>2. CASE slot[j].client # NoClient
    <3>1. Even(slot[j], peer[slot[j].client]) /\ slot[j] \in Connections
      BY <1>1, <2>2 DEF ConnInv, Accounted
    <3>2. slot[j].client \in Clients
      BY <2>2, <3>1 DEF Connections
    <3>3. Even(slot[j], peer'[slot[j].client])
      BY <1>3, <3>1, <3>2
    <3> QED BY <1>1, <1>2, <2>2, <3>3
  <2> QED BY <2>1, <2>2
<1>5. (\A b \in Clients : Quiet(peer[b]))'
  <2>1. Quiet(peer[c])'
    BY <1>2, <1>3 DEF Quiet
  <2>2. \A b \in Clients \ {c} : Quiet(peer[b])'
    <3> SUFFICES ASSUME NEW b \in Clients \ {c} PROVE Quiet(peer[b])'
      OBVIOUS
    <3>1. Quiet(peer[b]) /\ peer[b].owed \in Nat /\ moves \in Nat
      BY <1>1 DEF ConnInv, Peers, SocketSized
    <3> QED BY <1>2, <1>3, <3>1 DEF Quiet
  <2> QED BY <2>1, <2>2
<1>6. Single'
  BY <1>2 DEF ConnInv, Single
<1> QED BY <1>1, <1>2, <1>3, <1>4, <1>5, <1>6, SameClients

LEMMA WriteKeeps ==
    ASSUME SocketSized, ConnInv, NEW c \in Clients, NEW item \in Items, Write(c, item)
    PROVE  ConnInv'
PROOF
<1> DEFINE sent == Append(peer[c].sent, item)
           owed == IF item \in Frames THEN peer[c].owed + 1 ELSE peer[c].owed
           p == [peer[c] EXCEPT !.sent = sent, !.owed = owed]
<1>1. /\ peer[c] \in Peers /\ peer[c].phase = "open" /\ peer[c].sent \in Seq(Items)
      /\ peer[c].owed \in 0..MaxMoves /\ moves \in 0..MaxMoves /\ moves < MaxMoves
      /\ peer[c].owed <= moves
  BY Typed DEF ConnInv, Quiet, Write, Client, Peers
<1>2. sent \in Seq(Items) /\ owed \in 0..MaxMoves /\ owed <= moves + 1
  BY <1>1 DEF SocketSized
<1>3. Client(c, p)
  BY DEF Write
<1> HIDE DEF sent, owed
<1>4. p \in Peers /\ p.phase = "open" /\ p.sent = sent /\ p.owed = owed
  BY <1>1, <1>2 DEF Peers
<1> HIDE DEF p
<1>5. ASSUME NEW x \in Connections, Even(x, peer[c]) PROVE Even(x, p)
  <2> DEFINE u == Count(peer[c].sent, Frames)
             v == Count(sent, Frames)
             r == Count(x.queue, {"reply"})
  <2>1. u \in Nat /\ r \in Nat
    BY <1>1, CountType DEF Connections
  <2>2. v = IF item \in Frames THEN u + 1 ELSE u
    BY <1>1, CountAppend DEF sent
  <2>3. peer[c].owed = u + r
    BY <1>1, <1>5 DEF Even
  <2> HIDE DEF u, v, r
  <2>4. owed = v + r
    BY <2>1, <2>2, <2>3 DEF owed
  <2> QED BY <1>4, <2>4 DEF Even, v, r
<1> QED BY <1>2, <1>3, <1>4, <1>5, MoveKeeps

LEMMA LeaveKeeps ==
    ASSUME SocketSized, ConnInv, NEW c \in Clients, StopReading(c) \/ HangUp(c)
    PROVE  ConnInv'
PROOF
<1>1. /\ peer[c] \in Peers /\ peer[c].phase = "open" /\ peer[c].owed \in Nat
      /\ peer[c].owed <= moves /\ moves \in Nat
  BY Typed DEF ConnInv, Quiet, StopReading, HangUp, Peers, SocketSized
<1>2. CASE StopReading(c)
  <2> DEFINE p == [peer[c] EXCEPT !.reads = FALSE]
  <2>1. /\ p \in Peers /\ p.phase = "open" /\ p.owed = peer[c].owed
        /\ p.sent = peer[c].sent /\ Client(c, p)
    BY <1>1, <1>2 DEF StopReading, Peers
  <2> HIDE DEF p
  <2>2. \A x \in Connections : Even(x, peer[c]) => Even(x, p)
    BY <1>1, <2>1 DEF Even
  <2> QED BY <1>1, <2>1, <2>2, MoveKeeps
<1>3. CASE HangUp(c)
  <2> DEFINE p == [peer[c] EXCEPT !.phase = "gone", !.owed = 0]
  <2>1. p \in Peers /\ p.phase = "gone" /\ p.owed = 0 /\ Client(c, p)
    <3>1. 0 \in 0..MaxMoves
      BY DEF SocketSized
    <3>2. p \in Peers /\ p.phase = "gone" /\ p.owed = 0
      BY <1>1, <3>1 DEF Peers
    <3> QED BY <1>3, <3>2 DEF HangUp
  <2> HIDE DEF p
  <2>2. \A x \in Connections : Even(x, p)
    BY <2>1 DEF Even
  <2> QED BY <1>1, <2>1, <2>2, MoveKeeps
<1> QED BY <1>2, <1>3

-----------------------------------------------------------------------------
(* Connections: theorems *)

LEMMA InitConnections == SocketSized /\ Init => ConnInv
PROOF
<1> SUFFICES ASSUME SocketSized, Init PROVE ConnInv
  OBVIOUS
<1>1. \A k \in 1..Slots : slot[k] = Free
  BY DEF Init
<1>2. \A c \in Clients : peer[c].sent = <<>> /\ peer[c].owed = 0
  BY DEF Init
<1>3. TypeOK
  <2>1. <<>> \in Seq(Items) /\ 0 \in 0..MaxMoves /\ 0 \in 0..MaxEvents
    BY DEF SocketSized
  <2>2. peer \in [Clients -> Peers]
    BY <2>1 DEF Init, Peers
  <2>3. slot \in [1..Slots -> Connections]
    BY FreeType DEF Init
  <2>4. \A k \in 1..Slots : Len(slot[k].queue) <= QueueMax
    BY <1>1, FreeType DEF SocketSized
  <2> QED BY <2>1, <2>2, <2>3, <2>4, Typed DEF Init
<1>4. Linked /\ Accounted /\ Single
  <2>1. Free.client = NoClient /\ ~Free.subscribed
    BY FreeType DEF Free
  <2> QED BY <1>1, <2>1 DEF Linked, Accounted, Single
<1>5. \A c \in Clients : Quiet(peer[c])
  BY <1>2 DEF Init, Quiet, SocketSized
<1> QED BY <1>3, <1>4, <1>5 DEF ConnInv

LEMMA NextConnections == SocketSized /\ ConnInv /\ [Next]_ipcVars => ConnInv'
PROOF
<1> SUFFICES ASSUME SocketSized, ConnInv, [Next]_ipcVars PROVE ConnInv'
  OBVIOUS
<1>1. CASE UNCHANGED ipcVars
  BY <1>1 DEF ipcVars, ConnInv, TypeOK, Linked, Accounted, Single, Quiet
<1>2. ASSUME NEW c \in Clients, StopReading(c) \/ HangUp(c) \/ Accept(c)
      PROVE  ConnInv'
  BY <1>2, LeaveKeeps, AcceptKeeps
<1>3. ASSUME NEW c \in Clients, NEW item \in Items, Write(c, item)
      PROVE  ConnInv'
  BY <1>3, WriteKeeps
<1>4. ASSUME NEW k \in 1..Slots, Receive(k) \/ Flush(k) \/ Broadcast(k) \/ Elapse(k)
      PROVE  ConnInv'
  BY <1>4, ReceiveKeeps, FlushKeeps, BroadcastKeeps, ElapseKeeps
<1> QED BY <1>1, <1>2, <1>3, <1>4 DEF Next, Items

\* ConnInv holds in every state of the daemon's socket: whatever the clients
\* write and whenever they stall or hang up, a slot serves one client, and a
\* queue never exceeds its limit.
THEOREM ConnInvariance == SocketSized => (IpcSpec => []ConnInv)
PROOF
<1> SUFFICES ASSUME SocketSized PROVE IpcSpec => []ConnInv
  OBVIOUS
<1>1. Init => ConnInv
  BY InitConnections
<1>2. ConnInv /\ [Next]_ipcVars => ConnInv'
  BY NextConnections
<1> QED BY <1>1, <1>2, PTL DEF IpcSpec

\* Every frame of a client whose connection is open is still unread, or has its
\* reply in the queue: no frame is answered twice or dropped without closing.
THEOREM RepliesAccounted == SocketSized => (IpcSpec => []Accounted)
PROOF
<1>1. ConnInv => Accounted
  BY DEF ConnInv
<1> QED BY <1>1, ConnInvariance, PTL

\* Two connections never hold the registration of a service at once, however a
\* subscription meets the one before it.
THEOREM OneRegistrationEach == SocketSized => (IpcSpec => []OneRegistration)
PROOF
<1>1. ConnInv => OneRegistration
  <2> SUFFICES ASSUME Single PROVE OneRegistration
    BY DEF ConnInv
  <2> DEFINE S == {k \in 1..Slots : slot[k].subscribed}
  <2>1. CASE S = {}
    BY <2>1, FS_EmptySet DEF OneRegistration
  <2>2. CASE S # {}
    <3>1. PICK k \in S : TRUE
      BY <2>2
    <3>2. S = {k}
      BY <3>1 DEF Single
    <3>3. Cardinality({k}) = 1
      BY FS_Singleton
    <3> QED BY <3>2, <3>3 DEF OneRegistration
  <2> QED BY <2>1, <2>2
<1> QED BY <1>1, ConnInvariance, PTL

\* A frame of another connection does not cost a service its registration: the
\* older one is only given up for a new one.
THEOREM RegistrationStays == SocketSized => (IpcSpec => [][RegistrationKept]_ipcVars)
PROOF
<1> SUFFICES ASSUME SocketSized PROVE IpcSpec => [][RegistrationKept]_ipcVars
  OBVIOUS
<1>1. ASSUME ConnInv, [Next]_ipcVars PROVE [RegistrationKept]_ipcVars
  <2> SUFFICES ASSUME NEW k \in 1..Slots, NEW j \in 1..Slots \ {k},
                      slot[k].subscribed, Receive(j)
               PROVE  \E i \in 1..Slots : slot'[i].subscribed
    BY DEF RegistrationKept
  <2>1. slot \in [1..Slots -> Connections]
    BY <1>1, Typed DEF ConnInv
  <2>2. CASE slot'[k] = slot[k]
    BY <2>2
  <2>3. CASE Subscribe(j) /\ ~Drop({j})
    <3>1. slot'[j] = [Complete(j) EXCEPT !.queue = Append(@, "reply"), !.subscribed = TRUE]
      BY <2>3 DEF Subscribe
    <3>2. Complete(j) \in Connections
      BY <2>1 DEF Complete, Connections
    <3> QED BY <3>1, <3>2 DEF Connections
  <2>4. Drop({j}) => slot'[k] = slot[k]
    BY DEF Drop
  <2>5. ASSUME NEW on \in BOOLEAN, Reply(j, on) PROVE slot'[k] = slot[k]
    BY <2>1, <2>4, <2>5 DEF Reply
  <2>6. OneShot(j) => slot'[k] = slot[k]
    BY <2>1, <2>4 DEF OneShot
  <2>7. ASSUME slot' = [slot EXCEPT ![j].partial = TRUE] PROVE slot'[k] = slot[k]
    BY <2>1, <2>7
  <2> QED BY <2>2, <2>3, <2>4, <2>5, <2>6, <2>7 DEF Receive, HandleFrame
<1> QED BY <1>1, ConnInvariance, PTL DEF IpcSpec
=============================================================================
