--------------------------- MODULE CoverLoader_proofs ---------------------------
(***************************************************************************)
(* What the cover decoder keeps while it works and the launcher browses,   *)
(* for every number of files, every capacity and every limit of attempts:  *)
(* Slots says what fills the slots of the two threads, Current how old a   *)
(* surface may be, and Counted ties the failure table to the decodes that  *)
(* are still to come.                                                      *)
(***************************************************************************)
EXTENDS CoverLoader, WellFoundedInduction, SequenceTheorems, TLAPS

\* The constants of the code: JW_COVER_FAIL_ATTEMPTS and the sizes of its rings;
\* the empty string names no file.
Sized ==
    /\ NoPath \notin Paths
    /\ Attempts \in Nat \ {0} /\ QueueMax \in Nat
    /\ HandbackMax \in Nat \ {0} /\ FailMax \in Nat \ {0}

-----------------------------------------------------------------------------
(* The invariant *)

Jobs == [step : {"idle", "picked", "looked", "decoded"}, path : Paths \cup {NoPath},
         asked : BOOLEAN, identity : Nat, surface : Nat, saved : BOOLEAN]
Finished == [path : Paths \cup {NoPath}, surface : Nat]
Covers == [path : Paths, surface : Nat \ {0}]
Entries == [path : Paths \cup {NoPath}, identity : Nat, attempts : Nat, stale : BOOLEAN,
            due : BOOLEAN]
Versions == [Paths -> Nat \ {0}]

\* The slots hold what they are for; nothing fills them before the worker runs.
Slots ==
    /\ started \in BOOLEAN /\ stopping \in BOOLEAN
    /\ request \in Paths \cup {NoPath} /\ backlog \in Seq(Paths)
    /\ worker \in Jobs /\ done \in Finished
    /\ handback \in Seq(Covers) /\ Len(handback) <= HandbackMax
    /\ failures \in [1..FailMax -> Entries] /\ failNext \in 1..FailMax
    /\ art \in Versions /\ floor \in Versions
    /\ cursor \in Paths /\ cached \in [Paths -> Nat] /\ tries \in [Paths -> Nat]
    /\ IF worker.step = "idle" THEN worker = Asleep ELSE worker.path \in Paths
    /\ worker.surface # 0 => worker.step = "decoded"
    /\ done.path \in Paths <=> done.surface # 0
    /\ ~started => /\ request = NoPath /\ backlog = <<>> /\ worker = Asleep
                   /\ done = Nothing /\ handback = <<>>

\* Nothing held or shown is older than the adopted catalog.
Current ==
    /\ \A p \in Paths : floor[p] <= art[p] /\ (cached[p] # 0 => cached[p] >= floor[p])
    /\ done.surface # 0 => done.surface >= floor[done.path]
    /\ worker.surface # 0 => worker.surface >= floor[worker.path]
    /\ \A i \in DOMAIN handback : handback[i].surface >= floor[handback[i].path]

\* The failure table t has a file once, and counts the decodes of the file as it
\* is that failed: they are forgotten with the entry.
Tabled(t) ==
    /\ \A i, j \in 1..FailMax : t[i].path = t[j].path /\ t[i].path # NoPath => i = j
    /\ \A p \in Paths : (\A i \in 1..FailMax : t[i].path # p) => tries[p] = 0
    /\ \A i \in 1..FailMax : t[i].path # NoPath =>
          tries[t[i].path] <= (IF t[i].identity = art[t[i].path] THEN t[i].attempts ELSE 0)

\* The decodes of p to come: asked for, queued, or at hand.
One(b) == IF b THEN 1 ELSE 0
Pending(p) == One(request = p) + One(\E i \in 1..Len(backlog) : backlog[i] = p) + One(worker.path = p)

\* A decode to come is one of the attempts left, or one queued before them.
Counted ==
    /\ Tabled(failures)
    /\ request # NoPath => request # worker.path
    /\ \A i, j \in 1..Len(backlog) : backlog[i] = backlog[j] => i = j
    /\ worker.step \in {"looked", "decoded"} /\ worker.identity # art[worker.path]
          => tries[worker.path] = 0
    /\ \A p \in Paths : tries[p] + Pending(p) <= Attempts + 1

-----------------------------------------------------------------------------
(* The operators *)

LEMMA LeastNatural ==
    ASSUME NEW T, T \subseteq Nat, T # {}
    PROVE  \E n \in T : \A k \in T : n <= k
PROOF
<1> DEFINE R == OpToRel(<, Nat)
<1>1. IsWellFoundedOn(R, Nat)
  BY NatLessThanWellFounded
<1> HIDE DEF R
<1>2. PICK n \in T : \A k \in T : <<k, n>> \notin R
  BY <1>1, WFMin
<1>3. \A k \in T : ~(k < n)
  BY <1>2 DEF R, OpToRel
<1> QED BY <1>3

\* A failure goes to the slot of its file, or to one of none, or to any.
LEMMA FailureSlotFacts ==
    ASSUME Sized, Slots, NEW p \in Paths
    PROVE  LET slot == FailureSlot(p)
           IN  /\ slot \in 1..FailMax
               /\ SlotsOf(failures, p) # {} => failures[slot].path = p
PROOF
<1>1. CASE SlotsOf(failures, p) # {}
  BY <1>1 DEF FailureSlot, SlotsOf
<1>2. CASE SlotsOf(failures, p) = {} /\ SlotsOf(failures, NoPath) # {}
  <2> DEFINE T == SlotsOf(failures, NoPath)
  <2>1. T \subseteq 1..FailMax /\ T \subseteq Nat
    BY DEF SlotsOf
  <2>2. \E i \in T : \A j \in T : i <= j
    BY <1>2, <2>1, LeastNatural
  <2>3. FailureSlot(p) \in T
    BY <1>2, <2>2 DEF FailureSlot
  <2> QED BY <1>2, <2>1, <2>3
<1>3. CASE SlotsOf(failures, p) = {} /\ SlotsOf(failures, NoPath) = {}
  BY <1>3 DEF FailureSlot, Slots
<1> QED BY <1>1, <1>2, <1>3

\* A failure is entered once more, or anew; what makes room for it is forgotten.
LEMMA RememberFacts ==
    ASSUME Sized, Slots, NEW p \in Paths, NEW identity \in Nat, NEW slot, slot = FailureSlot(p),
           Remember(p, identity, slot)
    PROVE  /\ slot \in 1..FailMax
           /\ failures' \in [1..FailMax -> Entries] /\ failNext' \in 1..FailMax
           /\ tries' \in [Paths -> Nat]
           /\ \A i \in 1..FailMax : i # slot => failures'[i] = failures[i]
           /\ failures'[slot].path = p /\ failures'[slot].identity = identity
           /\ failures'[slot].attempts =
                 IF failures[slot].path = p /\ failures[slot].identity = identity
                 THEN failures[slot].attempts + 1 ELSE 1
           /\ \A q \in Paths \ {p} :
                 tries'[q] = IF failures[slot].path = q THEN 0 ELSE tries[q]
           /\ tries'[p] = IF identity = art[p] THEN tries[p] + 1 ELSE tries[p]
PROOF
<1>1. slot \in 1..FailMax
  BY FailureSlotFacts
<1>2. failures[slot] \in Entries
  BY <1>1 DEF Slots
<1>3. failures' \in [1..FailMax -> Entries]
  <2> DEFINE known == failures[slot].path = p /\ failures[slot].identity = identity
             e == [path |-> p, identity |-> identity, stale |-> FALSE, due |-> FALSE,
                   attempts |-> IF known THEN failures[slot].attempts + 1 ELSE 1]
  <2>1. e \in Entries
    BY <1>2 DEF Entries
  <2>2. failures' = [failures EXCEPT ![slot] = e]
    BY DEF Remember
  <2> HIDE DEF e
  <2> QED BY <2>1, <2>2 DEF Slots
<1>4. failNext' \in 1..FailMax
  BY <1>1 DEF Remember, Sized, Slots
<1>5. /\ \A i \in 1..FailMax : i # slot => failures'[i] = failures[i]
      /\ failures'[slot].path = p /\ failures'[slot].identity = identity
      /\ failures'[slot].attempts =
            IF failures[slot].path = p /\ failures[slot].identity = identity
            THEN failures[slot].attempts + 1 ELSE 1
  BY <1>1, <1>2 DEF Remember, Slots
<1>6. /\ tries' \in [Paths -> Nat]
      /\ \A q \in Paths \ {p} :
            tries'[q] = IF failures[slot].path = q THEN 0 ELSE tries[q]
      /\ tries'[p] = IF identity = art[p] THEN tries[p] + 1 ELSE tries[p]
  <2> DEFINE k == failures[slot].path
             forgotten == IF k \notin {p, NoPath} THEN [tries EXCEPT ![k] = 0] ELSE tries
  <2>1. k \in Paths \cup {NoPath}
    BY <1>2 DEF Entries
  <2>2. /\ forgotten \in [Paths -> Nat]
        /\ \A q \in Paths \ {p} : forgotten[q] = IF k = q THEN 0 ELSE tries[q]
        /\ forgotten[p] = tries[p]
    BY <2>1 DEF Slots, Sized
  <2>3. tries' = IF identity = art[p] THEN [forgotten EXCEPT ![p] = @ + 1] ELSE forgotten
    BY DEF Remember
  <2> HIDE DEF forgotten
  <2> QED BY <2>2, <2>3
<1> QED BY <1>1, <1>3, <1>4, <1>5, <1>6

\* A file that is looked up has its entry dropped once it was replaced.
LEMMA RecheckedFacts ==
    ASSUME Slots, NEW p \in Paths
    PROVE  LET t == Rechecked(p)
           IN  /\ t \in [1..FailMax -> Entries]
               /\ \A i \in 1..FailMax :
                     \/ t[i] = Unused /\ failures[i].path = p /\ failures[i].identity # art[p]
                     \/ /\ t[i].path = failures[i].path /\ t[i].identity = failures[i].identity
                        /\ t[i].attempts = failures[i].attempts
PROOF
<1>1. Unused \in Entries
  BY DEF Unused, Entries
<1>2. \A i \in 1..FailMax : failures[i] \in Entries
  BY DEF Slots
<1> QED BY <1>1, <1>2 DEF Rechecked, Entries

LEMMA ForgetFacts ==
    ASSUME Slots, NEW p \in Paths, Forget(p)
    PROVE  /\ failures' \in [1..FailMax -> Entries] /\ failNext' \in 1..FailMax
           /\ tries' \in [Paths -> Nat]
           /\ \A i \in 1..FailMax : failures'[i] = IF failures[i].path = p THEN Unused
                                                   ELSE failures[i]
           /\ \A q \in Paths : tries'[q] = IF q = p THEN 0 ELSE tries[q]
PROOF
<1>1. Unused \in Entries
  BY DEF Unused, Entries
<1> QED BY <1>1 DEF Forget, Slots

LEMMA RemoveAtFacts ==
    ASSUME NEW S, NEW s \in Seq(S), NEW i \in 1..Len(s)
    PROVE  /\ RemoveAt(s, i) \in Seq(S) /\ Len(RemoveAt(s, i)) = Len(s) - 1
           /\ \A j \in 1..Len(s) - 1 : RemoveAt(s, i)[j] = IF j < i THEN s[j] ELSE s[j + 1]
PROOF
<1> DEFINE a == SubSeq(s, 1, i - 1)
           b == SubSeq(s, i + 1, Len(s))
<1>1. a \in Seq(S) /\ Len(a) = i - 1 /\ \A j \in 1..i - 1 : a[j] = s[j]
  OBVIOUS
<1>2. b \in Seq(S) /\ Len(b) = Len(s) - i /\ \A j \in 1..Len(s) - i : b[j] = s[j + i]
  OBVIOUS
<1>3. RemoveAt(s, i) = a \o b
  BY DEF RemoveAt
<1> HIDE DEF a, b
<1>4. Len(s) \in Nat /\ i \in Nat /\ 1 <= i /\ i <= Len(s)
  OBVIOUS
<1>5. /\ a \o b \in Seq(S) /\ Len(a \o b) = Len(a) + Len(b)
      /\ \A j \in 1..Len(a) + Len(b) : (a \o b)[j] =
            IF j <= Len(a) THEN a[j] ELSE b[j - Len(a)]
  BY <1>1, <1>2, ConcatProperties
<1>6. \A j \in 1..Len(s) - 1 : (a \o b)[j] = IF j < i THEN s[j] ELSE s[j + 1]
  BY <1>1, <1>2, <1>4, <1>5
<1>7. Len(a \o b) = Len(s) - 1
  BY <1>1, <1>2, <1>4, <1>5
<1> QED BY <1>3, <1>5, <1>6, <1>7

-----------------------------------------------------------------------------
(* The slots *)

\* The surface that x owns.
Held(x) == IF x.surface # 0 THEN 1 ELSE 0

LEMMA HeldFacts == \A x : IF x.surface # 0 THEN Held(x) = 1 ELSE Held(x) = 0
PROOF BY DEF Held

LEMMA NoneLostIs == NoneLost <=> surfaces = Len(handback) + Held(done) + Held(worker)
PROOF BY DEF NoneLost, Held

LEMMA NoneLostIsNext ==
    NoneLost' <=> surfaces' = Len(handback') + Held(done') + Held(worker')
PROOF BY DEF NoneLost, Held

\* What a finished job does to the slots of its answer: the launcher's request
\* goes to the done slot, the rest is freed or handed back.
LEMMA FinishFacts ==
    ASSUME Sized, Slots, NoneLost, worker.step = "decoded",
           IF worker.asked THEN Deliver ELSE HandBack
    PROVE  /\ done' \in Finished /\ (done'.path \in Paths <=> done'.surface # 0)
           /\ handback' \in Seq(Covers) /\ Len(handback') <= HandbackMax
           /\ surfaces' = Len(handback') + Held(done')
           /\ done' = done \/ (done'.surface # 0 =>
                 done'.path = worker.path /\ done'.surface = worker.surface)
           /\ \A i \in 1..Len(handback') :
                 \/ \E j \in 1..Len(handback) : handback'[i] = handback[j]
                 \/ /\ worker.surface # 0 /\ handback'[i].path = worker.path
                    /\ handback'[i].surface = worker.surface
PROOF
<1> DEFINE entry == [path |-> worker.path, surface |-> worker.surface]
           same == {i \in DOMAIN handback : handback[i].path = worker.path}
<1>1. worker.path \in Paths /\ worker.surface \in Nat /\ NoPath \notin Paths
  BY DEF Slots, Jobs, Sized
<1>2. worker.surface # 0 => entry \in Covers
  BY <1>1 DEF Covers
<1>3. /\ handback \in Seq(Covers) /\ Len(handback) <= HandbackMax /\ done \in Finished
      /\ done.path \in Paths <=> done.surface # 0
  BY DEF Slots
<1> DEFINE n == Len(handback) + Held(done)
<1>6. /\ Len(handback) \in Nat /\ Held(done) \in Nat /\ n \in Nat
      /\ worker.surface # 0 => surfaces = n + 1
      /\ worker.surface = 0 => surfaces = n
  <2>1. Len(handback) \in Nat /\ Held(done) \in Nat
    BY <1>3, HeldFacts
  <2> QED BY <2>1, HeldFacts, NoneLostIs
<1>4. CASE worker.asked
  <2>1. Deliver
    BY <1>4
  <2>2. done' \in Finished /\ (done'.path \in Paths <=> done'.surface # 0)
    BY <1>1, <2>1 DEF Deliver, Finished, Nothing
  <2>3. /\ surfaces' = Len(handback') + Held(done')
        /\ done'.surface # 0 => done'.path = worker.path /\ done'.surface = worker.surface
    <3>1. surfaces' = surfaces - Held(done) /\ handback' = handback
      BY <2>1 DEF Deliver, Held
    <3>2. done' = IF worker.surface # 0
                  THEN [path |-> worker.path, surface |-> worker.surface] ELSE Nothing
      BY <2>1 DEF Deliver
    <3>3. CASE worker.surface # 0
      <4>1. done'.surface # 0 /\ done'.path = worker.path /\ done'.surface = worker.surface
        BY <3>2, <3>3
      <4> QED BY <1>6, <3>1, <3>3, <4>1, HeldFacts
    <3>4. CASE worker.surface = 0
      <4>1. done'.surface = 0
        BY <3>2, <3>4 DEF Nothing
      <4> QED BY <1>6, <3>1, <3>4, <4>1, HeldFacts
    <3> QED BY <3>3, <3>4
  <2> QED BY <1>3, <2>1, <2>2, <2>3 DEF Deliver
<1>5. CASE ~worker.asked
  <2>1. HandBack /\ done' = done
    BY <1>5 DEF HandBack
  <2>2. CASE worker.surface = 0 \/ worker.saved
    <3>1. handback' = handback /\ surfaces' = n
      <4>1. CASE worker.surface = 0
        BY <1>6, <2>1, <4>1 DEF HandBack
      <4>2. CASE worker.surface # 0 /\ worker.saved
        <5>1. handback' = handback /\ surfaces' = surfaces - 1
          BY <2>1, <4>2 DEF HandBack
        <5> HIDE DEF n
        <5> QED BY <1>6, <4>2, <5>1
      <4> QED BY <2>2, <4>1, <4>2
    <3> QED BY <1>3, <1>6, <2>1, <3>1
  <2>3. CASE worker.surface # 0 /\ ~worker.saved /\ same # {}
    <3>1. /\ handback' = [i \in DOMAIN handback |-> IF i \in same THEN entry ELSE handback[i]]
          /\ surfaces' = surfaces - 1
      BY <2>1, <2>3 DEF HandBack
    <3>2. handback' \in Seq(Covers) /\ Len(handback') = Len(handback)
      BY <1>2, <1>3, <2>3, <3>1, SMTT(30)
    <3>3. \A i \in 1..Len(handback') : handback'[i] = handback[i] \/ handback'[i] = entry
      BY <1>3, <3>1, <3>2
    <3> QED BY <1>1, <1>3, <1>6, <2>1, <2>3, <3>1, <3>2, <3>3
  <2>4. CASE worker.surface # 0 /\ ~worker.saved /\ same = {} /\ Len(handback) = HandbackMax
    <3>1. handback' = Append(Tail(handback), entry) /\ surfaces' = surfaces - 1
      BY <2>1, <2>4 DEF HandBack
    <3>2. Tail(handback) \in Seq(Covers) /\ Len(Tail(handback)) = Len(handback) - 1
      BY <1>3, <2>4 DEF Sized
    <3>3. handback' \in Seq(Covers) /\ Len(handback') = Len(handback)
      BY <1>2, <2>4, <3>1, <3>2, <1>3
    <3>4. \A i \in 1..Len(handback') :
             \/ i \in 1..Len(handback) - 1 /\ handback'[i] = handback[i + 1]
             \/ handback'[i] = entry
      BY <1>3, <2>4, <3>1, <3>2, <3>3 DEF Sized
    <3>5. \A i \in 1..Len(handback') :
             (\E j \in 1..Len(handback) : handback'[i] = handback[j]) \/ handback'[i] = entry
      BY <1>3, <3>4
    <3> QED BY <1>1, <1>3, <1>6, <2>1, <2>4, <3>1, <3>3, <3>5
  <2>5. CASE worker.surface # 0 /\ ~worker.saved /\ same = {} /\ Len(handback) # HandbackMax
    <3>1. handback' = Append(handback, entry) /\ surfaces' = surfaces
      BY <2>1, <2>5 DEF HandBack
    <3>2. handback' \in Seq(Covers) /\ Len(handback') = Len(handback) + 1
      BY <1>2, <1>3, <2>5, <3>1
    <3>3. \A i \in 1..Len(handback') :
             (\E j \in 1..Len(handback) : handback'[i] = handback[j]) \/ handback'[i] = entry
      BY <1>3, <3>1, <3>2
    <3>4. Len(handback') <= HandbackMax
      BY <1>3, <2>5, <3>2 DEF Sized
    <3> QED BY <1>1, <1>3, <1>6, <2>1, <2>5, <3>1, <3>2, <3>3, <3>4
  <2> QED BY <2>2, <2>3, <2>4, <2>5
<1> QED BY <1>4, <1>5

LEMMA SlotsStep ==
    ASSUME Sized, Slots, NoneLost, Next
    PROVE  Slots' /\ NoneLost'
PROOF
<1>1. CASE WorkerPicks
  <2> DEFINE p == IF request # NoPath THEN request ELSE Head(backlog)
  <2>1. p \in Paths /\ backlog' \in Seq(Paths) /\ request' = NoPath
    BY <1>1, HeadTailProperties DEF WorkerPicks, Wanted, Slots
  <2>2. worker = Asleep
    BY <1>1 DEF WorkerPicks, Slots
  <2>3. worker' = [Asleep EXCEPT !.step = "picked", !.asked = (request # NoPath), !.path = p]
    BY <1>1 DEF WorkerPicks
  <2>4. /\ worker' \in Jobs /\ worker'.step = "picked" /\ worker'.path = p
        /\ worker'.surface = worker.surface /\ worker.surface = 0
    BY <2>1, <2>2, <2>3 DEF Asleep, Jobs
  <2> QED BY <1>1, <2>1, <2>4 DEF WorkerPicks, Slots, NoneLost
<1>2. CASE WorkerLooks
  <2>1. worker.path \in Paths /\ worker.surface = 0 /\ worker \in Jobs
    BY <1>2 DEF WorkerLooks, Slots
  <2>2. art[worker.path] \in Nat /\ worker' = [worker EXCEPT !.step = "looked", !.identity = art[worker.path]]
    BY <1>2, <2>1 DEF WorkerLooks, Slots, Versions
  <2>3. /\ worker' \in Jobs /\ worker'.step = "looked"
        /\ worker'.path = worker.path /\ worker'.surface = 0
    BY <2>1, <2>2 DEF Jobs
  <2>4. started
    BY <1>2 DEF WorkerLooks, Slots, Asleep
  <2> QED BY <1>2, <2>1, <2>3, <2>4 DEF WorkerLooks, Slots, NoneLost
<1>3. CASE WorkerDecodes
  <2>1. worker.path \in Paths /\ worker.surface = 0 /\ worker \in Jobs /\ started
    BY <1>3 DEF WorkerDecodes, Slots, Asleep
  <2>2. art[worker.path] \in Nat \ {0}
    BY <2>1 DEF Slots, Versions
  <2>3. PICK b \in BOOLEAN :
           \/ /\ worker' = [worker EXCEPT !.step = "decoded", !.saved = b, !.surface = art[worker.path]]
              /\ surfaces' = surfaces + 1
           \/ /\ worker' = [worker EXCEPT !.step = "decoded", !.saved = TRUE]
              /\ surfaces' = surfaces
    BY <1>3 DEF WorkerDecodes
  <2>4. /\ worker' \in Jobs /\ worker'.step = "decoded" /\ worker'.path = worker.path
        /\ \/ worker'.surface # 0 /\ surfaces' = surfaces + 1
           \/ worker'.surface = 0 /\ surfaces' = surfaces
    BY <2>1, <2>2, <2>3 DEF Jobs
  <2>5. Slots'
    BY <1>3, <2>1, <2>4 DEF WorkerDecodes, Slots
  <2>6. Len(handback) \in Nat
    BY DEF Slots
  <2>7. handback' = handback /\ done' = done
    BY <1>3 DEF WorkerDecodes
  <2>8. NoneLost'
    BY <2>1, <2>4, <2>6, <2>7, HeldFacts, NoneLostIs, NoneLostIsNext
  <2> QED BY <2>5, <2>8
<1>4. CASE WorkerFinishes
  <2>1. worker.path \in Paths /\ worker \in Jobs /\ started /\ worker.step = "decoded"
    BY <1>4 DEF WorkerFinishes, Slots, Asleep
  <2>2. IF worker.asked THEN Deliver ELSE HandBack
    BY <1>4 DEF WorkerFinishes
  <2>3. /\ done' \in Finished /\ (done'.path \in Paths <=> done'.surface # 0)
        /\ handback' \in Seq(Covers) /\ Len(handback') <= HandbackMax
        /\ surfaces' = Len(handback') + Held(done')
    BY <2>1, <2>2, FinishFacts
  <2>4. /\ failures' \in [1..FailMax -> Entries] /\ failNext' \in 1..FailMax
        /\ tries' \in [Paths -> Nat]
    <3>1. CASE worker.surface # 0
      BY <1>4, <2>1, <3>1, ForgetFacts DEF WorkerFinishes
    <3>2. CASE worker.surface = 0
      <4>1. Remember(worker.path, worker.identity, FailureSlot(worker.path))
        BY <1>4, <3>2 DEF WorkerFinishes
      <4>2. worker.identity \in Nat
        BY <2>1 DEF Jobs
      <4> QED BY <2>1, <4>1, <4>2, RememberFacts
    <3> QED BY <3>1, <3>2
  <2>5. worker' = Asleep /\ Asleep \in Jobs /\ Asleep.step = "idle" /\ Asleep.surface = 0
    BY <1>4 DEF WorkerFinishes, Asleep, Jobs
  <2>6. Slots'
    BY <1>4, <2>1, <2>3, <2>4, <2>5 DEF WorkerFinishes, Slots
  <2>7. NoneLost'
    <3>1. Len(handback') \in Nat
      BY <2>3
    <3> QED BY <2>3, <2>5, <3>1, HeldFacts, NoneLostIsNext
  <2> QED BY <2>6, <2>7
<1>5. CASE Start \/ AdoptCatalog
  BY <1>5 DEF Start, AdoptCatalog, Slots, NoneLost
<1>6. CASE DecodeInline
  <2> DEFINE table == Rechecked(cursor)
  <2>1. cursor \in Paths /\ art[cursor] \in Nat
    BY DEF Slots, Versions
  <2>2. table \in [1..FailMax -> Entries]
    BY <2>1, RecheckedFacts
  <2>3. /\ failures' \in [1..FailMax -> Entries] /\ failNext' \in 1..FailMax
        /\ tries' \in [Paths -> Nat] /\ cached' \in [Paths -> Nat]
    <3>1. CASE \/ failures' = table /\ UNCHANGED <<failNext, tries, cached>>
               \/ /\ cached' = [cached EXCEPT ![cursor] = art[cursor]]
                  /\ failures' = table /\ UNCHANGED <<failNext, tries>>
      BY <2>1, <2>2, <3>1 DEF Slots
    <3>2. CASE Remember(cursor, art[cursor], FailureSlot(cursor)) /\ UNCHANGED cached
      BY <2>1, <3>2, RememberFacts DEF Slots
    <3> QED BY <1>6, <3>1, <3>2 DEF DecodeInline
  <2> QED BY <1>6, <2>3 DEF DecodeInline, Slots, NoneLost
<1>7. CASE Take
  <2>1. cursor \in Paths /\ Rechecked(cursor) \in [1..FailMax -> Entries]
    BY RecheckedFacts DEF Slots
  <2>2. CASE done.path = cursor
    <3>1. done.surface \in Nat \ {0}
      BY <2>1, <2>2 DEF Slots, Finished
    <3>2. /\ cached' = [cached EXCEPT ![cursor] = done.surface]
          /\ done' = Nothing /\ surfaces' = surfaces - 1
          /\ UNCHANGED <<failures, request>>
      BY <1>7, <2>2 DEF Take
    <3>3. Nothing \in Finished /\ Nothing.surface = 0 /\ Nothing.path \notin Paths
      BY DEF Nothing, Finished, Sized
    <3>4. cached' \in [Paths -> Nat]
      BY <3>1, <3>2 DEF Slots
    <3>5. Slots'
      BY <1>7, <3>2, <3>3, <3>4 DEF Take, Slots
    <3>6. handback' = handback /\ worker' = worker /\ Len(handback) \in Nat
      BY <1>7 DEF Take, Slots
    <3>7. NoneLost'
      <4>1. Held(done) = 1 /\ Held(done') = 0 /\ Held(worker) \in Nat
        BY <3>1, <3>2, <3>3, HeldFacts
      <4> QED BY <3>2, <3>6, <4>1, NoneLostIs, NoneLostIsNext
    <3> QED BY <3>5, <3>7
  <2>3. CASE done.path # cursor
    <3>1. failures' = Rechecked(cursor) /\ request' \in {request, cursor}
      BY <1>7, <2>3 DEF Take
    <3> QED BY <1>7, <2>1, <2>3, <3>1 DEF Take, Slots, NoneLost
  <2> QED BY <2>2, <2>3
<1>8. CASE Rescan
  <2>1. Unused \in Entries /\ NoTries \in [Paths -> Nat]
    BY DEF Unused, Entries, NoTries
  <2>2. 1 \in 1..FailMax
    BY DEF Sized
  <2> QED BY <1>8, <2>1, <2>2 DEF Rescan, Slots, NoneLost
<1>9. CASE CatalogAdopted
  <2>1. Unused \in Entries /\ NoTries \in [Paths -> Nat] /\ <<>> \in Seq(Covers)
    BY DEF Unused, Entries, NoTries
  <2>2. Nothing \in Finished /\ Nothing.surface = 0 /\ Nothing.path \notin Paths
    BY DEF Nothing, Finished, Sized
  <2>3. worker = Asleep /\ worker' = worker /\ worker.surface = 0
    BY <1>9 DEF CatalogAdopted, Slots
  <2>4. /\ done' = Nothing /\ handback' = <<>> /\ request' = NoPath /\ backlog' = <<>>
        /\ IF started THEN surfaces' = surfaces - Retired ELSE surfaces' = surfaces
    <3>1. CASE started
      BY <1>9, <3>1 DEF CatalogAdopted
    <3>2. CASE ~started
      BY <1>9, <3>2 DEF CatalogAdopted, Slots
    <3> QED BY <3>1, <3>2
  <2>5. Slots'
    <3>1. /\ started' = FALSE /\ stopping' = FALSE /\ tries' = NoTries /\ floor' = art
          /\ failures' = [i \in 1..FailMax |-> Unused] /\ cached' = [p \in Paths |-> 0]
          /\ failNext' \in 1..FailMax /\ UNCHANGED <<art, cursor>>
      BY <1>9 DEF CatalogAdopted, Sized
    <3>2. failures' \in [1..FailMax -> Entries] /\ cached' \in [Paths -> Nat]
      BY <2>1, <3>1
    <3>3. Asleep \in Jobs /\ Asleep.step = "idle" /\ backlog' \in Seq(Paths)
      BY <2>4 DEF Asleep, Jobs
    <3>4. handback' \in Seq(Covers) /\ Len(handback') <= HandbackMax
      BY <2>1, <2>4 DEF Sized
    <3> QED BY <2>1, <2>2, <2>3, <2>4, <3>1, <3>2, <3>3, <3>4 DEF Slots
  <2>6. surfaces' = 0
    <3>1. Len(handback) \in Nat /\ (~started => handback = <<>> /\ done = Nothing)
      BY DEF Slots
    <3>2. Retired = Len(handback) + Held(done)
      BY DEF Retired, Held
    <3>3. surfaces = Retired /\ Retired \in Nat /\ (~started => Retired = 0)
      BY <2>2, <2>3, <3>1, <3>2, HeldFacts, NoneLostIs
    <3> QED BY <2>4, <3>2, <3>3
  <2>7. NoneLost'
    BY <2>2, <2>3, <2>4, <2>6, HeldFacts, NoneLostIsNext
  <2> QED BY <2>5, <2>7
<1>10. ASSUME NEW p \in Paths, Poll(p)
       PROVE  Slots' /\ NoneLost'
  <2> DEFINE held == {i \in DOMAIN handback : handback[i].path = p}
  <2>1. handback \in Seq(Covers)
    BY DEF Slots
  <2>2. CASE held # {}
    <3>1. PICK i \in held :
             /\ cached' = [cached EXCEPT ![p] = handback[i].surface]
             /\ handback' = RemoveAt(handback, i)
             /\ surfaces' = surfaces - 1
             /\ UNCHANGED failures
      BY <1>10, <2>2 DEF Poll
    <3>2. i \in 1..Len(handback) /\ handback[i] \in Covers /\ Len(handback) \in Nat
      BY <2>1
    <3>3. handback' \in Seq(Covers) /\ Len(handback') = Len(handback) - 1
      BY <2>1, <3>1, <3>2, RemoveAtFacts
    <3>4. cached' \in [Paths -> Nat]
      BY <3>1, <3>2 DEF Slots, Covers
    <3>5. started /\ Len(handback') <= HandbackMax
      BY <1>10, <3>2, <3>3 DEF Poll, Slots, Sized
    <3>6. Slots'
      BY <1>10, <3>1, <3>3, <3>4, <3>5 DEF Poll, Slots
    <3>7. NoneLost'
      <4>1. done' = done /\ worker' = worker
        BY <1>10 DEF Poll
      <4> QED BY <3>1, <3>2, <3>3, <4>1, HeldFacts, NoneLostIs, NoneLostIsNext, SMTT(30)
    <3> QED BY <3>6, <3>7
  <2>3. CASE held = {}
    <3>1. failures' = Rechecked(p) /\ UNCHANGED <<cached, handback, surfaces>>
      BY <1>10, <2>3 DEF Poll
    <3>2. failures' \in [1..FailMax -> Entries]
      BY <3>1, RecheckedFacts
    <3> QED BY <1>10, <3>1, <3>2 DEF Poll, Slots, NoneLost
  <2> QED BY <2>2, <2>3
<1>11. ASSUME NEW p \in Paths, Enqueue(p)
       PROVE  Slots' /\ NoneLost'
  <2>1. failures' \in [1..FailMax -> Entries]
    BY <1>11, RecheckedFacts DEF Enqueue
  <2>2. backlog' \in {backlog, Append(backlog, p)} /\ started
    BY <1>11 DEF Enqueue
  <2>3. backlog \in Seq(Paths) /\ Append(backlog, p) \in Seq(Paths)
    BY AppendProperties DEF Slots
  <2> QED BY <1>11, <2>1, <2>2, <2>3 DEF Enqueue, Slots, NoneLost
<1>12. ASSUME NEW p \in Paths, MoveCursor(p)
       PROVE  Slots' /\ NoneLost'
  BY <1>12 DEF MoveCursor, Slots, NoneLost
<1>13. ASSUME NEW p \in Paths, Replace(p)
       PROVE  Slots' /\ NoneLost'
  <2>1. art \in [Paths -> Nat \ {0}] /\ art' = [art EXCEPT ![p] = @ + 1]
    BY <1>13 DEF Replace, Slots, Versions
  <2>2. art' \in Versions
    BY <2>1 DEF Versions
  <2>3. tries' \in [Paths -> Nat]
    BY <1>13 DEF Replace, Slots
  <2> QED BY <1>13, <2>2, <2>3 DEF Replace, Slots, NoneLost
<1>14. ASSUME NEW i \in 1..FailMax, NEW due \in BOOLEAN, Elapse(i, due)
       PROVE  Slots' /\ NoneLost'
  <2>1. failures[i] \in Entries
    BY DEF Slots
  <2>2. failures' = [failures EXCEPT ![i] = [failures[i] EXCEPT !.stale = TRUE, !.due = @ \/ due]]
    BY <1>14 DEF Elapse, Slots
  <2>3. failures' \in [1..FailMax -> Entries]
    BY <2>1, <2>2 DEF Entries, Slots
  <2> QED BY <1>14, <2>3 DEF Elapse, Slots, NoneLost
<1> QED BY <1>1, <1>2, <1>3, <1>4, <1>5, <1>6, <1>7, <1>8, <1>9, <1>10, <1>11, <1>12, <1>13,
           <1>14 DEF Next, Work

-----------------------------------------------------------------------------
(* The catalog *)

LEMMA CurrentStep ==
    ASSUME Sized, Slots, NoneLost, Current, Next
    PROVE  Current'
PROOF
<1> USE DEF Current
<1>1. CASE WorkerPicks
  <2>1. worker'.surface = 0
    BY <1>1 DEF WorkerPicks, Asleep
  <2> QED BY <1>1, <2>1 DEF WorkerPicks
<1>2. CASE WorkerLooks
  <2>1. worker.surface = 0 /\ worker'.surface = 0
    BY <1>2 DEF WorkerLooks, Slots, Jobs
  <2> QED BY <1>2, <2>1 DEF WorkerLooks
<1>3. CASE WorkerDecodes
  <2>1. worker.path \in Paths /\ worker.surface = 0 /\ worker \in Jobs
    BY <1>3 DEF WorkerDecodes, Slots
  <2>2. /\ worker'.path = worker.path
        /\ worker'.surface \in {0, art[worker.path]}
    <3>1. PICK b \in BOOLEAN :
             \/ worker' = [worker EXCEPT !.step = "decoded", !.saved = b,
                                         !.surface = art[worker.path]]
             \/ worker' = [worker EXCEPT !.step = "decoded", !.saved = TRUE]
      BY <1>3 DEF WorkerDecodes
    <3> QED BY <2>1, <3>1 DEF Jobs
  <2>3. /\ done' = done /\ handback' = handback /\ art' = art /\ cached' = cached
        /\ floor' = floor
    BY <1>3 DEF WorkerDecodes
  <2> QED BY <2>1, <2>2, <2>3
<1>4. CASE WorkerFinishes
  <2>1. /\ worker.step = "decoded" /\ (IF worker.asked THEN Deliver ELSE HandBack)
        /\ worker' = Asleep /\ art' = art /\ cached' = cached /\ floor' = floor
    BY <1>4 DEF WorkerFinishes
  <2>2. /\ handback' \in Seq(Covers)
        /\ done' = done \/ (done'.surface # 0 =>
              done'.path = worker.path /\ done'.surface = worker.surface)
        /\ \A i \in 1..Len(handback') :
              \/ \E j \in 1..Len(handback) : handback'[i] = handback[j]
              \/ /\ worker.surface # 0 /\ handback'[i].path = worker.path
                 /\ handback'[i].surface = worker.surface
    BY <2>1, FinishFacts
  <2>3. DOMAIN handback' = 1..Len(handback') /\ DOMAIN handback = 1..Len(handback)
    BY <2>2 DEF Slots
  <2>4. worker'.surface = 0
    BY <2>1 DEF Asleep
  <2>5. \A i \in DOMAIN handback' : handback'[i].surface >= floor[handback'[i].path]
    BY <2>2, <2>3
  <2>6. done'.surface # 0 => done'.surface >= floor[done'.path]
    BY <2>2
  <2> QED BY <2>1, <2>4, <2>5, <2>6
<1>5. CASE Start \/ AdoptCatalog \/ Rescan
  BY <1>5 DEF Start, AdoptCatalog, Rescan
<1>6. CASE DecodeInline
  <2>1. \/ cached' = cached
        \/ cached' = [cached EXCEPT ![cursor] = art[cursor]]
    BY <1>6 DEF DecodeInline
  <2>2. /\ done' = done /\ handback' = handback /\ art' = art /\ worker' = worker
        /\ floor' = floor
    BY <1>6 DEF DecodeInline
  <2>3. cursor \in Paths /\ cached \in [Paths -> Nat]
    BY DEF Slots
  <2> QED BY <2>1, <2>2, <2>3
<1>7. CASE Take
  <2>1. /\ handback' = handback /\ art' = art /\ worker' = worker /\ floor' = floor
    BY <1>7 DEF Take
  <2>2. cursor \in Paths /\ cached \in [Paths -> Nat]
    BY DEF Slots
  <2>3. CASE done.path = cursor
    <3>1. cached' = [cached EXCEPT ![cursor] = done.surface] /\ done'.surface = 0
      BY <1>7, <2>3 DEF Take, Nothing
    <3> QED BY <2>1, <2>2, <2>3, <3>1
  <2>4. CASE done.path # cursor
    <3>1. cached' = cached /\ done' = done
      BY <1>7, <2>4 DEF Take
    <3> QED BY <2>1, <3>1
  <2> QED BY <2>3, <2>4
<1>9. CASE CatalogAdopted
  <2>1. floor' = art /\ art' = art /\ cached' = [p \in Paths |-> 0]
    BY <1>9 DEF CatalogAdopted
  <2>2. done' = Nothing /\ handback' = <<>> /\ worker' = Asleep
    BY <1>9 DEF CatalogAdopted, Slots
  <2>3. done'.surface = 0 /\ worker'.surface = 0 /\ DOMAIN handback' = {}
    BY <2>2 DEF Nothing, Asleep
  <2>4. \A p \in Paths : art[p] \in Nat
    BY DEF Slots, Versions
  <2> QED BY <2>1, <2>3, <2>4
<1>10. ASSUME NEW p \in Paths, Poll(p)
       PROVE  Current'
  <2> DEFINE held == {i \in DOMAIN handback : handback[i].path = p}
  <2>1. /\ handback \in Seq(Covers) /\ cached \in [Paths -> Nat]
        /\ done' = done /\ art' = art /\ worker' = worker /\ floor' = floor
    BY <1>10 DEF Slots, Poll
  <2>2. CASE held # {}
    <3>1. PICK i \in held :
             /\ cached' = [cached EXCEPT ![p] = handback[i].surface]
             /\ handback' = RemoveAt(handback, i)
      BY <1>10, <2>2 DEF Poll
    <3>2. i \in 1..Len(handback) /\ i \in DOMAIN handback /\ Len(handback) \in Nat
      BY <2>1
    <3>3. /\ handback' \in Seq(Covers) /\ Len(handback') = Len(handback) - 1
          /\ \A j \in 1..Len(handback) - 1 :
                handback'[j] = IF j < i THEN handback[j] ELSE handback[j + 1]
      BY <2>1, <3>1, <3>2, RemoveAtFacts
    <3>4. \A j \in DOMAIN handback' : \E k \in DOMAIN handback : handback'[j] = handback[k]
      <4> SUFFICES ASSUME NEW j \in DOMAIN handback'
                   PROVE  \E k \in DOMAIN handback : handback'[j] = handback[k]
        OBVIOUS
      <4>1. /\ DOMAIN handback' = 1..Len(handback) - 1
            /\ DOMAIN handback = 1..Len(handback)
        BY <2>1, <3>3
      <4>2. j \in Nat /\ j \in DOMAIN handback /\ j + 1 \in DOMAIN handback
        BY <3>2, <4>1
      <4>3. handback'[j] = handback[j] \/ handback'[j] = handback[j + 1]
        BY <3>3, <4>1
      <4> QED BY <4>2, <4>3
    <3>5. \A j \in DOMAIN handback' : handback'[j].surface >= floor[handback'[j].path]
      BY <3>4
    <3>6. handback[i].path = p /\ handback[i].surface >= floor[p]
      BY <3>1, <3>2
    <3>7. \A q \in Paths : cached'[q] # 0 => cached'[q] >= floor[q]
      BY <2>1, <3>1, <3>6
    <3> QED BY <2>1, <3>5, <3>7
  <2>3. CASE held = {}
    BY <1>10, <2>1, <2>3 DEF Poll
  <2> QED BY <2>2, <2>3
<1>11. ASSUME NEW p \in Paths, Enqueue(p) \/ MoveCursor(p)
       PROVE  Current'
  BY <1>11 DEF Enqueue, MoveCursor
<1>12. ASSUME NEW p \in Paths, Replace(p)
       PROVE  Current'
  <2>1. art \in [Paths -> Nat \ {0}] /\ floor \in [Paths -> Nat \ {0}]
    BY DEF Slots, Versions
  <2>2. art' = [art EXCEPT ![p] = @ + 1]
    BY <1>12 DEF Replace
  <2>3. \A q \in Paths : floor[q] <= art'[q]
    BY <2>1, <2>2
  <2> QED BY <1>12, <2>3 DEF Replace
<1>13. ASSUME NEW i \in 1..FailMax, NEW due \in BOOLEAN, Elapse(i, due)
       PROVE  Current'
  BY <1>13 DEF Elapse
<1> QED BY <1>1, <1>2, <1>3, <1>4, <1>5, <1>6, <1>7, <1>9, <1>10, <1>11, <1>12, <1>13
        DEF Next, Work

-----------------------------------------------------------------------------
(* The attempts *)

Queued(p) == \E i \in 1..Len(backlog) : backlog[i] = p

LEMMA OneFacts == \A b \in BOOLEAN : One(b) = 0 \/ (b /\ One(b) = 1)
PROOF BY DEF One

LEMMA PendingIs ==
    ASSUME NEW p
    PROVE  Pending(p) = One(request = p) + One(Queued(p)) + One(worker.path = p)
PROOF BY DEF Pending, Queued

LEMMA PendingIsNext ==
    ASSUME NEW p
    PROVE  Pending(p)' = One(request' = p) + One(Queued(p)') + One(worker'.path = p)
PROOF BY DEF Pending, Queued

\* A file is never both asked for and being decoded.
LEMMA PendingAtMostTwo ==
    ASSUME Sized, NEW p \in Paths, request # NoPath => request # worker.path
    PROVE  /\ Pending(p) \in 0..2
           /\ (request # p /\ worker.path # p => Pending(p) \in 0..1)
           /\ (request # p /\ worker.path # p /\ ~Queued(p) => Pending(p) = 0)
PROOF
<1>1. ~(request = p /\ worker.path = p)
  BY DEF Sized
<1>2. /\ One(request = p) \in 0..1 /\ One(Queued(p)) \in 0..1 /\ One(worker.path = p) \in 0..1
      /\ (request # p => One(request = p) = 0)
      /\ (~Queued(p) => One(Queued(p)) = 0)
      /\ (worker.path # p => One(worker.path = p) = 0)
  BY DEF One
<1> QED BY <1>1, <1>2, PendingIs

\* Less to come of p.
LEMMA PendingFalls ==
    ASSUME NEW p, request' = p => request = p, Queued(p)' => Queued(p),
           worker'.path = p => worker.path = p
    PROVE  Pending(p)' <= Pending(p) /\ Pending(p)' \in Nat /\ Pending(p) \in Nat
PROOF
<1>1. /\ One(request' = p) \in 0..1 /\ One(request = p) \in 0..1
      /\ One(request' = p) <= One(request = p)
  BY DEF One
<1>2. /\ One(Queued(p)') \in 0..1 /\ One(Queued(p)) \in 0..1
      /\ One(Queued(p)') <= One(Queued(p))
  BY DEF One
<1>3. /\ One(worker'.path = p) \in 0..1 /\ One(worker.path = p) \in 0..1
      /\ One(worker'.path = p) <= One(worker.path = p)
  BY DEF One
<1> QED BY <1>1, <1>2, <1>3, PendingIs, PendingIsNext

LEMMA PendingSame ==
    ASSUME NEW p, request' = request, backlog' = backlog, worker'.path = worker.path
    PROVE  Pending(p)' = Pending(p)
PROOF BY DEF Pending

LEMMA RecheckedTabled ==
    ASSUME Sized, Slots, Tabled(failures), NEW p \in Paths
    PROVE  Tabled(Rechecked(p))
PROOF
<1> DEFINE t == Rechecked(p)
<1>1. \A i \in 1..FailMax :
         \/ /\ t[i].path = NoPath /\ failures[i].path = p /\ failures[i].identity # art[p]
         \/ /\ t[i].path = failures[i].path /\ t[i].identity = failures[i].identity
            /\ t[i].attempts = failures[i].attempts
  BY RecheckedFacts DEF Unused
<1>2. tries \in [Paths -> Nat] /\ NoPath \notin Paths
  BY DEF Slots, Sized
<1> HIDE DEF t
<1>3. ASSUME NEW q \in Paths, \A i \in 1..FailMax : t[i].path # q
      PROVE  tries[q] = 0
  <2>1. CASE \A i \in 1..FailMax : failures[i].path # q
    BY <2>1 DEF Tabled
  <2>2. CASE \E i \in 1..FailMax : failures[i].path = q
    <3>1. PICK i \in 1..FailMax : failures[i].path = q
      BY <2>2
    <3>2. q = p /\ failures[i].identity # art[p]
      BY <1>1, <1>3, <3>1
    <3> QED BY <1>2, <3>1, <3>2 DEF Tabled
  <2> QED BY <2>1, <2>2
<1> QED BY <1>1, <1>3 DEF Tabled, t

\* A file that may be tried has an attempt left.
LEMMA Admitted ==
    ASSUME Sized, Slots, NEW p \in Paths, Tabled(failures), ~Blocked(Rechecked(p), p)
    PROVE  tries[p] < Attempts
PROOF
<1> DEFINE t == Rechecked(p)
<1>1. Tabled(t) /\ t \in [1..FailMax -> Entries]
  BY RecheckedTabled, RecheckedFacts
<1>2. \A i \in 1..FailMax : t[i].path = p => t[i].attempts < Attempts
  BY DEF Blocked, SlotsOf
<1>3. tries[p] \in Nat /\ Attempts \in Nat \ {0} /\ NoPath \notin Paths
  BY DEF Slots, Sized
<1> HIDE DEF t
<1>4. CASE \A i \in 1..FailMax : t[i].path # p
  BY <1>1, <1>3, <1>4 DEF Tabled
<1>5. CASE \E i \in 1..FailMax : t[i].path = p
  <2>1. PICK i \in 1..FailMax : t[i].path = p
    BY <1>5
  <2>2. t[i].attempts \in Nat
    BY <1>1 DEF Entries
  <2>3. tries[p] <= (IF t[i].identity = art[p] THEN t[i].attempts ELSE 0)
    BY <1>1, <1>3, <2>1 DEF Tabled
  <2>4. t[i].attempts < Attempts
    BY <1>2, <2>1
  <2> QED BY <1>3, <2>2, <2>3, <2>4
<1> QED BY <1>4, <1>5

\* A failed decode is counted by the table and by the history alike.
LEMMA RememberTabled ==
    ASSUME Sized, Slots, Tabled(failures), NEW p \in Paths, NEW identity \in Nat,
           Remember(p, identity, FailureSlot(p)), art' = art,
           identity # art[p] => tries[p] = 0
    PROVE  Tabled(failures)'
PROOF
<1> DEFINE slot == FailureSlot(p)
<1>1. /\ slot \in 1..FailMax
      /\ failures' \in [1..FailMax -> Entries] /\ tries' \in [Paths -> Nat]
      /\ \A i \in 1..FailMax : i # slot => failures'[i] = failures[i]
      /\ failures'[slot].path = p /\ failures'[slot].identity = identity
      /\ failures'[slot].attempts =
            IF failures[slot].path = p /\ failures[slot].identity = identity
            THEN failures[slot].attempts + 1 ELSE 1
      /\ \A q \in Paths \ {p} : tries'[q] = IF failures[slot].path = q THEN 0 ELSE tries[q]
      /\ tries'[p] = IF identity = art[p] THEN tries[p] + 1 ELSE tries[p]
  BY RememberFacts
<1>2. SlotsOf(failures, p) # {} => failures[slot].path = p
  BY FailureSlotFacts
<1> HIDE DEF slot
<1>3. /\ failures \in [1..FailMax -> Entries] /\ tries \in [Paths -> Nat]
      /\ NoPath \notin Paths
  BY DEF Slots, Sized
<1>4. ASSUME NEW i \in 1..FailMax, failures[i].path = p
      PROVE  i = slot
  <2>1. failures[slot].path = p
    BY <1>2, <1>4 DEF SlotsOf
  <2> QED BY <1>1, <1>3, <1>4, <2>1 DEF Tabled
<1>5. \A i, j \in 1..FailMax :
         failures'[i].path = failures'[j].path /\ failures'[i].path # NoPath => i = j
  BY <1>1, <1>4 DEF Tabled
<1>6. ASSUME NEW q \in Paths, \A i \in 1..FailMax : failures'[i].path # q
      PROVE  tries'[q] = 0
  <2>1. q # p
    BY <1>1, <1>6
  <2>2. CASE failures[slot].path = q
    BY <1>1, <2>1, <2>2
  <2>3. CASE failures[slot].path # q
    <3>1. \A i \in 1..FailMax : failures[i].path # q
      BY <1>1, <1>6, <2>3
    <3> QED BY <1>1, <2>1, <2>3, <3>1 DEF Tabled
  <2> QED BY <2>2, <2>3
<1>7. tries'[p] <= (IF identity = art[p] THEN failures'[slot].attempts ELSE 0)
  <2>1. tries[p] \in Nat /\ failures[slot].attempts \in Nat
    BY <1>1, <1>3 DEF Entries
  <2>2. CASE failures[slot].path = p
    <3>1. tries[p] <= (IF failures[slot].identity = art[p] THEN failures[slot].attempts ELSE 0)
      BY <1>1, <1>3, <2>2 DEF Tabled
    <3>2. CASE identity # art[p]
      BY <1>1, <3>2
    <3>3. CASE identity = art[p] /\ failures[slot].identity = identity
      BY <1>1, <2>1, <2>2, <3>1, <3>3
    <3>4. CASE identity = art[p] /\ failures[slot].identity # identity
      BY <1>1, <2>1, <2>2, <3>1, <3>4
    <3> QED BY <3>2, <3>3, <3>4
  <2>3. CASE failures[slot].path # p
    <3>1. tries[p] = 0
      BY <1>2, <2>3 DEF SlotsOf, Tabled
    <3> QED BY <1>1, <2>3, <3>1
  <2> QED BY <2>2, <2>3
<1>8. ASSUME NEW i \in 1..FailMax, failures'[i].path # NoPath
      PROVE  tries'[failures'[i].path] <=
               (IF failures'[i].identity = art'[failures'[i].path] THEN failures'[i].attempts ELSE 0)
  <2>1. CASE i = slot
    BY <1>1, <1>7, <2>1
  <2>2. CASE i # slot
    <3> DEFINE q == failures[i].path
    <3>1. failures'[i] = failures[i] /\ q \in Paths \ {p}
      BY <1>1, <1>3, <1>4, <1>8, <2>2 DEF Entries
    <3>2. failures[slot].path # q
      BY <1>1, <2>2, <3>1, <1>8 DEF Tabled
    <3>3. tries'[q] = tries[q]
      BY <1>1, <3>1, <3>2
    <3> QED BY <1>8, <3>1, <3>3 DEF Tabled
  <2> QED BY <2>1, <2>2
<1> QED BY <1>5, <1>6, <1>8 DEF Tabled

LEMMA ForgetTabled ==
    ASSUME Sized, Slots, Tabled(failures), NEW p \in Paths, Forget(p), art' = art
    PROVE  Tabled(failures)'
PROOF
<1>1. /\ \A i \in 1..FailMax : failures'[i] = IF failures[i].path = p THEN Unused ELSE failures[i]
      /\ \A q \in Paths : tries'[q] = IF q = p THEN 0 ELSE tries[q]
  BY ForgetFacts
<1>2. Unused.path = NoPath /\ NoPath \notin Paths /\ \A i \in 1..FailMax : failures[i] \in Entries
  BY DEF Unused, Sized, Slots
<1>3. \A i \in 1..FailMax : failures'[i].path # NoPath =>
         failures'[i] = failures[i] /\ failures[i].path \in Paths \ {p}
  BY <1>1, <1>2 DEF Entries
<1>4. \A i \in 1..FailMax : failures'[i].path # NoPath =>
         /\ failures'[i] = failures[i] /\ tries'[failures'[i].path] = tries[failures[i].path]
  BY <1>1, <1>3
<1>5. ASSUME NEW q \in Paths, \A i \in 1..FailMax : failures'[i].path # q
      PROVE  tries'[q] = 0
  <2>1. CASE q = p
    BY <1>1, <2>1
  <2>2. CASE q # p
    <3>1. \A i \in 1..FailMax : failures[i].path # q
      BY <1>1, <1>5, <2>2
    <3> QED BY <1>1, <2>2, <3>1 DEF Tabled
  <2> QED BY <2>1, <2>2
<1> QED BY <1>4, <1>5 DEF Tabled

\* What a step leaves of the invariant that touches neither the table nor what
\* is to come.
LEMMA CountedSame ==
    ASSUME Counted, failures' = failures, tries' = tries, art' = art, request' = request,
           backlog' = backlog, worker' = worker
    PROVE  Counted'
PROOF
<1>1. Tabled(failures)'
  BY DEF Counted, Tabled
<1>2. \A p \in Paths : Pending(p)' = Pending(p)
  BY PendingSame
<1> QED BY <1>1, <1>2 DEF Counted

LEMMA CountedStep ==
    ASSUME Sized, Slots, Slots', NoneLost, Counted, Next
    PROVE  Counted'
PROOF
<1>0. /\ Tabled(failures) /\ tries \in [Paths -> Nat] /\ NoPath \notin Paths
      /\ Attempts \in Nat \ {0}
      /\ request # NoPath => request # worker.path
      /\ backlog \in Seq(Paths) /\ request \in Paths \cup {NoPath} /\ cursor \in Paths
      /\ \A i, j \in 1..Len(backlog) : backlog[i] = backlog[j] => i = j
      /\ \A p \in Paths : tries[p] + Pending(p) <= Attempts + 1
  BY DEF Counted, Slots, Sized
<1>1. CASE WorkerPicks
  <2>1. /\ failures' = failures /\ tries' = tries /\ art' = art /\ request' = NoPath
        /\ worker' = [Asleep EXCEPT !.step = "picked", !.asked = (request # NoPath),
                       !.path = IF request # NoPath THEN request ELSE Head(backlog)]
        /\ backlog' = IF request # NoPath THEN backlog ELSE Tail(backlog)
        /\ request = NoPath => backlog # <<>>
    BY <1>1 DEF WorkerPicks, Wanted
  <2>2. worker.path = NoPath
    BY <1>1 DEF WorkerPicks, Slots, Asleep
  <2>3. /\ worker'.step = "picked"
        /\ worker'.path = IF request # NoPath THEN request ELSE Head(backlog)
    BY <2>1 DEF Asleep
  <2>4. Tabled(failures)'
    BY <1>0, <2>1 DEF Tabled
  <2>5. CASE request # NoPath
    <3>1. ASSUME NEW p \in Paths
          PROVE  Pending(p)' = Pending(p)
      <4>1. Queued(p)' = Queued(p)
        BY <2>1, <2>5 DEF Queued
      <4>2. /\ One(request' = p) = 0 /\ One(worker.path = p) = 0
            /\ One(worker'.path = p) = One(request = p) /\ One(request = p) \in 0..1
            /\ One(Queued(p)) \in 0..1
        BY <1>0, <2>1, <2>2, <2>3, <2>5 DEF One
      <4> QED BY <4>1, <4>2, PendingIs, PendingIsNext
    <3> QED BY <1>0, <2>1, <2>3, <2>4, <2>5, <3>1 DEF Counted
  <2>6. CASE request = NoPath
    <3> DEFINE h == Head(backlog)
    <3>1. /\ backlog' \in Seq(Paths) /\ Len(backlog') = Len(backlog) - 1
          /\ \A i \in 1..Len(backlog') : backlog'[i] = backlog[i + 1]
          /\ Len(backlog) \in Nat \ {0} /\ h = backlog[1] /\ worker'.path = h
      BY <1>0, <2>1, <2>3, <2>6, HeadTailProperties
    <3> HIDE DEF h
    <3>2. \A i, j \in 1..Len(backlog') : backlog'[i] = backlog'[j] => i = j
      <4> SUFFICES ASSUME NEW i \in 1..Len(backlog'), NEW j \in 1..Len(backlog'),
                          backlog'[i] = backlog'[j]
                   PROVE  i = j
        OBVIOUS
      <4>1. i + 1 \in 1..Len(backlog) /\ j + 1 \in 1..Len(backlog)
        BY <3>1
      <4>2. backlog[i + 1] = backlog[j + 1]
        BY <3>1
      <4>3. i + 1 = j + 1
        BY <1>0, <4>1, <4>2
      <4> QED BY <3>1, <4>3
    <3>3. ASSUME NEW p \in Paths
          PROVE  Pending(p)' <= Pending(p) /\ Pending(p)' \in Nat /\ Pending(p) \in Nat
      <4>1. Queued(p)' => Queued(p) /\ p # h
        <5>1. ASSUME NEW i \in 1..Len(backlog'), backlog'[i] = p
              PROVE  Queued(p) /\ p # h
          <6>1. i + 1 \in 1..Len(backlog) /\ 1 \in 1..Len(backlog) /\ i + 1 # 1
            BY <3>1
          <6>2. backlog[i + 1] = p
            BY <3>1, <5>1
          <6> QED BY <1>0, <3>1, <6>1, <6>2 DEF Queued
        <5> QED BY <5>1 DEF Queued
      <4>2. CASE p # h
        BY <2>1, <2>6, <3>1, <4>1, <4>2, PendingFalls
      <4>3. CASE p = h
        <5>1. Queued(p) /\ ~Queued(p)'
          BY <3>1, <4>1, <4>3 DEF Queued
        <5>2. /\ One(request' = p) = 0 /\ One(request = p) = 0 /\ One(worker.path = p) = 0
              /\ One(Queued(p)) = 1 /\ One(Queued(p)') = 0 /\ One(worker'.path = p) = 1
          BY <1>0, <2>1, <2>2, <2>6, <3>1, <4>3, <5>1 DEF One
        <5> QED BY <5>2, PendingIs, PendingIsNext
      <4> QED BY <4>2, <4>3
    <3>4. \A p \in Paths : tries'[p] + Pending(p)' <= Attempts + 1
      BY <1>0, <2>1, <3>3
    <3> QED BY <2>1, <2>3, <2>4, <3>2, <3>4 DEF Counted
  <2> QED BY <2>5, <2>6
<1>2. CASE WorkerLooks
  <2>1. /\ worker \in Jobs
        /\ worker' = [worker EXCEPT !.step = "looked", !.identity = art[worker.path]]
        /\ failures' = failures /\ tries' = tries /\ art' = art /\ request' = request
        /\ backlog' = backlog
    BY <1>2 DEF WorkerLooks, Slots
  <2>2. worker'.path = worker.path /\ worker'.identity = art[worker.path]
    BY <2>1 DEF Jobs
  <2>3. \A p \in Paths : Pending(p)' = Pending(p)
    BY <2>1, <2>2, PendingSame
  <2>4. Tabled(failures)'
    BY <1>0, <2>1 DEF Tabled
  <2> QED BY <1>0, <2>1, <2>2, <2>3, <2>4 DEF Counted
<1>3. CASE WorkerDecodes
  <2>1. /\ worker \in Jobs /\ worker.step = "looked"
        /\ failures' = failures /\ tries' = tries /\ art' = art /\ request' = request
        /\ backlog' = backlog
    BY <1>3 DEF WorkerDecodes, Slots
  <2>2. worker'.path = worker.path /\ worker'.identity = worker.identity
    BY <1>3, <2>1 DEF WorkerDecodes, Jobs
  <2>3. \A p \in Paths : Pending(p)' = Pending(p)
    BY <2>1, <2>2, PendingSame
  <2>4. Tabled(failures)'
    BY <1>0, <2>1 DEF Tabled
  <2>5. worker'.identity # art'[worker'.path] => tries'[worker'.path] = 0
    BY <2>1, <2>2 DEF Counted
  <2> QED BY <1>0, <2>1, <2>2, <2>3, <2>4, <2>5 DEF Counted
<1>4. CASE WorkerFinishes
  <2> DEFINE p == worker.path
  <2>1. /\ worker.step = "decoded" /\ worker \in Jobs /\ p \in Paths
        /\ worker' = Asleep /\ request' = request /\ backlog' = backlog /\ art' = art
        /\ IF worker.surface # 0 THEN Forget(p)
           ELSE Remember(p, worker.identity, FailureSlot(p))
    BY <1>4 DEF WorkerFinishes, Slots
  <2>2. worker.identity \in Nat /\ (worker.identity # art[p] => tries[p] = 0)
    BY <2>1 DEF Counted, Jobs
  <2>3. worker'.path = NoPath /\ worker'.step = "idle"
    BY <2>1 DEF Asleep
  <2> HIDE DEF p
  <2>4. /\ Tabled(failures)'
        /\ tries' \in [Paths -> Nat] /\ tries'[p] <= tries[p] + 1
        /\ \A q \in Paths \ {p} : tries'[q] <= tries[q]
    <3>1. CASE worker.surface # 0
      <4>1. /\ Tabled(failures)' /\ tries' \in [Paths -> Nat]
            /\ \A q \in Paths : tries'[q] = IF q = p THEN 0 ELSE tries[q]
        BY <1>0, <2>1, <3>1, ForgetFacts, ForgetTabled
      <4> QED BY <1>0, <2>1, <4>1
    <3>2. CASE worker.surface = 0
      <4>1. Remember(p, worker.identity, FailureSlot(p))
        BY <2>1, <3>2
      <4>2. /\ tries' \in [Paths -> Nat]
            /\ \A q \in Paths \ {p} : tries'[q] \in {0, tries[q]}
            /\ tries'[p] \in {tries[p], tries[p] + 1}
        BY <2>1, <2>2, <4>1, RememberFacts
      <4>3. Tabled(failures)'
        BY <1>0, <2>1, <2>2, <4>1, RememberTabled
      <4> QED BY <1>0, <2>1, <4>2, <4>3, SMTT(30)
    <3> QED BY <3>1, <3>2
  <2>5. ASSUME NEW q \in Paths
        PROVE  tries'[q] + Pending(q)' <= Attempts + 1
    <3>1. /\ Pending(q)' <= Pending(q) /\ Pending(q)' \in Nat /\ Pending(q) \in Nat
      <4>1. Queued(q)' = Queued(q)
        BY <2>1 DEF Queued
      <4> QED BY <1>0, <2>1, <2>3, <4>1, PendingFalls
    <3>2. CASE q # p
      BY <1>0, <2>4, <3>1, <3>2
    <3>3. CASE q = p
      <4>1. Queued(q)' = Queued(q) /\ One(Queued(q)) \in 0..1 /\ One(request = q) \in 0..1
        BY <2>1 DEF Queued, One
      <4>2. One(worker.path = q) = 1 /\ One(worker'.path = q) = 0
        BY <1>0, <2>1, <2>3, <3>3 DEF One, p
      <4>3. Pending(q)' + 1 = Pending(q)
        BY <2>1, <4>1, <4>2, PendingIs, PendingIsNext
      <4> QED BY <1>0, <2>4, <3>1, <3>3, <4>3
    <3> QED BY <3>2, <3>3
  <2> QED BY <1>0, <2>1, <2>3, <2>4, <2>5 DEF Counted
<1>5. CASE Start \/ AdoptCatalog
  BY <1>5, CountedSame DEF Start, AdoptCatalog
<1>6. CASE DecodeInline
  <2> DEFINE table == Rechecked(cursor)
  <2>1. /\ request' = request /\ backlog' = backlog /\ worker' = worker /\ art' = art
        /\ request = NoPath /\ backlog = <<>> /\ worker = Asleep
    BY <1>6 DEF DecodeInline, Slots
  <2>2. worker.path = NoPath /\ worker.step = "idle"
    BY <2>1 DEF Asleep
  <2>3. \A p \in Paths : Pending(p)' = 0
    <3>1. \A p \in Paths : ~Queued(p)
      BY <2>1 DEF Queued
    <3>2. \A p \in Paths : Pending(p) = 0
      BY <1>0, <2>1, <2>2, <3>1, PendingAtMostTwo
    <3> QED BY <2>1, <3>2, PendingSame
  <2>4. /\ Tabled(failures)' /\ tries' \in [Paths -> Nat]
        /\ \A p \in Paths : tries'[p] <= Attempts + 1
    <3>1. \A p \in Paths : tries[p] <= Attempts + 1
      <4>1. \A p \in Paths : Pending(p) \in Nat
        BY <1>0, PendingAtMostTwo
      <4> QED BY <1>0, <4>1
    <3>2. CASE failures' = table /\ UNCHANGED tries
      <4>1. Tabled(table)
        BY <1>0, RecheckedTabled
      <4>2. Tabled(failures)'
        BY <2>1, <3>2, <4>1 DEF Tabled
      <4> QED BY <1>0, <3>1, <3>2, <4>2
    <3>3. CASE ~Blocked(table, cursor) /\ Remember(cursor, art[cursor], FailureSlot(cursor))
      <4>1. tries[cursor] < Attempts
        BY <1>0, <3>3, Admitted
      <4>2. art[cursor] \in Nat
        BY <1>0 DEF Slots, Versions
      <4>3. /\ tries' \in [Paths -> Nat]
            /\ \A q \in Paths \ {cursor} : tries'[q] \in {0, tries[q]}
            /\ tries'[cursor] = tries[cursor] + 1
        BY <1>0, <3>3, <4>2, RememberFacts
      <4>4. Tabled(failures)'
        BY <1>0, <2>1, <3>3, <4>2, RememberTabled
      <4>5. ASSUME NEW q \in Paths
            PROVE  tries'[q] <= Attempts + 1
        <5>1. CASE q = cursor
          BY <1>0, <4>1, <4>3, <5>1
        <5>2. CASE q # cursor
          BY <1>0, <3>1, <4>3, <5>2, SMTT(30)
        <5> QED BY <5>1, <5>2
      <4> QED BY <4>3, <4>4, <4>5
    <3> QED BY <1>6, <3>2, <3>3 DEF DecodeInline
  <2>5. \A p \in Paths : tries'[p] + Pending(p)' <= Attempts + 1
    BY <2>3, <2>4
  <2> QED BY <1>0, <2>1, <2>2, <2>4, <2>5 DEF Counted
<1>7. CASE Take
  <2> DEFINE table == Rechecked(cursor)
  <2>1. backlog' = backlog /\ worker' = worker /\ art' = art /\ tries' = tries
    BY <1>7 DEF Take
  <2>2. CASE done.path = cursor
    BY <1>7, <2>1, <2>2, CountedSame DEF Take
  <2>3. CASE done.path # cursor
    <3>1. /\ failures' = table
          /\ request' = IF Blocked(table, cursor) \/ cursor \in {request, worker.path}
                        THEN request ELSE cursor
      BY <1>7, <2>3 DEF Take
    <3>2. Tabled(table)
      BY <1>0, RecheckedTabled
    <3>3. Tabled(failures)'
      BY <2>1, <3>1, <3>2 DEF Tabled
    <3>4. ASSUME NEW p \in Paths
          PROVE  tries'[p] + Pending(p)' <= Attempts + 1
      <4>1. CASE request' = request
        BY <1>0, <2>1, <4>1, PendingSame
      <4>2. CASE request' # request
        <5>1. /\ ~Blocked(table, cursor) /\ request' = cursor
              /\ request # cursor /\ worker.path # cursor
          BY <3>1, <4>2
        <5>2. CASE p # cursor
          <6>1. Queued(p)' = Queued(p)
            BY <2>1 DEF Queued
          <6>2. Pending(p)' <= Pending(p) /\ Pending(p)' \in Nat /\ Pending(p) \in Nat
            BY <2>1, <5>1, <5>2, <6>1, PendingFalls
          <6> QED BY <1>0, <2>1, <6>2
        <5>3. CASE p = cursor
          <6>1. tries[p] < Attempts
            BY <1>0, <5>1, <5>3, Admitted
          <6>2. One(request' = p) = 1 /\ One(worker'.path = p) = 0 /\ One(Queued(p)') \in 0..1
            BY <2>1, <5>1, <5>3 DEF One
          <6>3. Pending(p)' \in 1..2
            BY <6>2, PendingIsNext
          <6> QED BY <1>0, <2>1, <6>1, <6>3
        <5> QED BY <5>2, <5>3
      <4> QED BY <4>1, <4>2
    <3>5. request' # NoPath => request' # worker'.path
      BY <1>0, <2>1, <3>1
    <3> QED BY <1>0, <2>1, <3>3, <3>4, <3>5 DEF Counted
  <2> QED BY <2>2, <2>3
<1>8. CASE Rescan \/ CatalogAdopted
  <2>1. /\ failures' = [i \in 1..FailMax |-> Unused] /\ tries' = NoTries
        /\ worker' = worker /\ art' = art
        /\ \/ request' = request /\ backlog' = backlog
           \/ request' = NoPath /\ backlog' = <<>>
    BY <1>8 DEF Rescan, CatalogAdopted
  <2>2. Unused.path = NoPath /\ \A p \in Paths : tries'[p] = 0
    BY <2>1 DEF Unused, NoTries
  <2>3. Tabled(failures)'
    BY <2>1, <2>2 DEF Tabled
  <2>4. /\ request' # NoPath => request' # worker'.path
        /\ \A i, j \in 1..Len(backlog') : backlog'[i] = backlog'[j] => i = j
    BY <1>0, <2>1
  <2>5. ASSUME NEW p \in Paths
        PROVE  tries'[p] + Pending(p)' <= Attempts + 1
    <3>1. Pending(p) \in 0..2
      BY <1>0, PendingAtMostTwo
    <3>2. Queued(p)' => Queued(p)
      BY <2>1 DEF Queued
    <3>3. Pending(p)' <= Pending(p) /\ Pending(p)' \in Nat
      BY <1>0, <2>1, <3>2, PendingFalls
    <3> QED BY <1>0, <2>2, <3>1, <3>3
  <2>6. worker'.step \in {"looked", "decoded"} => tries'[worker'.path] = 0
    BY <2>1, <2>2 DEF Slots
  <2> QED BY <2>3, <2>4, <2>5, <2>6 DEF Counted
<1>9. ASSUME NEW p \in Paths, Poll(p)
      PROVE  Counted'
  <2>1. /\ request' = request /\ backlog' = backlog /\ worker' = worker /\ art' = art
        /\ tries' = tries /\ failures' \in {failures, Rechecked(p)}
    BY <1>9 DEF Poll
  <2>2. Tabled(Rechecked(p))
    BY <1>0, RecheckedTabled
  <2>3. Tabled(failures)'
    BY <1>0, <2>1, <2>2 DEF Tabled
  <2>4. \A q \in Paths : Pending(q)' = Pending(q)
    BY <2>1, PendingSame
  <2> QED BY <2>1, <2>3, <2>4 DEF Counted
<1>10. ASSUME NEW p \in Paths, Enqueue(p)
       PROVE  Counted'
  <2> DEFINE table == Rechecked(p)
  <2>1. /\ request' = request /\ worker' = worker /\ art' = art
        /\ tries' = tries /\ failures' = table
    BY <1>10 DEF Enqueue
  <2>2. Tabled(table)
    BY <1>0, RecheckedTabled
  <2>3. Tabled(failures)'
    BY <2>1, <2>2 DEF Tabled
  <2>4. CASE backlog' = backlog
    <3>1. \A q \in Paths : Pending(q)' = Pending(q)
      BY <2>1, <2>4, PendingSame
    <3> QED BY <2>1, <2>3, <2>4, <3>1 DEF Counted
  <2>5. CASE backlog' # backlog
    <3>1. /\ backlog' = Append(backlog, p) /\ ~Blocked(table, p)
          /\ p \notin {request, worker.path} \cup ToSet(backlog)
      BY <1>10, <2>5 DEF Enqueue
    <3>2. /\ Len(backlog') = Len(backlog) + 1 /\ Len(backlog) \in Nat
          /\ \A i \in 1..Len(backlog) : backlog'[i] = backlog[i]
          /\ backlog'[Len(backlog) + 1] = p
      BY <1>0, <3>1, AppendProperties
    <3>3. \A i \in 1..Len(backlog) : backlog[i] # p
      BY <1>0, <3>1 DEF ToSet
    <3>4. \A i \in 1..Len(backlog') : i \in 1..Len(backlog) \/ i = Len(backlog) + 1
      BY <3>2
    <3>5. \A i, j \in 1..Len(backlog') : backlog'[i] = backlog'[j] => i = j
      BY <1>0, <3>2, <3>3, <3>4
    <3>6. ASSUME NEW q \in Paths
          PROVE  tries'[q] + Pending(q)' <= Attempts + 1
      <4>1. CASE q # p
        <5>1. Queued(q)' => Queued(q)
          BY <3>2, <3>4, <4>1 DEF Queued
        <5>2. Pending(q)' <= Pending(q) /\ Pending(q)' \in Nat /\ Pending(q) \in Nat
          BY <2>1, <5>1, PendingFalls
        <5> QED BY <1>0, <2>1, <5>2
      <4>2. CASE q = p
        <5>1. tries[p] < Attempts
          BY <1>0, <3>1, Admitted
        <5>2. One(request' = p) = 0 /\ One(worker'.path = p) = 0 /\ One(Queued(p)') \in 0..1
          BY <2>1, <3>1 DEF One
        <5>3. Pending(p)' \in 0..1
          BY <5>2, PendingIsNext
        <5> QED BY <1>0, <2>1, <4>2, <5>1, <5>3
      <4> QED BY <4>1, <4>2
    <3> QED BY <2>1, <2>3, <3>5, <3>6 DEF Counted
  <2> QED BY <2>4, <2>5
<1>11. ASSUME NEW p \in Paths, MoveCursor(p)
       PROVE  Counted'
  BY <1>11, CountedSame DEF MoveCursor
<1>12. ASSUME NEW p \in Paths, Replace(p)
       PROVE  Counted'
  <2>1. /\ request' = request /\ backlog' = backlog /\ worker' = worker /\ failures' = failures
        /\ art' = [art EXCEPT ![p] = @ + 1] /\ tries' = [tries EXCEPT ![p] = 0]
    BY <1>12 DEF Replace
  <2>2. /\ \A q \in Paths \ {p} : tries'[q] = tries[q] /\ art'[q] = art[q]
        /\ tries'[p] = 0
    BY <1>0, <2>1 DEF Slots, Versions
  <2>3. \A i \in 1..FailMax : failures[i].attempts \in Nat /\ failures[i].path \in Paths \cup {NoPath}
    BY DEF Slots, Entries
  <2>4. Tabled(failures)'
    BY <1>0, <2>1, <2>2, <2>3 DEF Tabled
  <2>5. ASSUME NEW q \in Paths
        PROVE  tries'[q] + Pending(q)' <= Attempts + 1
    <3>1. Pending(q) \in 0..2 /\ Pending(q)' = Pending(q)
      BY <1>0, <2>1, PendingAtMostTwo, PendingSame
    <3>2. CASE q = p
      BY <1>0, <2>2, <3>1, <3>2
    <3>3. CASE q # p
      BY <1>0, <2>2, <3>1, <3>3
    <3> QED BY <3>2, <3>3
  <2>6. worker'.step \in {"looked", "decoded"} /\ worker'.identity # art'[worker'.path]
          => tries'[worker'.path] = 0
    <3>1. CASE worker.path = p
      BY <2>1, <2>2, <3>1
    <3>2. CASE worker.path # p
      BY <2>1, <2>2, <3>2 DEF Counted, Slots
    <3> QED BY <3>1, <3>2
  <2> QED BY <1>0, <2>1, <2>4, <2>5, <2>6 DEF Counted
<1>13. ASSUME NEW i \in 1..FailMax, NEW due \in BOOLEAN, Elapse(i, due)
       PROVE  Counted'
  <2>1. /\ request' = request /\ backlog' = backlog /\ worker' = worker /\ art' = art
        /\ tries' = tries
    BY <1>13 DEF Elapse
  <2>2. failures' = [failures EXCEPT ![i] = [failures[i] EXCEPT !.stale = TRUE, !.due = @ \/ due]]
    BY <1>13 DEF Elapse, Slots
  <2>3. failures[i] \in Entries
    BY DEF Slots
  <2>4. \A j \in 1..FailMax :
           /\ failures'[j].path = failures[j].path /\ failures'[j].identity = failures[j].identity
           /\ failures'[j].attempts = failures[j].attempts
    BY <2>2, <2>3 DEF Slots, Entries
  <2>5. Tabled(failures)'
    <3>1. \A j, k \in 1..FailMax :
             failures'[j].path = failures'[k].path /\ failures'[j].path # NoPath => j = k
      BY <1>0, <2>4 DEF Tabled
    <3>2. \A q \in Paths : (\A j \in 1..FailMax : failures'[j].path # q) => tries[q] = 0
      BY <1>0, <2>4 DEF Tabled
    <3>3. ASSUME NEW j \in 1..FailMax, failures'[j].path # NoPath
          PROVE  tries[failures'[j].path] <=
                   (IF failures'[j].identity = art[failures'[j].path] THEN failures'[j].attempts ELSE 0)
      BY <1>0, <2>4, <3>3 DEF Tabled
    <3> QED BY <2>1, <3>1, <3>2, <3>3 DEF Tabled
  <2>6. \A q \in Paths : Pending(q)' = Pending(q)
    BY <2>1, PendingSame
  <2> QED BY <2>1, <2>5, <2>6 DEF Counted
<1> QED BY <1>1, <1>2, <1>3, <1>4, <1>5, <1>6, <1>7, <1>8, <1>9, <1>10, <1>11, <1>12, <1>13
        DEF Next, Work

-----------------------------------------------------------------------------
(* The theorems *)

CoverInv == Slots /\ NoneLost /\ Current /\ Counted

LEMMA InitCover ==
    ASSUME Sized, Init
    PROVE  CoverInv
PROOF
<1> USE DEF Init
<1>1. Unused \in Entries /\ Unused.path = NoPath /\ Nothing \in Finished /\ Asleep \in Jobs
  BY DEF Unused, Entries, Nothing, Finished, Asleep, Jobs
<1>2. /\ Nothing.path = NoPath /\ Nothing.surface = 0 /\ NoPath \notin Paths
      /\ Asleep.step = "idle" /\ Asleep.surface = 0 /\ Asleep.path = NoPath
  BY DEF Nothing, Asleep, Sized
<1>3. Slots
  <2>1. Attempts \in Nat /\ HandbackMax \in Nat /\ 1 \in 1..FailMax
    BY DEF Sized
  <2>2. /\ failures \in [1..FailMax -> Entries] /\ art \in Versions /\ floor \in Versions
        /\ cached \in [Paths -> Nat] /\ tries \in [Paths -> Nat]
    BY <1>1 DEF Versions, NoTries
  <2>3. backlog \in Seq(Paths) /\ handback \in Seq(Covers) /\ Len(handback) = 0
    OBVIOUS
  <2>4. /\ worker = Asleep /\ done = Nothing /\ request = NoPath /\ backlog = <<>>
        /\ handback = <<>> /\ started = FALSE /\ stopping = FALSE /\ failNext = 1 /\ cursor \in Paths
    OBVIOUS
  <2> HIDE DEF Init
  <2>5. Len(handback) <= HandbackMax
    BY <2>1, <2>3
  <2>6. /\ request \in Paths \cup {NoPath} /\ worker \in Jobs /\ done \in Finished
        /\ failNext \in 1..FailMax /\ cursor \in Paths
    BY <1>1, <2>1, <2>4
  <2>7. /\ IF worker.step = "idle" THEN worker = Asleep ELSE worker.path \in Paths
        /\ worker.surface # 0 => worker.step = "decoded"
        /\ done.path \in Paths <=> done.surface # 0
    BY <1>2, <2>4
  <2> QED BY <2>2, <2>3, <2>4, <2>5, <2>6, <2>7 DEF Slots
<1>4. NoneLost
  BY <1>2, HeldFacts, NoneLostIs
<1>5. Current
  BY <1>2 DEF Current
<1>6. Counted
  <2>1. Tabled(failures)
    BY <1>1 DEF Tabled, NoTries
  <2>2. request # NoPath => request # worker.path
    OBVIOUS
  <2>3. \A p \in Paths : tries[p] = 0 /\ Pending(p) \in 0..2
    BY <2>2, PendingAtMostTwo DEF NoTries
  <2> QED BY <1>2, <2>1, <2>2, <2>3 DEF Counted, Sized
<1> QED BY <1>3, <1>4, <1>5, <1>6 DEF CoverInv

LEMMA CoverStep ==
    ASSUME Sized, CoverInv, [Next]_coverVars
    PROVE  CoverInv'
PROOF
<1>1. CASE Next
  BY <1>1, SlotsStep, CurrentStep, CountedStep DEF CoverInv
<1>2. CASE UNCHANGED coverVars
  <2>1. Slots' /\ NoneLost' /\ Current'
    BY <1>2 DEF coverVars, CoverInv, Slots, NoneLost, Current
  <2>2. Counted'
    BY <1>2, CountedSame DEF coverVars, CoverInv
  <2> QED BY <2>1, <2>2 DEF CoverInv
<1> QED BY <1>1, <1>2

\* For every number of files, every capacity of the rings and every limit of
\* attempts: every decoded surface is owned by exactly one of the done slot,
\* the handback ring and the worker (jw__cover_loader_thread,
\* jw_cover_loader_take and jw_cover_loader_poll).
THEOREM NoSurfaceLost == Sized => (CoverSpec => []NoneLost)
PROOF
<1>1. ASSUME Sized
      PROVE  CoverSpec => []NoneLost
  <2>1. Init => CoverInv
    BY <1>1, InitCover
  <2>2. CoverInv /\ [Next]_coverVars => CoverInv'
    BY <1>1, CoverStep
  <2>3. CoverInv => NoneLost
    BY DEF CoverInv
  <2> QED BY <2>1, <2>2, <2>3, PTL DEF CoverSpec
<1> QED BY <1>1

\* For every number of files and every limit of attempts: a file that does not
\* decode is tried at most once more than JW_COVER_FAIL_ATTEMPTS.  It may wait in
\* the request slot and in the backlog at once, since jw_cover_loader_take does
\* not look at the backlog, and the attempts are counted only when one of them is
\* done; so the documented limit itself is no theorem (DecodedAtMost).
THEOREM DecodesAreBounded == Sized => (CoverSpec => []RetriesBounded)
PROOF
<1>1. ASSUME Sized
      PROVE  CoverSpec => []RetriesBounded
  <2>1. Init => CoverInv
    BY <1>1, InitCover
  <2>2. CoverInv /\ [Next]_coverVars => CoverInv'
    BY <1>1, CoverStep
  <2>3. CoverInv => RetriesBounded
    <3> SUFFICES ASSUME CoverInv, NEW p \in Paths
                 PROVE  tries[p] <= Attempts + 1
      BY DEF RetriesBounded
    <3>1. Pending(p) \in 0..2 /\ tries[p] \in Nat /\ tries[p] + Pending(p) <= Attempts + 1
      BY <1>1, PendingAtMostTwo DEF CoverInv, Counted, Slots
    <3> QED BY <1>1, <3>1 DEF Sized
  <2> QED BY <2>1, <2>2, <2>3, PTL DEF CoverSpec
<1> QED BY <1>1

\* For every number of files and every capacity: once a catalog with changed
\* artwork was adopted, no texture shown, and no surface on its way to one, was
\* decoded from an older file, whatever the worker was doing when the launcher
\* shut it down.
THEOREM CatalogIsCurrent == Sized => (CoverSpec => []NoneOutlivesCatalog)
PROOF
<1>1. ASSUME Sized
      PROVE  CoverSpec => []NoneOutlivesCatalog
  <2>1. Init => CoverInv
    BY <1>1, InitCover
  <2>2. CoverInv /\ [Next]_coverVars => CoverInv'
    BY <1>1, CoverStep
  <2>3. CoverInv => NoneOutlivesCatalog
    BY DEF CoverInv, Current, NoneOutlivesCatalog
  <2> QED BY <2>1, <2>2, <2>3, PTL DEF CoverSpec
<1> QED BY <1>1
===============================================================================
