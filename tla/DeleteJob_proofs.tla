--------------------------- MODULE DeleteJob_proofs ---------------------------
(***************************************************************************)
(* The safety of deleting a game, for every set of cards, every game and   *)
(* any number of exchanges of the card.                                    *)
(*                                                                         *)
(* The job looks at the card, the library and the approval at several      *)
(* moments, and each may change in between.  IInv says what the earlier    *)
(* look still vouches for: while files are removed, the rows are those of  *)
(* the approved card, and that card has what was approved less what has    *)
(* an outcome.                                                             *)
(***************************************************************************)
EXTENDS DeleteJob, TLAPS

Assumed ==
    /\ MaxEvents \in Nat
    /\ Order \in Seq(Files) /\ Order # <<>>
    /\ \A i, j \in 1..Len(Order) : Order[i] = Order[j] => i = j

\* The plan of a job with the digest g, and its first n files.
PlanOf(g) == IF Launch \in g.files THEN Order ELSE <<Launch>>
First(g, n) == {PlanOf(g)[i] : i \in 1..n}

\* Between Build and the clean-up, what was looked at holds.
Vouched ==
    job.stage \in {"remove", "commit"} =>
        /\ job.digest.card \in Cards /\ rowsOf = job.digest.card
        /\ job.done \in 0..Len(PlanOf(job.digest))
        /\ Launch \notin job.digest.files => job.digest.files = {}
        /\ disk[rowsOf] = job.digest.files \ First(job.digest, job.done)
        /\ orphans \/ listed \subseteq job.digest.files

Whole == \A c \in Cards : Launch \notin disk[c] => disk[c] = {}

\* A job starts with no outcome, and removes files until the last has one.
Left ==
    /\ job.stage = "build" => job.done = 0
    /\ job.stage = "remove" => job.done < Len(PlanOf(job.digest))

Rows == job.stage \in {"remove", "commit"} \/ orphans \/ listed \subseteq disk[rowsOf]

\* Jobs and scans exclude each other.
Apart ==
    /\ Busy => scan = "idle"
    /\ tick = "free" => ~Busy
    /\ again => scan # "idle"

\* Whoever has changed the library will tell, if it did not.
Telling ==
    \/ told
    \/ job.stage = "publish" /\ job.done > 0
    \/ job.stage = "over" /\ job.changed
    \/ scan = "completed"

IInv == TypeOK /\ Vouched /\ Whole /\ Left /\ Rows /\ Apart /\ Telling

-----------------------------------------------------------------------------
(* The plan *)

LEMMA OrderFacts ==
    ASSUME Assumed
    PROVE  /\ Len(Order) \in Nat \ {0} /\ Launch \in Files
           /\ \A i \in 1..Len(Order) : Order[i] \in Files
           /\ \A i \in 1..Len(Order) : Order[i] = Launch => i = Len(Order)
PROOF
<1>1. Len(Order) \in Nat \ {0} /\ Len(Order) \in 1..Len(Order)
  BY DEF Assumed
<1> QED BY <1>1 DEF Assumed, Launch, Files

\* The launch file is the last of the plan, and all that is left is in it.
LEMMA PlanFacts ==
    ASSUME Assumed, NEW g
    PROVE  /\ Len(PlanOf(g)) \in 1..Len(Order)
           /\ \A n \in 1..Len(PlanOf(g)) :
                 /\ PlanOf(g)[n] \in Files
                 /\ PlanOf(g)[n] = Launch => n = Len(PlanOf(g))
           /\ Launch \in g.files => First(g, Len(PlanOf(g))) = Files
           /\ First(g, 0) = {}
           /\ \A n \in Nat : First(g, n + 1) = First(g, n) \cup {PlanOf(g)[n + 1]}
PROOF
<1>1. CASE Launch \in g.files
  BY <1>1, OrderFacts DEF PlanOf, First, Files
<1>2. CASE Launch \notin g.files
  <2>1. PlanOf(g) = <<Launch>> /\ Len(<<Launch>>) = 1 /\ <<Launch>>[1] = Launch
    BY <1>2 DEF PlanOf
  <2> QED BY <1>2, <2>1, OrderFacts DEF First
<1> QED BY <1>1, <1>2

LEMMA JobFacts ==
    ASSUME Assumed, TypeOK, job.stage # "none"
    PROVE  /\ job \in Jobs /\ Plan = PlanOf(job.digest)
           /\ Outcomes = First(job.digest, job.done)
PROOF BY DEF TypeOK, NoJob, Plan, PlanOf, Outcomes, First

-----------------------------------------------------------------------------
(* The thread of the job *)

\* What no step of the job's thread touches.
Others == <<inserted, rowsOf, approved, owner, tick, scan, again, deferred, events>>

\* A step of the thread keeps the jobs and scans apart.
LEMMA WorkerFacts ==
    ASSUME Assumed, IInv, NEW j \in Jobs, job.stage \notin {"none", "over"}, job' = j,
           disk' \in [Cards -> SUBSET Files], listed' \subseteq Files,
           told' \in BOOLEAN, orphans' \in BOOLEAN, UNCHANGED Others
    PROVE  TypeOK' /\ Apart'
PROOF
<1>1. /\ inserted' \in Cards /\ rowsOf' \in Cards /\ approved' \in Digests
      /\ tick' \in {"idle", "busy", "free"}
      /\ scan' \in {"idle", "running", "completed", "failed"} /\ events' \in 0..MaxEvents
  BY DEF IInv, TypeOK, Others
<1>2. {owner', again', deferred', told', orphans'} \subseteq BOOLEAN
  BY DEF IInv, TypeOK, Others
<1>3. TypeOK'
  BY <1>1, <1>2 DEF TypeOK
<1>4. Apart'
  BY DEF IInv, Apart, Busy, Others
<1> QED BY <1>3, <1>4

\* The plan made again is the approved one, of the card whose rows these are.
LEMMA BuildStep ==
    ASSUME Assumed, IInv, Build, UNCHANGED Others
    PROVE  IInv'
PROOF
<1> DEFINE g == job.digest
<1>1. job \in Jobs /\ job.stage = "build" /\ job.done = 0
  BY JobFacts DEF Build, IInv, Left
<1>2. UNCHANGED <<disk, listed, told, orphans, inserted, rowsOf, scan>>
  BY DEF Build, Others
<1>3. disk \in [Cards -> SUBSET Files] /\ inserted \in Cards /\ listed \subseteq Files
      /\ told \in BOOLEAN /\ orphans \in BOOLEAN
  BY DEF IInv, TypeOK
<1>4. CASE job' = [job EXCEPT !.stage = "publish"]
  <2>1. job' \in Jobs /\ job'.stage = "publish"
    BY <1>1, <1>4 DEF Jobs
  <2>2. TypeOK' /\ Apart'
    BY <1>1, <1>2, <1>3, <2>1, WorkerFacts
  <2>3. Vouched' /\ Whole' /\ Left' /\ Rows' /\ Telling'
    BY <1>1, <1>2, <2>1 DEF IInv, Vouched, Whole, Left, Rows, Telling
  <2> QED BY <2>2, <2>3 DEF IInv
<1>5. CASE Buildable /\ Digest = g /\ job' = [job EXCEPT !.stage = "remove"]
  <2>1. job' \in Jobs /\ job'.stage = "remove" /\ job'.digest = g /\ job'.done = 0
    BY <1>1, <1>5 DEF Jobs
  <2>2. TypeOK' /\ Apart'
    BY <1>1, <1>2, <1>3, <2>1, WorkerFacts
  <2>3. g.card = inserted /\ g.files = disk[inserted] /\ inserted = rowsOf
    BY <1>5 DEF Buildable, Digest
  <2>4. Launch \notin g.files => g.files = {}
    BY <1>3, <2>3 DEF IInv, Whole
  <2>5. orphans \/ listed \subseteq g.files
    BY <1>1, <2>3 DEF IInv, Rows
  <2>6. First(g, 0) = {} /\ Len(PlanOf(g)) \in 1..Len(Order) /\ Len(Order) \in Nat
    BY PlanFacts, OrderFacts
  <2> HIDE DEF g
  <2>7. Vouched' /\ Left'
    BY <1>2, <1>3, <2>1, <2>3, <2>4, <2>5, <2>6 DEF Vouched, Left
  <2>8. Whole' /\ Rows' /\ Telling'
    BY <1>1, <1>2, <2>1 DEF IInv, Whole, Rows, Telling
  <2> QED BY <2>2, <2>7, <2>8 DEF IInv
<1> QED BY <1>4, <1>5 DEF Build

\* What is removed is the next file of the plan, from the approved card.
LEMMA RemoveStep ==
    ASSUME Assumed, IInv, Remove, UNCHANGED Others
    PROVE  /\ IInv'
           /\ \A c \in Cards : disk[c] \ disk'[c] \subseteq
                 IF job.digest.card = c THEN job.digest.files ELSE {}
PROOF
<1> DEFINE g == job.digest
           n == job.done
           p == PlanOf(g)[n + 1]
<1>1. job \in Jobs /\ job.stage = "remove" /\ Plan = PlanOf(g)
  BY JobFacts DEF Remove, IInv
<1>2. /\ g.card \in Cards /\ rowsOf = g.card /\ n \in 0..Len(PlanOf(g))
      /\ Launch \notin g.files => g.files = {}
      /\ disk[rowsOf] = g.files \ First(g, n)
      /\ orphans \/ listed \subseteq g.files
  BY <1>1 DEF IInv, Vouched
<1>3. n < Len(PlanOf(g))
  BY <1>1 DEF IInv, Left
<1>4. UNCHANGED <<listed, told, orphans, inserted, rowsOf, scan>>
  BY DEF Remove, Others
<1>5. disk \in [Cards -> SUBSET Files] /\ inserted \in Cards /\ listed \subseteq Files
      /\ told \in BOOLEAN /\ orphans \in BOOLEAN
  BY DEF IInv, TypeOK
<1>6. Len(PlanOf(g)) \in 1..Len(Order) /\ Len(Order) \in Nat
  BY PlanFacts, OrderFacts
<1>7. CASE job' = [job EXCEPT !.stage = "commit"] /\ UNCHANGED disk
  <2>1. /\ job' \in Jobs /\ job'.stage = "commit" /\ job'.digest = g /\ job'.done = n
        /\ disk' = disk
    BY <1>1, <1>7 DEF Jobs
  <2>2. TypeOK' /\ Apart'
    BY <1>1, <1>4, <1>5, <2>1, WorkerFacts
  <2> HIDE DEF g, n
  <2>3. Vouched' /\ Left'
    BY <1>2, <1>4, <2>1 DEF Vouched, Left
  <2>4. Whole' /\ Rows' /\ Telling'
    BY <1>1, <1>4, <2>1 DEF IInv, Whole, Rows, Telling
  <2> QED BY <2>1, <2>2, <2>3, <2>4 DEF IInv
<1>8. CASE /\ inserted = rowsOf /\ disk' = [disk EXCEPT ![inserted] = @ \ {p}]
           /\ \/ job' = [job EXCEPT !.done = @ + 1, !.stage = "commit"]
              \/ n + 1 < Len(PlanOf(g)) /\ job' = [job EXCEPT !.done = @ + 1]
              \/ job' = [job EXCEPT !.done = @ + 1, !.ok = TRUE, !.stage = "commit"]
  <2>1. /\ job' \in Jobs /\ job'.stage \in {"remove", "commit"}
        /\ job'.digest = g /\ job'.done = n + 1
        /\ job'.stage = "remove" => n + 1 < Len(PlanOf(g))
    <3>1. n + 1 \in 0..Len(Order)
      BY <1>2, <1>3, <1>6
    <3> QED BY <1>1, <1>8, <3>1 DEF Jobs
  <2>2. /\ disk' \in [Cards -> SUBSET Files] /\ disk'[rowsOf] = disk[rowsOf] \ {p}
        /\ \A c \in Cards \ {rowsOf} : disk'[c] = disk[c]
    BY <1>5, <1>8
  <2>3. TypeOK' /\ Apart'
    BY <1>1, <1>4, <1>5, <2>1, <2>2, WorkerFacts
  <2>4. First(g, n + 1) = First(g, n) \cup {p}
    BY <1>2, <1>6, PlanFacts, SMTT(30)
  <2>5. disk'[rowsOf] = g.files \ First(g, n + 1)
    BY <1>2, <2>2, <2>4
  <2>6. Vouched' /\ Left'
    <3> HIDE DEF g, n, p
    <3> QED BY <1>2, <1>3, <1>4, <1>6, <2>1, <2>5 DEF Vouched, Left
  <2>7. Launch \notin disk'[rowsOf] => disk'[rowsOf] = {}
    <3>1. CASE Launch \notin disk[rowsOf]
      BY <1>2, <2>2, <3>1 DEF IInv, Whole
    <3>2. CASE Launch \in disk[rowsOf] /\ p = Launch
      <4>1. n + 1 \in 1..Len(PlanOf(g)) /\ Launch \in g.files
        BY <1>2, <1>3, <1>6, <3>2
      <4>2. n + 1 = Len(PlanOf(g))
        BY <3>2, <4>1, PlanFacts
      <4>3. First(g, n + 1) = Files
        BY <4>1, <4>2, PlanFacts
      <4>4. g.files \subseteq Files
        <5>1. g \in Digests
          BY <1>1 DEF Jobs
        <5> HIDE DEF g
        <5>2. CASE g = NoDigest
          BY <5>2 DEF NoDigest
        <5>3. CASE g \in [card : Cards, files : SUBSET Files]
          BY <5>3
        <5> QED BY <5>1, <5>2, <5>3 DEF Digests
      <4> QED BY <2>5, <4>3, <4>4
    <3>3. CASE Launch \in disk[rowsOf] /\ p # Launch
      BY <2>2, <3>3
    <3> QED BY <3>1, <3>2, <3>3
  <2>8. Whole'
    <3> HIDE DEF g, n, p
    <3> QED BY <1>4, <2>2, <2>7 DEF IInv, Whole
  <2>9. Rows' /\ Telling'
    BY <1>1, <1>4, <2>1 DEF IInv, Rows, Telling
  <2>10. \A c \in Cards : disk[c] \ disk'[c] \subseteq IF g.card = c THEN g.files ELSE {}
    <3> HIDE DEF g, n, p
    <3> QED BY <1>2, <2>2
  <2> QED BY <2>3, <2>6, <2>8, <2>9, <2>10 DEF IInv
<1> QED BY <1>1, <1>7, <1>8 DEF Remove

\* A row goes with its file, and a clean-up that fails is remembered.
LEMMA CommitStep ==
    ASSUME Assumed, IInv, Commit, UNCHANGED Others
    PROVE  IInv'
PROOF
<1> DEFINE g == job.digest
           n == job.done
<1>1. job \in Jobs /\ job.stage = "commit" /\ Outcomes = First(g, n)
  BY JobFacts DEF Commit, IInv
<1>2. /\ rowsOf = g.card /\ n \in 0..Len(PlanOf(g))
      /\ disk[rowsOf] = g.files \ First(g, n)
      /\ orphans \/ listed \subseteq g.files
  BY <1>1 DEF IInv, Vouched
<1>3. /\ UNCHANGED <<disk, inserted, rowsOf, scan>>
      /\ told' = (told /\ n = 0)
  BY DEF Commit, Others
<1>4. disk \in [Cards -> SUBSET Files] /\ listed \subseteq Files
      /\ told \in BOOLEAN /\ orphans \in BOOLEAN
  BY DEF IInv, TypeOK
<1>5. \/ listed' = Reconciled /\ job' = [job EXCEPT !.stage = "publish"] /\ UNCHANGED orphans
      \/ /\ job' = [job EXCEPT !.stage = "publish", !.ok = FALSE]
         /\ orphans' = (orphans \/ n > 0) /\ UNCHANGED listed
  BY DEF Commit
<1>6. /\ job' \in Jobs /\ job'.stage = "publish" /\ job'.done = n
      /\ listed' \subseteq Files /\ told' \in BOOLEAN /\ orphans' \in BOOLEAN
  BY <1>1, <1>3, <1>4, <1>5 DEF Jobs, Reconciled
<1>7. TypeOK' /\ Apart'
  BY <1>1, <1>3, <1>4, <1>6, WorkerFacts
<1>8. First(g, 0) = {} /\ Len(PlanOf(g)) \in Nat
  BY PlanFacts, OrderFacts
<1>9. orphans' \/ listed' \subseteq disk'[rowsOf']
  <2> HIDE DEF g, n
  <2>1. CASE listed' = Reconciled /\ UNCHANGED orphans
    BY <1>1, <1>2, <1>3, <2>1 DEF Reconciled
  <2>2. CASE orphans' = (orphans \/ n > 0) /\ UNCHANGED listed
    <3>1. CASE n = 0
      <4>1. First(g, n) = {}
        BY <1>8, <3>1
      <4> QED BY <1>2, <1>3, <1>4, <2>2, <4>1
    <3>2. CASE n > 0
      BY <1>4, <2>2, <3>2
    <3> QED BY <1>2, <1>8, <3>1, <3>2
  <2> QED BY <1>5, <2>1, <2>2 DEF n
<1>10. Vouched' /\ Whole' /\ Left' /\ Rows'
  BY <1>3, <1>6, <1>9 DEF IInv, Vouched, Whole, Left, Rows
<1>11. Telling'
  <2> HIDE DEF g, n
  <2>1. told \/ scan = "completed"
    BY <1>1 DEF IInv, Telling
  <2>2. CASE n > 0
    BY <1>6, <2>2 DEF Telling
  <2>3. CASE n = 0
    BY <1>3, <2>1, <2>3 DEF Telling
  <2> QED BY <1>2, <1>8, <2>2, <2>3
<1> QED BY <1>7, <1>10, <1>11 DEF IInv

LEMMA PublishStep ==
    ASSUME Assumed, IInv, Publish, UNCHANGED Others
    PROVE  IInv'
PROOF
<1>1. job \in Jobs /\ job.stage = "publish"
  BY JobFacts DEF Publish, IInv
<1>2. UNCHANGED <<disk, listed, told, orphans, rowsOf, scan>>
      /\ job' = [job EXCEPT !.stage = "over", !.changed = job.done > 0]
  BY DEF Publish, Others
<1>3. disk \in [Cards -> SUBSET Files] /\ listed \subseteq Files
      /\ told \in BOOLEAN /\ orphans \in BOOLEAN
  BY DEF IInv, TypeOK
<1>4. job' \in Jobs /\ job'.stage = "over" /\ job'.changed = (job.done > 0)
  <2>1. (job.done > 0) \in BOOLEAN
    OBVIOUS
  <2> QED BY <1>1, <1>2, <2>1 DEF Jobs
<1>5. TypeOK' /\ Apart'
  BY <1>1, <1>2, <1>3, <1>4, WorkerFacts
<1>6. Vouched' /\ Whole' /\ Left' /\ Rows' /\ Telling'
  BY <1>1, <1>2, <1>4 DEF IInv, Vouched, Whole, Left, Rows, Telling
<1> QED BY <1>5, <1>6 DEF IInv

-----------------------------------------------------------------------------
(* The main loop, the scan and the card *)

LEMMA InitInv == Assumed /\ Init => IInv
PROOF
<1> SUFFICES ASSUME Assumed, Init PROVE IInv
  OBVIOUS
<1>1. {owner, again, deferred, told, orphans} \subseteq BOOLEAN
  BY DEF Init
<1>2. TypeOK
  <2>1. disk \in [Cards -> SUBSET Files] /\ events \in 0..MaxEvents
    BY DEF Init, Assumed
  <2> QED BY <1>1, <2>1 DEF Init, TypeOK, Digests
<1>3. Launch \in Files
  BY OrderFacts
<1> QED BY <1>2, <1>3 DEF Init, IInv, Vouched, Whole, Left, Rows, Apart, Telling, Busy, NoJob

\* Steps that leave the job, the files and the rows alone.
LEMMA AsideStep ==
    ASSUME Assumed, IInv, TypeOK', Apart',
           UNCHANGED <<disk, rowsOf, listed, job, orphans>>,
           told' \/ (told' = told /\ (scan = "completed" => scan' = "completed"))
    PROVE  IInv'
PROOF BY DEF IInv, Vouched, Whole, Left, Rows, Telling

LEMMA AsideSteps ==
    ASSUME Assumed, IInv,
           Exchange \/ HangUp \/ Preview \/ RequestScan \/ TickScan \/ TickSample
    PROVE  IInv'
PROOF
<1>1. TypeOK /\ Apart
  BY DEF IInv
<1>2. UNCHANGED <<disk, rowsOf, listed, job, orphans>>
  BY DEF Exchange, HangUp, Preview, RequestScan, TickScan, TickSample
<1>3. {owner', again', deferred', told', orphans'} \subseteq BOOLEAN
  BY <1>1 DEF Exchange, HangUp, Preview, RequestScan, StartScan, TickScan, TickSample, TypeOK
<1>4. scan' \in {"idle", "running", "completed", "failed"} /\ tick' \in {"idle", "busy", "free"}
  BY <1>1 DEF Exchange, HangUp, Preview, RequestScan, StartScan, TickScan, TickSample, TypeOK
<1>5. events' \in 0..MaxEvents /\ inserted' \in Cards
  BY <1>1 DEF Exchange, HangUp, Preview, RequestScan, TickScan, TickSample, TypeOK, Assumed
<1>6. approved' \in Digests
  <2>1. CASE Preview
    BY <1>1, <2>1 DEF Preview, Digest, Digests, TypeOK
  <2>2. CASE ~Preview
    BY <1>1, <2>2 DEF Exchange, HangUp, RequestScan, TickScan, TickSample, TypeOK
  <2> QED BY <2>1, <2>2
<1>7. TypeOK'
  BY <1>1, <1>2, <1>3, <1>4, <1>5, <1>6 DEF TypeOK
<1>8. Apart'
  BY <1>1 DEF Apart, Busy, Exchange, HangUp, Preview, RequestScan, StartScan, TickScan,
     TickSample, TypeOK
<1>9. told' \/ (told' = told /\ (scan = "completed" => scan' = "completed"))
  BY <1>1 DEF Exchange, HangUp, Preview, RequestScan, StartScan, TickScan, TickSample, TypeOK
<1> QED BY <1>2, <1>7, <1>8, <1>9, AsideStep

LEMMA DeleteStep ==
    ASSUME Assumed, IInv, Delete
    PROVE  IInv'
PROOF
<1>1. /\ job = NoJob /\ scan = "idle" /\ tick = "idle" /\ job' = Fresh(approved) /\ owner' = TRUE
      /\ UNCHANGED <<inserted, disk, rowsOf, listed, approved, tick, scan, again, deferred, told,
                     orphans, events>>
  BY DEF Delete, Gate
<1>2. /\ job' \in Jobs /\ job'.stage = "build" /\ job'.done = 0
  BY <1>1, OrderFacts DEF Fresh, Jobs, IInv, TypeOK
<1>3. {owner', again', deferred', told', orphans'} \subseteq BOOLEAN
  BY <1>1 DEF IInv, TypeOK
<1>4. TypeOK'
  BY <1>1, <1>2, <1>3 DEF IInv, TypeOK
<1>5. Vouched' /\ Whole' /\ Left' /\ Rows'
  BY <1>1, <1>2 DEF IInv, Vouched, Whole, Left, Rows, NoJob
<1>6. Apart' /\ Telling'
  BY <1>1, <1>2 DEF IInv, Apart, Telling, Busy, NoJob
<1> QED BY <1>4, <1>5, <1>6 DEF IInv

\* A job that has changed the library is not destroyed before it has told.
LEMMA TickRestStep ==
    ASSUME Assumed, IInv, TickRest
    PROVE  IInv'
PROOF
<1>1. TypeOK /\ Apart
  BY DEF IInv
<1>2. /\ tick # "idle" /\ tick' = "idle"
      /\ told' = (told \/ (job # NoJob /\ job.changed))
      /\ job' = IF job = NoJob \/ (tick = "free" /\ ~owner) THEN NoJob
                ELSE [job EXCEPT !.changed = FALSE]
      /\ UNCHANGED <<inserted, disk, rowsOf, listed, approved, owner, orphans, events>>
  BY DEF TickRest
<1>3. job \in {NoJob} \cup Jobs
  BY <1>1 DEF TypeOK
<1>4. \/ job' = NoJob /\ ~Busy
      \/ /\ job' \in Jobs /\ job \in Jobs /\ job'.stage = job.stage
         /\ job'.done = job.done /\ job'.digest = job.digest
  <2>1. CASE job = NoJob
    BY <1>2, <2>1 DEF Busy, NoJob
  <2>2. CASE job # NoJob /\ tick = "free" /\ ~owner
    BY <1>1, <1>2, <2>2 DEF Apart
  <2>3. CASE job # NoJob /\ ~(tick = "free" /\ ~owner)
    <3>1. job \in Jobs /\ job' = [job EXCEPT !.changed = FALSE]
      BY <1>2, <1>3, <2>3
    <3> QED BY <3>1 DEF Jobs
  <2> QED BY <2>1, <2>2, <2>3
<1>5. told' \in BOOLEAN
  <2>1. CASE job = NoJob
    BY <1>1, <1>2, <2>1 DEF TypeOK
  <2>2. CASE job \in Jobs
    <3>1. job.changed \in BOOLEAN
      BY <2>2 DEF Jobs
    <3> QED BY <1>1, <1>2, <3>1 DEF TypeOK
  <2> QED BY <1>3, <2>1, <2>2
<1>6. /\ scan' \in {"idle", "running", "completed", "failed"}
      /\ again' \in BOOLEAN /\ deferred' \in BOOLEAN
      /\ Busy => scan' = scan /\ again' = again
      /\ again' => scan' # "idle"
      /\ scan = "completed" => scan' = "completed"
  BY <1>1 DEF TickRest, StartScan, TypeOK, Apart
<1>7. TypeOK'
  <2>1. {owner', again', deferred', told', orphans'} \subseteq BOOLEAN
    BY <1>1, <1>2, <1>5, <1>6 DEF TypeOK
  <2> QED BY <1>1, <1>2, <1>4, <1>6, <2>1 DEF TypeOK
<1>8. Apart'
  BY <1>1, <1>2, <1>4, <1>6 DEF Apart, Busy, NoJob
<1>9. Vouched' /\ Whole' /\ Left' /\ Rows'
  BY <1>2, <1>4 DEF IInv, Vouched, Whole, Left, Rows, Busy, NoJob
<1>10. Telling'
  <2>1. CASE told \/ scan = "completed"
    BY <1>2, <1>6, <2>1 DEF Telling
  <2>2. CASE job.stage = "publish" /\ job.done > 0
    BY <1>4, <2>2 DEF Telling, Busy
  <2>3. CASE job.stage = "over" /\ job.changed
    BY <1>2, <2>3 DEF Telling, NoJob
  <2> QED BY <2>1, <2>2, <2>3 DEF IInv, Telling
<1> QED BY <1>7, <1>8, <1>9, <1>10 DEF IInv

LEMMA ScanEndsStep ==
    ASSUME Assumed, IInv, ScanEnds
    PROVE  IInv'
PROOF
<1>1. TypeOK /\ Apart /\ ~Busy /\ scan = "running"
  BY DEF IInv, Apart, ScanEnds
<1>2. UNCHANGED <<inserted, disk, approved, job, owner, tick, again, deferred, events>>
  BY DEF ScanEnds
<1>3. \/ scan' = "failed" /\ UNCHANGED <<rowsOf, listed, orphans, told>>
      \/ /\ scan' = "completed" /\ rowsOf' = inserted /\ listed' = disk[inserted]
         /\ orphans' = FALSE /\ told' \in BOOLEAN
  BY DEF ScanEnds
<1>4. TypeOK'
  <2>1. {owner', again', deferred', told', orphans'} \subseteq BOOLEAN
    BY <1>1, <1>2, <1>3 DEF TypeOK
  <2>2. rowsOf' \in Cards /\ listed' \subseteq Files
    BY <1>1, <1>3 DEF TypeOK
  <2> QED BY <1>1, <1>2, <1>3, <2>1, <2>2 DEF TypeOK
<1>5. Vouched' /\ Whole' /\ Left' /\ Rows'
  BY <1>1, <1>2, <1>3 DEF IInv, Vouched, Whole, Left, Rows, Busy
<1>6. Apart' /\ Telling'
  BY <1>1, <1>2, <1>3 DEF IInv, Apart, Telling, Busy
<1> QED BY <1>4, <1>5, <1>6 DEF IInv

LEMMA Preserved == Assumed /\ IInv /\ [Next]_deleteVars => IInv'
PROOF
<1> SUFFICES ASSUME Assumed, IInv, [Next]_deleteVars PROVE IInv'
  OBVIOUS
<1>1. CASE UNCHANGED deleteVars
  BY <1>1 DEF deleteVars, IInv, TypeOK, Vouched, Whole, Left, Rows, Apart, Telling, Busy
<1>2. CASE Worker
  BY <1>2, BuildStep, RemoveStep, CommitStep, PublishStep DEF Worker, Others
<1>3. CASE Exchange \/ HangUp \/ Preview \/ RequestScan \/ TickScan \/ TickSample
  BY <1>3, AsideSteps
<1> QED BY <1>1, <1>2, <1>3, DeleteStep, TickRestStep, ScanEndsStep DEF Next, Tick

-----------------------------------------------------------------------------
(* The theorems *)

\* For every set of cards and every game: the strengthening is invariant.
THEOREM DeletionInvariance == ASSUME Assumed PROVE DeleteSpec => []IInv
PROOF
<1>1. Init => IInv
  BY InitInv
<1>2. IInv /\ [Next]_deleteVars => IInv'
  BY Preserved
<1> QED BY <1>1, <1>2, PTL DEF DeleteSpec

\* For every set of cards and every game: the launch file is the last to go, no
\* scan works beside the job, only a failed clean-up leaves a row without its
\* file, and the change is told before the job is forgotten (delete_job.c,
\* jw__tick_delete).
THEOREM DeletionIsKept == ASSUME Assumed PROVE DeleteSpec => []DeletionKept
PROOF
<1>1. IInv => DeletionKept
  <2> SUFFICES ASSUME IInv PROVE DeletionKept
    OBVIOUS
  <2>1. job = NoJob /\ scan = "idle" => told
    BY DEF IInv, Telling, NoJob
  <2> QED BY <2>1 DEF IInv, Whole, Rows, Apart, DeletionKept
<1> QED BY <1>1, DeletionInvariance, PTL

\* For every set of cards and every game: only files that the user was shown are
\* removed, and from the card they were shown of (jw__guard).
THEOREM RemovesTheApproved == ASSUME Assumed PROVE DeleteSpec => OnlyApproved
PROOF
<1>1. IInv /\ [Next]_deleteVars
      => [\A c \in Cards : disk[c] \ disk'[c] \subseteq
            (IF job # NoJob /\ job.digest.card = c THEN job.digest.files ELSE {})]_disk
  <2> SUFFICES ASSUME IInv, [Next]_deleteVars, disk' # disk, NEW c \in Cards
               PROVE  disk[c] \ disk'[c] \subseteq
                         (IF job # NoJob /\ job.digest.card = c THEN job.digest.files ELSE {})
    OBVIOUS
  <2>1. Remove /\ UNCHANGED Others
    BY DEF Next, Exchange, HangUp, Preview, Delete, RequestScan, Tick, TickSample, TickRest,
       TickScan, ScanEnds, Worker, Build, Commit, Publish, Others, deleteVars
  <2>2. job # NoJob
    BY <2>1 DEF Remove, NoJob
  <2> QED BY <2>1, <2>2, RemoveStep
<1> QED BY <1>1, DeletionInvariance, PTL DEF DeleteSpec, OnlyApproved
=============================================================================
