----------------------------- MODULE ScrapeBatch -----------------------------
(***************************************************************************)
(* The artwork batch of src/internal/scrape/scrape_worker.c: the daemon's  *)
(* handlers queue, cancel and resume games while a pool of threads scrapes *)
(* them.  Everything is guarded by one mutex, but a thread lets go of it   *)
(* for as long as it scrapes: in between, the batch may be paused for a    *)
(* card or for the day's quota, resumed, cancelled or shut down.           *)
(*                                                                         *)
(* A step is what happens under the mutex once, with what led to it.  The  *)
(* phases of a lookup, the rows' texts, the estimates, how a game's paths  *)
(* and names are found and a queue that is full are left out; one card     *)
(* stands for the library's and the artwork's.  A thread that finds the    *)
(* card unwritable pauses the batch in a later step; the handlers' looks   *)
(* at it and what they do then are one step.                               *)
(***************************************************************************)
EXTENDS Naturals, Sequences, SequencesExt, FiniteSets

CONSTANTS
    Games,         \* the games of the library
    Workers,       \* 1..JW__SCRAPE_MAX_WORKERS: a slot and a thread each
    MaxAsks,       \* bound: requests of the user
    MaxFlips       \* bound: changes of the card's mount

VARIABLES
    queue,         \* the items to scrape, first in first out
    rows,          \* what the user is shown of each game
    slots,         \* jw__active_slot
    permits,       \* how many items may be active at the same time
    quota, paused, \* paused_quota, paused_storage
    leaving,       \* shutdown
    writable,      \* the card can be written
    probed,        \* whether it could when the health monitor last looked
    asked,         \* the games whose scrape was interrupted since it began
    asks, flips    \* requests and changes so far

scrapeVars == <<queue, rows, slots, permits, quota, paused, leaving, writable, probed,
                asked, asks, flips>>

\* saved: artwork that the database does not know of yet; again: the item was
\* returned to the queue for the card before (storage_requeued).
Items == [game : Games, saved : BOOLEAN, again : BOOLEAN]
Fresh(g) == [game |-> g, saved |-> FALSE, again |-> FALSE]

\* What the thread of a slot does next; "barred": the card could not be written
\* when the thread looked; "over": the row has its result, and the slot is still
\* used.
Stages == {"resolve", "request", "record", "barred", "quota", "storage", "over"}
Free == [stage |-> "free"]
Busy == [stage : Stages, item : Items, interrupt : BOOLEAN]

Active == {w \in Workers : slots[w] # Free}
Pending(g) == rows[g] \in {"queued", "busy"}
Queued(g) == \E i \in 1..Len(queue) : queue[i].game = g

TypeOK ==
    /\ queue \in Seq(Items)
    /\ rows \in [Games -> {"none", "queued", "busy", "ended", "cancelled"}]
    /\ slots \in [Workers -> {Free} \cup Busy]
    /\ permits \in Workers
    /\ {quota, paused, leaving, writable, probed} \subseteq BOOLEAN
    /\ asked \subseteq Games
    /\ asks \in 0..MaxAsks /\ flips \in 0..MaxFlips

Init ==
    /\ queue = <<>> /\ rows = [g \in Games |-> "none"]
    /\ slots = [w \in Workers |-> Free]
    /\ permits = 1 /\ quota = FALSE /\ paused = FALSE /\ leaving = FALSE
    /\ writable = TRUE /\ probed = TRUE
    /\ asked = {} /\ asks = 0 /\ flips = 0

-----------------------------------------------------------------------------
(* The daemon *)

\* The slots and the ghost after the slots of T were interrupted.
Interrupt(T) ==
    /\ slots' = [w \in Workers |->
                   IF w \in T THEN [slots[w] EXCEPT !.interrupt = TRUE] ELSE slots[w]]
    /\ asked' = asked \cup {slots[w].item.game : w \in T}

\* A game, or the games of a system; only the latter looks at the card.
Enqueue(T, system) ==
    /\ ~leaving /\ asks < MaxAsks /\ asks' = asks + 1
    /\ \E new \in {{g \in T : ~Pending(g)}} :
          /\ new # {}
          /\ queue' = queue \o SetToSeq({Fresh(g) : g \in new})
          /\ rows' = [g \in Games |-> IF g \in new THEN "queued" ELSE rows[g]]
    /\ quota' = FALSE
    /\ IF system /\ ~writable THEN paused' = TRUE /\ Interrupt(Active)
       ELSE UNCHANGED <<paused, slots, asked>>
    /\ UNCHANGED <<permits, leaving, writable, probed, flips>>

\* What is left of the queue q without the items of T, in its order.
Without(q, T) ==
    LET kept[i \in 0..Len(q)] ==
            IF i = 0 THEN <<>>
            ELSE IF q[i].game \in T THEN kept[i - 1] ELSE Append(kept[i - 1], q[i])
    IN  kept[Len(q)]

\* Cancelling everything also ends the pauses.
Cancel(T) ==
    /\ ~leaving /\ asks < MaxAsks /\ asks' = asks + 1
    /\ queue' = Without(queue, T)
    /\ rows' = [g \in Games |-> IF g \in T /\ Queued(g) THEN "cancelled" ELSE rows[g]]
    /\ Interrupt({w \in Active : slots[w].item.game \in T})
    /\ quota' = (quota /\ T # Games) /\ paused' = (paused /\ T # Games)
    /\ UNCHANGED <<permits, leaving, writable, probed, flips>>

\* jw_scrape_worker_stop; the threads are joined after it.
StopWorkers ==
    /\ ~leaving /\ leaving' = TRUE
    /\ queue' = <<>> /\ Interrupt(Active)
    /\ UNCHANGED <<rows, permits, quota, paused, writable, probed, asks, flips>>

\* The mount changes by itself.
CardFlips ==
    /\ flips < MaxFlips /\ flips' = flips + 1
    /\ writable' = ~writable
    /\ UNCHANGED <<queue, rows, slots, permits, quota, paused, leaving, probed, asked, asks>>

\* A refresh of the storage health that finds a change checks the pause again.
HealthRefresh ==
    /\ ~leaving /\ probed # writable
    /\ probed' = writable
    /\ paused' = (paused /\ ~writable)
    /\ UNCHANGED <<queue, rows, slots, permits, quota, leaving, writable, asked, asks, flips>>

-----------------------------------------------------------------------------
(* The threads *)

Claim ==
    /\ ~leaving /\ queue # <<>> /\ ~quota /\ ~paused
    /\ Cardinality(Active) < permits
    /\ \E w \in Workers \ Active :
          /\ \A v \in Workers \ Active : w <= v
          /\ slots' = [slots EXCEPT ![w] =
                [stage |-> "resolve", item |-> Head(queue), interrupt |-> FALSE]]
    /\ queue' = Tail(queue)
    /\ rows' = [rows EXCEPT ![Head(queue).game] = "busy"]
    /\ asked' = asked \ {Head(queue).game}
    /\ UNCHANGED <<permits, quota, paused, leaving, writable, probed, asks, flips>>

\* The thread of w goes on, with nothing else changed.
Proceed(w, stage) ==
    /\ slots' = [slots EXCEPT ![w].stage = stage]
    /\ UNCHANGED <<rows, permits, quota, paused, asked>>

\* The item of w has its result.
Ended(w, row) ==
    /\ rows' = [rows EXCEPT ![slots[w].item.game] = row]
    /\ slots' = [slots EXCEPT ![w].stage = "over"]
    /\ UNCHANGED <<paused, asked>>

\* The item of w pauses the batch for the card: every active item is interrupted.
Blocked(w, saved) ==
    /\ paused' = TRUE
    /\ slots' = [v \in Workers |->
                   IF v = w THEN [slots[v] EXCEPT !.interrupt = TRUE, !.stage = "storage",
                                                  !.item.saved = saved]
                   ELSE IF v \in Active THEN [slots[v] EXCEPT !.interrupt = TRUE]
                   ELSE slots[v]]
    /\ asked' = asked \cup {slots[v].item.game : v \in Active}
    /\ UNCHANGED <<rows, permits, quota>>

\* Only the database is left to write when the artwork was saved before;
\* otherwise the account's allowance applies to the request.
Resolve(w) ==
    /\ \/ Ended(w, "ended") /\ UNCHANGED <<permits, quota>>
       \/ ~writable /\ Proceed(w, "barred")
       \/ writable /\ slots[w].item.saved /\ Proceed(w, "record")
       \/ /\ writable
          /\ slots' = [slots EXCEPT ![w].stage = "request", ![w].item.saved = FALSE]
          /\ permits' \in Workers
          /\ UNCHANGED <<rows, quota, paused, asked>>

\* Mutant of Fewer: nothing keeps the last permit.
FewerAlways(n) == n - 1

\* The account refused so many requests at the same time.
Fewer(n) == IF n > 1 THEN n - 1 ELSE n

\* What the request came to: artwork, a miss or an error, a refusal, an
\* interrupt, or a card that could not be written, which is an error the second
\* time unless the batch is paused.
Request(w) ==
    \/ Proceed(w, "record")
    \/ Ended(w, "ended") /\ permits' \in {permits, Fewer(permits)} /\ UNCHANGED quota
    \/ quota' = TRUE /\ slots' = [slots EXCEPT ![w].stage = "quota"]
       /\ UNCHANGED <<rows, permits, paused, asked>>
    \/ /\ slots[w].interrupt
       /\ IF paused THEN Proceed(w, "storage")
          ELSE Ended(w, "cancelled") /\ UNCHANGED <<permits, quota>>
    \/ IF slots[w].item.again /\ ~paused
       THEN Ended(w, "ended") /\ UNCHANGED <<permits, quota>>
       ELSE Blocked(w, FALSE)

\* The day's requests may be used up by this one.
Record(w) ==
    \/ Ended(w, "ended") /\ permits' \in {permits} \cup Workers /\ quota' \in {quota, TRUE}
    \/ /\ ~writable
       /\ slots' = [slots EXCEPT ![w].stage = "barred", ![w].item.saved = TRUE]
       /\ UNCHANGED <<rows, permits, quota, paused, asked>>

\* The card was looked at without the mutex: it may have come back by now, and
\* its recheck be over.
PauseForCard(w) == Blocked(w, slots[w].item.saved)

\* The item goes back to the head of the queue.
Return(w) ==
    /\ queue' = <<[slots[w].item EXCEPT !.again = @ \/ slots[w].stage = "storage"]>> \o queue
    /\ rows' = [rows EXCEPT ![slots[w].item.game] = "queued"]
    /\ slots' = [slots EXCEPT ![w] = Free]
    /\ UNCHANGED <<permits, quota, paused, asked>>

Retire(w) ==
    /\ slots' = [slots EXCEPT ![w] = Free]
    /\ UNCHANGED <<rows, permits, quota, paused, asked>>

Thread(w) ==
    /\ w \in Active
    /\ \/ slots[w].stage = "resolve" /\ Resolve(w) /\ UNCHANGED queue
       \/ slots[w].stage = "request" /\ Request(w) /\ UNCHANGED queue
       \/ slots[w].stage = "record" /\ Record(w) /\ UNCHANGED queue
       \/ slots[w].stage = "barred" /\ PauseForCard(w) /\ UNCHANGED queue
       \/ slots[w].stage \in {"quota", "storage"} /\ Return(w)
       \/ slots[w].stage = "over" /\ Retire(w) /\ UNCHANGED queue
    /\ UNCHANGED <<leaving, writable, probed, asks, flips>>

Scrapes == Claim \/ \E w \in Workers : Thread(w)

Next ==
    \/ \E g \in Games : Enqueue({g}, FALSE) \/ Cancel({g})
    \/ Enqueue(Games, TRUE) \/ Cancel(Games)
    \/ StopWorkers \/ CardFlips \/ HealthRefresh \/ Scrapes

\* The threads run.
ScrapeSpec == Init /\ [][Next]_scrapeVars /\ WF_scrapeVars(Scrapes)

-----------------------------------------------------------------------------
(* Properties *)

Places(g) ==
    Cardinality({i \in 1..Len(queue) : queue[i].game = g})
      + Cardinality({w \in Active : slots[w].stage # "over" /\ slots[w].item.game = g})

\* Through pauses, cancellations and repeated requests a game that is shown as
\* pending is in the queue or with one thread, and never with two.
OnePlace == \A g \in Games : ~leaving => Places(g) = IF Pending(g) THEN 1 ELSE 0

\* An interrupt ends only the scrape it was meant for: it does not outlive the
\* item in the slot it was set for.
CancelsItsOwn ==
    \A w \in Active : slots[w].interrupt /\ slots[w].stage # "over" =>
        slots[w].item.game \in asked

\* Nothing is left to run, unless the batch is paused.
AtRest == Active = {} /\ (queue = <<>> \/ quota \/ paused \/ leaving)

\* What was queued is scraped, whatever the account allows, and after a stop
\* every thread leaves.
ScrapesServed == [](OnePlace /\ CancelsItsOwn) /\ []<>AtRest
=============================================================================
