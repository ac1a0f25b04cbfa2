----------------------------- MODULE CoverLoader -----------------------------
(***************************************************************************)
(* The launcher's cover decoder (src/internal/launcher/cover_loader.c) and *)
(* the launcher code that drives it: one worker thread, a newest-wins      *)
(* request slot for the cover under the cursor, a backlog of covers to     *)
(* build ahead, a slot for the finished request, a ring of surfaces that   *)
(* could not be written to disk, and a table of the files that failed.     *)
(*                                                                         *)
(* A file is its version: replacing it makes the next one, and a surface   *)
(* is the version it was decoded from.  Sizes, thumbnails and textures     *)
(* that fail to upload are left out; time is two facts per failed file,    *)
(* whether it may be looked at again and whether it may be tried again.    *)
(***************************************************************************)
EXTENDS Naturals, Sequences, SequencesExt, FiniteSets

CONSTANTS
    Paths, NoPath,        \* artwork files and the empty string
    MaxVersion,           \* bound: the replacements of files, plus one
    Readable,             \* which versions of which file decode
    Attempts,             \* JW_COVER_FAIL_ATTEMPTS
    QueueMax, HandbackMax, FailMax      \* the capacities of the rings

VARIABLES
    started, stopping,    \* the worker runs; the launcher waits to join it
    request,              \* the priority request, or NoPath
    backlog,              \* the pre-warm queue, oldest first
    worker,               \* what the worker thread is doing
    done,                 \* the finished request: path and surface
    handback,             \* surfaces that could not be persisted, oldest first
    failures, failNext,   \* the failure table and its eviction cursor
    art,                  \* the version of each file on the card
    cursor,               \* the cover the list rests on
    cached,               \* the texture cache: the version shown, or 0
    floor,                \* history: versions at the last catalog adoption
    surfaces,             \* history: surfaces allocated and not yet freed
    tries                 \* history: failed decodes of the file as it is

coverVars == <<started, stopping, request, backlog, worker, done, handback, failures,
               failNext, art, cursor, cached, floor, surfaces, tries>>

Unused == [path |-> NoPath, identity |-> 0, attempts |-> 0, stale |-> FALSE, due |-> FALSE]
Asleep == [step |-> "idle", path |-> NoPath, asked |-> FALSE, identity |-> 0, surface |-> 0,
           saved |-> FALSE]
Nothing == [path |-> NoPath, surface |-> 0]
NoTries == [p \in Paths |-> 0]

TypeOK ==
    /\ started \in BOOLEAN /\ stopping \in BOOLEAN
    /\ request \in Paths \cup {NoPath}
    /\ backlog \in Seq(Paths) /\ Len(backlog) <= QueueMax
    /\ worker \in [step : {"idle", "picked", "looked", "decoded"}, path : Paths \cup {NoPath},
                   asked : BOOLEAN, identity : 0..MaxVersion, surface : 0..MaxVersion,
                   saved : BOOLEAN]
    /\ done \in [path : Paths \cup {NoPath}, surface : 0..MaxVersion]
    /\ handback \in Seq([path : Paths, surface : 1..MaxVersion]) /\ Len(handback) <= HandbackMax
    /\ failures \in [1..FailMax -> [path : Paths \cup {NoPath}, identity : 0..MaxVersion,
                                    attempts : 0..Attempts + 1, stale : BOOLEAN, due : BOOLEAN]]
    /\ failNext \in 1..FailMax
    /\ art \in [Paths -> 1..MaxVersion]
    /\ cursor \in Paths
    /\ cached \in [Paths -> 0..MaxVersion]
    /\ floor \in [Paths -> 1..MaxVersion]
    /\ surfaces \in Nat
    /\ tries \in [Paths -> Nat]

Init ==
    /\ started = FALSE /\ stopping = FALSE
    /\ request = NoPath /\ backlog = <<>> /\ worker = Asleep
    /\ done = Nothing /\ handback = <<>>
    /\ failures = [i \in 1..FailMax |-> Unused] /\ failNext = 1
    /\ art = [p \in Paths |-> 1]
    /\ cursor \in Paths
    /\ cached = [p \in Paths |-> 0]
    /\ floor = [p \in Paths |-> 1]
    /\ surfaces = 0 /\ tries = NoTries

-----------------------------------------------------------------------------
(* The failure table. *)

SlotsOf(table, p) == {i \in 1..FailMax : table[i].path = p}

\* Looking a file up drops its entry once the file has been replaced.
Rechecked(p) ==
    [i \in 1..FailMax |->
        IF failures[i].path # p \/ ~failures[i].stale THEN failures[i]
        ELSE IF failures[i].identity # art[p] THEN Unused
        ELSE [failures[i] EXCEPT !.stale = FALSE]]

Blocked(table, p) ==
    \E i \in SlotsOf(table, p) : ~(table[i].attempts < Attempts /\ table[i].due)

HasFailed(p) == SlotsOf(failures, p) # {}

\* The slot a failure of p goes to: its own, else a free one, else the cursor's.
FailureSlot(p) ==
    IF SlotsOf(failures, p) # {} THEN CHOOSE i \in SlotsOf(failures, p) : TRUE
    ELSE IF SlotsOf(failures, NoPath) # {}
         THEN CHOOSE i \in SlotsOf(failures, NoPath) :
                  \A j \in SlotsOf(failures, NoPath) : i <= j
    ELSE failNext

Remember(p, identity, slot) ==
    LET known == failures[slot].path = p /\ failures[slot].identity = identity
        evicts == failures[slot].path \notin {p, NoPath}
        forgotten == IF evicts THEN [tries EXCEPT ![failures[slot].path] = 0] ELSE tries
    IN /\ failures' = [failures EXCEPT ![slot] =
               [path |-> p, identity |-> identity, stale |-> FALSE, due |-> FALSE,
                attempts |-> IF known THEN failures[slot].attempts + 1 ELSE 1]]
       /\ failNext' = IF evicts THEN (failNext % FailMax) + 1 ELSE failNext
       /\ tries' = IF identity = art[p] THEN [forgotten EXCEPT ![p] = @ + 1] ELSE forgotten

Forget(p) ==
    /\ failures' = [i \in 1..FailMax |-> IF failures[i].path = p THEN Unused ELSE failures[i]]
    /\ tries' = [tries EXCEPT ![p] = 0]
    /\ UNCHANGED failNext

-----------------------------------------------------------------------------
(* The worker thread. *)

Wanted == request # NoPath \/ backlog # <<>>

WorkerPicks ==
    /\ started /\ ~stopping /\ worker.step = "idle" /\ Wanted
    /\ LET asked == request # NoPath IN
       /\ worker' = [Asleep EXCEPT !.step = "picked", !.asked = asked,
                                   !.path = IF asked THEN request ELSE Head(backlog)]
       /\ request' = NoPath
       /\ backlog' = IF asked THEN backlog ELSE Tail(backlog)
    /\ UNCHANGED <<started, stopping, done, handback, failures, failNext, art, cursor, cached,
                   floor, surfaces, tries>>

WorkerLooks ==
    /\ worker.step = "picked"
    /\ worker' = [worker EXCEPT !.step = "looked", !.identity = art[worker.path]]
    /\ UNCHANGED <<started, stopping, request, backlog, done, handback, failures, failNext, art,
                   cursor, cached, floor, surfaces, tries>>

WorkerDecodes ==
    /\ worker.step = "looked"
    /\ \E saved \in BOOLEAN :
        IF <<worker.path, art[worker.path]>> \in Readable
        THEN /\ worker' = [worker EXCEPT !.step = "decoded", !.saved = saved,
                                         !.surface = art[worker.path]]
             /\ surfaces' = surfaces + 1
        ELSE /\ saved
             /\ worker' = [worker EXCEPT !.step = "decoded", !.saved = TRUE]
             /\ UNCHANGED surfaces
    /\ UNCHANGED <<started, stopping, request, backlog, done, handback, failures, failNext, art,
                   cursor, cached, floor, tries>>

\* A request takes the done slot over, freeing what nobody collected.
Deliver ==
    LET dropped == IF done.surface # 0 THEN 1 ELSE 0 IN
    /\ done' = IF worker.surface # 0
               THEN [path |-> worker.path, surface |-> worker.surface] ELSE Nothing
    /\ surfaces' = surfaces - dropped
    /\ UNCHANGED handback

\* A pre-warm surface that is on disk is freed; another one is handed back,
\* in the place of an older one of the same path or of the oldest.
HandBack ==
    LET entry == [path |-> worker.path, surface |-> worker.surface]
        same == {i \in DOMAIN handback : handback[i].path = worker.path}
    IN /\ IF worker.surface = 0 THEN UNCHANGED <<handback, surfaces>>
          ELSE IF worker.saved THEN surfaces' = surfaces - 1 /\ UNCHANGED handback
          ELSE IF same # {}
               THEN /\ handback' = [i \in DOMAIN handback |->
                                       IF i \in same THEN entry ELSE handback[i]]
                    /\ surfaces' = surfaces - 1
          ELSE IF Len(handback) = HandbackMax
               THEN handback' = Append(Tail(handback), entry) /\ surfaces' = surfaces - 1
          ELSE handback' = Append(handback, entry) /\ UNCHANGED surfaces
       /\ UNCHANGED done

WorkerFinishes ==
    /\ worker.step = "decoded"
    /\ IF worker.surface # 0 THEN Forget(worker.path)
       ELSE \E slot \in {FailureSlot(worker.path)} :
                Remember(worker.path, worker.identity, slot)
    /\ IF worker.asked THEN Deliver ELSE HandBack
    /\ worker' = Asleep
    /\ UNCHANGED <<started, stopping, request, backlog, art, cursor, cached, floor>>

Work == WorkerPicks \/ WorkerLooks \/ WorkerDecodes \/ WorkerFinishes

-----------------------------------------------------------------------------
(* The launcher's thread; it does nothing else while it joins the worker. *)

\* The first caller starts the worker.  Where no thread can be created the
\* frame decodes the file itself, unless its failure blocks it.
Start ==
    /\ ~started /\ ~stopping
    /\ started' = TRUE
    /\ UNCHANGED <<stopping, request, backlog, worker, done, handback, failures, failNext, art,
                   cursor, cached, floor, surfaces, tries>>

DecodeInline ==
    /\ ~started /\ ~stopping /\ cached[cursor] = 0
    /\ LET table == Rechecked(cursor) IN
       \/ /\ Blocked(table, cursor) /\ table # failures
          /\ failures' = table
          /\ UNCHANGED <<failNext, tries, cached>>
       \/ /\ ~Blocked(table, cursor) /\ <<cursor, art[cursor]>> \in Readable
          /\ cached' = [cached EXCEPT ![cursor] = art[cursor]]
          /\ failures' = table
          /\ UNCHANGED <<failNext, tries>>
       \/ /\ ~Blocked(table, cursor) /\ <<cursor, art[cursor]>> \notin Readable
          /\ \E slot \in {FailureSlot(cursor)} : Remember(cursor, art[cursor], slot)
          /\ UNCHANGED cached
    /\ UNCHANGED <<started, stopping, request, backlog, worker, done, handback, art, cursor,
                   floor, surfaces>>

\* A frame asks for the cover under the cursor.
Take ==
    /\ started /\ ~stopping /\ cached[cursor] = 0
    /\ IF done.path = cursor
       THEN /\ cached' = [cached EXCEPT ![cursor] = done.surface]
            /\ done' = Nothing /\ surfaces' = surfaces - 1
            /\ UNCHANGED <<failures, request>>
       ELSE /\ \E table \in {Rechecked(cursor)} :
                  /\ failures' = table
                  /\ request' = IF Blocked(table, cursor) \/ cursor \in {request, worker.path}
                                THEN request ELSE cursor
            /\ UNCHANGED <<cached, done, surfaces>>
    /\ UNCHANGED <<started, stopping, backlog, worker, handback, failNext, art, cursor, floor,
                   tries>>

\* A page draws a tile: it collects what was handed back for it.
Poll(p) ==
    /\ started /\ ~stopping /\ cached[p] = 0
    /\ LET held == {i \in DOMAIN handback : handback[i].path = p} IN
       IF held # {}
       THEN \E i \in held :
               /\ cached' = [cached EXCEPT ![p] = handback[i].surface]
               /\ handback' = RemoveAt(handback, i)
               /\ surfaces' = surfaces - 1
               /\ UNCHANGED failures
       ELSE failures' = Rechecked(p) /\ UNCHANGED <<cached, handback, surfaces>>
    /\ UNCHANGED <<started, stopping, request, backlog, worker, done, failNext, art, cursor,
                   floor, tries>>

\* A cover is queued to be built ahead, once and while there is room.
Enqueue(p) ==
    /\ started /\ ~stopping /\ cached[p] = 0
    /\ \E table \in {Rechecked(p)} :
        /\ failures' = table
        /\ backlog' = IF \/ Blocked(table, p)
                         \/ p \in {request, worker.path} \cup ToSet(backlog)
                         \/ Len(backlog) = QueueMax
                      THEN backlog ELSE Append(backlog, p)
    /\ UNCHANGED <<started, stopping, request, worker, done, handback, failNext, art, cursor,
                   cached, floor, surfaces, tries>>

MoveCursor(p) ==
    /\ ~stopping /\ p # cursor
    /\ cursor' = p
    /\ UNCHANGED <<started, stopping, request, backlog, worker, done, handback, failures,
                   failNext, art, cached, floor, surfaces, tries>>

\* A rescan retires the textures and forgets the failures.
Rescan ==
    /\ ~stopping
    /\ cached' = [p \in Paths |-> 0]
    /\ failures' = [i \in 1..FailMax |-> Unused] /\ failNext' = 1 /\ tries' = NoTries
    /\ UNCHANGED <<started, stopping, request, backlog, worker, done, handback, art, cursor,
                   floor, surfaces>>

\* A new catalog, adopted only when its artwork changed, shuts the loader down
\* first: the launcher waits for the worker, frees what was not collected, and
\* then retires the rest.
AdoptCatalog ==
    /\ ~stopping /\ floor # art
    /\ stopping' = TRUE
    /\ UNCHANGED <<started, request, backlog, worker, done, handback, failures, failNext, art,
                   cursor, cached, floor, surfaces, tries>>

Retired == Len(handback) + (IF done.surface # 0 THEN 1 ELSE 0)

\* Mutant of CatalogAdopted: the finished request is not freed.
CatalogAdoptedKeepsDone ==
    /\ stopping /\ worker.step = "idle"
    /\ IF started
       THEN /\ handback' = <<>> /\ surfaces' = surfaces - Len(handback)
            /\ request' = NoPath /\ backlog' = <<>>
       ELSE UNCHANGED <<handback, surfaces, request, backlog>>
    /\ started' = FALSE /\ stopping' = FALSE
    /\ failures' = [i \in 1..FailMax |-> Unused] /\ failNext' = 1 /\ tries' = NoTries
    /\ cached' = [p \in Paths |-> 0]
    /\ floor' = art
    /\ UNCHANGED <<done, worker, art, cursor>>

CatalogAdopted ==
    /\ stopping /\ worker.step = "idle"
    /\ IF started
       THEN /\ done' = Nothing /\ handback' = <<>> /\ surfaces' = surfaces - Retired
            /\ request' = NoPath /\ backlog' = <<>>
       ELSE UNCHANGED <<done, handback, surfaces, request, backlog>>
    /\ started' = FALSE /\ stopping' = FALSE
    /\ failures' = [i \in 1..FailMax |-> Unused] /\ failNext' = 1 /\ tries' = NoTries
    /\ cached' = [p \in Paths |-> 0]
    /\ floor' = art
    /\ UNCHANGED <<worker, art, cursor>>

-----------------------------------------------------------------------------
(* The world: files are replaced, and time passes. *)

Replace(p) ==
    /\ FoldFunction(+, 0, art) < MaxVersion - 1 + Cardinality(Paths)
    /\ art' = [art EXCEPT ![p] = @ + 1]
    /\ tries' = [tries EXCEPT ![p] = 0]
    /\ UNCHANGED <<started, stopping, request, backlog, worker, done, handback, failures,
                   failNext, cursor, cached, floor, surfaces>>

Elapse(i, due) ==
    /\ failures[i] # Unused
    /\ failures' = [failures EXCEPT ![i].stale = TRUE, ![i].due = @ \/ due]
    /\ failures' # failures
    /\ UNCHANGED <<started, stopping, request, backlog, worker, done, handback, failNext, art,
                   cursor, cached, floor, surfaces, tries>>

Next ==
    \/ Work
    \/ Start \/ DecodeInline \/ Take \/ Rescan \/ AdoptCatalog \/ CatalogAdopted
    \/ \E p \in Paths : Poll(p) \/ Enqueue(p) \/ MoveCursor(p) \/ Replace(p)
    \/ \E i \in 1..FailMax, due \in BOOLEAN : Elapse(i, due)

\* A cover that is neither shown nor known to be unreadable asks for another
\* frame in 40 ms.  A sweep queues a cover once, so some of these frames find
\* the worker on another file: hence strong fairness.
Redraw == ~HasFailed(cursor) /\ (Start \/ Take)

CoverSpec ==
    /\ Init /\ [][Next]_coverVars
    /\ WF_coverVars(Work) /\ SF_coverVars(Redraw) /\ WF_coverVars(CatalogAdopted)

-----------------------------------------------------------------------------
(* Properties. *)

\* Every decoded surface that was neither freed nor handed to the launcher is
\* in one of the three places that will free it.
NoneLost ==
    surfaces = Len(handback) + (IF done.surface # 0 THEN 1 ELSE 0)
                             + (IF worker.surface # 0 THEN 1 ELSE 0)

\* What the code does guarantee of a file that does not decode: the documented
\* limit (DecodedAtMost, below) is exceeded by no more than one decode.
RetriesBounded == \A p \in Paths : tries[p] <= Attempts + 1

\* After the artwork catalog changed, no cover decoded before it is shown.
NoneOutlivesCatalog == \A p \in Paths : cached[p] # 0 => cached[p] >= floor[p]

\* The cover the cursor rests on is eventually shown or known to be unreadable.
ServedNow(p) == p # cursor \/ cached[p] # 0 \/ HasFailed(p)

CoversKept == NoneLost /\ NoneOutlivesCatalog

CoversServed == []CoversKept /\ \A p \in Paths : []<>ServedNow(p)

-----------------------------------------------------------------------------
(* What the comments say and the code does not do. *)

\* "the same unchanged file is decoded at most JW_COVER_FAIL_ATTEMPTS times"
\* (cover_loader.h:27-30): a file that was not replaced, whose failure was not
\* evicted, and no rescan in between, is decoded no more often than that.
DecodedAtMost == \A p \in Paths : tries[p] <= Attempts
=============================================================================
