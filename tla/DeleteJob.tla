------------------------------ MODULE DeleteJob ------------------------------
(***************************************************************************)
(* Deleting a game: the job of src/internal/discovery/delete_job.c, whose  *)
(* thread removes the files and then the rows of the library, and the      *)
(* daemon's main loop that starts it, polls it from another thread, and    *)
(* keeps library scans away from it.  Meanwhile the card is exchanged and  *)
(* the client may hang up.                                                 *)
(*                                                                         *)
(* A game is a launch file and the files that it names, on one slot for    *)
(* cards.  Progress, texts, what else the daemon refuses while it deletes, *)
(* relocations, hidden games, a library that cannot be written when a scan *)
(* is asked for, and the exit of the daemon are left out.                  *)
(***************************************************************************)
EXTENDS Naturals, Sequences

CONSTANTS
    Cards,      \* the cards that are put into the slot; each has the game
    Order,      \* the game's files, in the order they are removed
    MaxEvents   \* bound: exchanges of the card and requests for a scan

VARIABLES
    inserted,   \* the card in the slot
    disk,       \* of each card, the files that it has
    rowsOf,     \* the card that the rows of the library belong to
    listed,     \* the files that the library has a row for
    approved,   \* the digest that a client got from a preview
    job,        \* delete_job
    owner,      \* delete_connection >= 0: the client is still there
    tick,       \* jw__tick_delete has sampled whether the job is busy
    scan,       \* scan_job
    again,      \* pending_rescan
    deferred,   \* delete_pending_scan
    told,       \* the generation was advanced since the library last changed
    orphans,    \* a cleanup of the library failed since the last scan
    events      \* events so far

deleteVars == <<inserted, disk, rowsOf, listed, approved, job, owner, tick, scan, again,
                deferred, told, orphans, events>>

Files == {Order[i] : i \in 1..Len(Order)}
Launch == Order[Len(Order)]

NoDigest == [card |-> "", files |-> {}]
Digests == {NoDigest} \cup [card : Cards, files : SUBSET Files]

\* done: how many files have an outcome; ok: rc == 0; changed is published with
\* the final phase.
NoJob == [stage |-> "none"]
Fresh(d) == [stage |-> "build", digest |-> d, done |-> 0, ok |-> FALSE, changed |-> FALSE]
Jobs == [stage : {"build", "remove", "commit", "publish", "over"}, digest : Digests,
         done : 0..Len(Order), ok : BOOLEAN, changed : BOOLEAN]

Busy == job.stage \notin {"none", "over"}
Finished == job.stage = "over"

\* A launch file that is missing names nothing.
Plan == IF Launch \in job.digest.files THEN Order ELSE <<Launch>>
Outcomes == {Plan[i] : i \in 1..job.done}

TypeOK ==
    /\ inserted \in Cards /\ disk \in [Cards -> SUBSET Files]
    /\ rowsOf \in Cards /\ listed \subseteq Files
    /\ approved \in Digests
    /\ job \in {NoJob} \cup Jobs
    /\ {owner, again, deferred, told, orphans} \subseteq BOOLEAN
    /\ tick \in {"idle", "busy", "free"}
    /\ scan \in {"idle", "running", "completed", "failed"}
    /\ events \in 0..MaxEvents

Init ==
    /\ inserted \in Cards /\ disk = [c \in Cards |-> Files]
    /\ rowsOf = inserted /\ listed = Files
    /\ approved = NoDigest /\ job = NoJob /\ owner = FALSE
    /\ tick = "idle" /\ scan = "idle" /\ again = FALSE /\ deferred = FALSE
    /\ told = TRUE /\ orphans = FALSE /\ events = 0

-----------------------------------------------------------------------------
(* The world *)

Exchange ==
    /\ events < MaxEvents /\ events' = events + 1
    /\ \E c \in Cards \ {inserted} : inserted' = c
    /\ UNCHANGED <<disk, rowsOf, listed, approved, job, owner, tick, scan, again, deferred,
                   told, orphans>>

\* The connection of the job is dropped; the job goes on.
HangUp ==
    /\ tick = "idle" /\ owner /\ owner' = FALSE
    /\ UNCHANGED <<inserted, disk, rowsOf, listed, approved, job, tick, scan, again, deferred,
                   told, orphans, events>>

-----------------------------------------------------------------------------
(* The daemon's main loop *)

\* jw__build succeeds: the rows are those of the card, and it has one to delete.
Buildable == inserted = rowsOf /\ Launch \in listed
Digest == [card |-> inserted, files |-> disk[inserted]]

\* One job at a time, and none while a scan runs or waits to be taken.
Gate == tick = "idle" /\ job = NoJob /\ scan = "idle"

Preview ==
    /\ Gate /\ Buildable /\ approved' = Digest
    /\ UNCHANGED <<inserted, disk, rowsOf, listed, job, owner, tick, scan, again, deferred,
                   told, orphans, events>>

Delete ==
    /\ Gate /\ approved # NoDigest
    /\ job' = Fresh(approved) /\ owner' = TRUE
    /\ UNCHANGED <<inserted, disk, rowsOf, listed, approved, tick, scan, again, deferred, told,
                   orphans, events>>

\* Mutant of StartScan: a scan does not wait for the job.
StartScanRegardless ==
    /\ scan' = (IF scan = "idle" THEN "running" ELSE scan)
    /\ again' = (again \/ scan # "idle") /\ deferred' = FALSE

\* jw__start_scan_job_with_titles
StartScan ==
    IF Busy THEN deferred' = TRUE /\ UNCHANGED <<scan, again>>
    ELSE /\ scan' = (IF scan = "idle" THEN "running" ELSE scan)
         /\ again' = (again \/ scan # "idle") /\ deferred' = FALSE

RequestScan ==
    /\ tick = "idle" /\ events < MaxEvents /\ events' = events + 1
    /\ StartScan
    /\ UNCHANGED <<inserted, disk, rowsOf, listed, approved, job, owner, tick, told, orphans>>

\* jw__tick_scan_job: a scan that succeeded advances the generation.
TickScan ==
    /\ tick = "idle" /\ scan \in {"completed", "failed"}
    /\ told' = (told \/ scan = "completed")
    /\ scan' = (IF again THEN "running" ELSE "idle") /\ again' = FALSE
    /\ UNCHANGED <<inserted, disk, rowsOf, listed, approved, job, owner, tick, deferred, orphans,
                   events>>

\* jw__tick_delete samples whether the job is busy ...
TickSample ==
    /\ tick = "idle" /\ tick' = IF Busy THEN "busy" ELSE "free"
    /\ UNCHANGED <<inserted, disk, rowsOf, listed, approved, job, owner, scan, again, deferred,
                   told, orphans, events>>

\* ... then takes what the job has changed, and if it was not busy destroys it
\* when its client is gone and starts the scan that waited.
TickRest ==
    /\ tick # "idle" /\ tick' = "idle"
    /\ told' = (told \/ (job # NoJob /\ job.changed))
    /\ job' = IF job = NoJob \/ (tick = "free" /\ ~owner) THEN NoJob
              ELSE [job EXCEPT !.changed = FALSE]
    /\ IF tick = "free" /\ deferred THEN StartScan ELSE UNCHANGED <<scan, again, deferred>>
    /\ UNCHANGED <<inserted, disk, rowsOf, listed, approved, owner, orphans, events>>

-----------------------------------------------------------------------------
(* The threads *)

\* A scan makes the rows those of the card and its files.
ScanEnds ==
    /\ scan = "running"
    /\ \/ scan' = "failed" /\ UNCHANGED <<rowsOf, listed, orphans, told>>
       \/ /\ scan' = "completed"
          /\ rowsOf' = inserted /\ listed' = disk[inserted] /\ orphans' = FALSE
          /\ told' = (told /\ rowsOf' = rowsOf /\ listed' = listed)
    /\ UNCHANGED <<inserted, disk, approved, job, owner, tick, again, deferred, events>>

\* The plan is made again and compared with what was approved; artwork work is
\* cancelled and the library's transaction begun, all of which may fail.
Build ==
    /\ job.stage = "build"
    /\ \/ job' = [job EXCEPT !.stage = "publish"]
       \/ Buildable /\ Digest = job.digest /\ job' = [job EXCEPT !.stage = "remove"]
    /\ UNCHANGED <<disk, listed, told, orphans>>

\* The guard looks at the card again before each file.  A removal whose
\* directory cannot be synced ends the job, and has its outcome.
Remove ==
    /\ job.stage = "remove"
    /\ \/ job' = [job EXCEPT !.stage = "commit"] /\ UNCHANGED disk
       \/ /\ inserted = rowsOf
          /\ disk' = [disk EXCEPT ![inserted] = @ \ {Plan[job.done + 1]}]
          /\ \/ disk' # disk /\ job' = [job EXCEPT !.done = @ + 1, !.stage = "commit"]
             \/ /\ job.done + 1 < Len(Plan) /\ job' = [job EXCEPT !.done = @ + 1]
             \/ /\ job.done + 1 = Len(Plan)
                /\ job' = [job EXCEPT !.done = @ + 1, !.ok = TRUE, !.stage = "commit"]
    /\ UNCHANGED <<listed, told, orphans>>

\* Mutant of Reconciled: only a job that removed every file cleans up.
ReconciledWhole == IF job.ok THEN listed \ Outcomes ELSE listed

\* jw_db_reconcile_removed_roms, whatever became of the job.
Reconciled == listed \ Outcomes

\* The library is cleaned up and committed, or rolled back.
Commit ==
    /\ job.stage = "commit"
    /\ told' = (told /\ job.done = 0)
    /\ \/ listed' = Reconciled /\ job' = [job EXCEPT !.stage = "publish"] /\ UNCHANGED orphans
       \/ /\ job' = [job EXCEPT !.stage = "publish", !.ok = FALSE]
          /\ orphans' = (orphans \/ job.done > 0) /\ UNCHANGED listed
    /\ UNCHANGED disk

Publish ==
    /\ job.stage = "publish"
    /\ job' = [job EXCEPT !.stage = "over", !.changed = job.done > 0]
    /\ UNCHANGED <<disk, listed, told, orphans>>

Worker ==
    /\ Build \/ Remove \/ Commit \/ Publish
    /\ UNCHANGED <<inserted, rowsOf, approved, owner, tick, scan, again, deferred, events>>

Tick == TickSample \/ TickRest

Next ==
    \/ Exchange \/ HangUp \/ Preview \/ Delete \/ RequestScan
    \/ Tick \/ TickScan \/ ScanEnds \/ Worker

\* The main loop and the threads run; a pass of the loop sees a scan that ended.
Scanning == TickScan \/ ScanEnds

DeleteSpec ==
    /\ Init /\ [][Next]_deleteVars
    /\ WF_deleteVars(Tick) /\ WF_deleteVars(Worker) /\ SF_deleteVars(Scanning)

-----------------------------------------------------------------------------
(* Properties *)

\* Only files that the user was shown are removed, and from the card they were
\* shown of, however often the cards are exchanged.
OnlyApproved ==
    [][\A c \in Cards : disk[c] \ disk'[c] \subseteq
          (IF job # NoJob /\ job.digest.card = c THEN job.digest.files ELSE {})]_disk

\* A deletion that failed half-way can be asked for again: the launch file goes
\* last, no scan works on the library with the job, and only where a cleanup
\* failed has the library a row without its file.
DeletionKept ==
    /\ \A c \in Cards : Launch \notin disk[c] => disk[c] = {}
    /\ ~(Busy /\ scan = "running")
    /\ job.stage \in {"remove", "commit"} \/ orphans \/ listed \subseteq disk[rowsOf]
    /\ job = NoJob /\ scan = "idle" => told

\* What was deleted is published before the job is forgotten, a scan that waited
\* for the job starts, and a job whose client hung up is forgotten.
DeletionServed ==
    /\ []DeletionKept /\ OnlyApproved
    /\ []<>told /\ []<>~deferred /\ []<>(job = NoJob \/ owner)
=============================================================================
