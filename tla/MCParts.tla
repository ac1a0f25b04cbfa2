------------------------------- MODULE MCParts -------------------------------
(***************************************************************************)
(* Small instances of the parts of Leaf that share no state with each      *)
(* other, checked side by side: part says which one runs in a behaviour    *)
(* while the others stay as they started.                                  *)
(***************************************************************************)
EXTENDS PakratTxn, LeafUpdate, HoldSave, SvcBackoff

VARIABLES
    part,                                        \* the part that runs
    started, stopping, request, backlog, worker, done, handback, failures, failNext, art,
    cursor, cached, floor, surfaces, tries,
    peer, slot, events, moves,
    queue, rows, slots, permits, quota, paused, leaving, writable, probed, asked, asks, flips,
    inserted, files, rowsOf, listed, approved, job, owner, tick, scan, again, deferred, told,
    orphans, changes,
    svc, leader, kids, stray, resv, store, game, hold, pkg, permit, medium, seen, stopDone,
    broken, awake, cont, sigchld, noted, stopped

Cover == INSTANCE CoverLoader WITH
    Paths <- {"sharp", "torn"}, NoPath <- "", MaxVersion <- 2, Attempts <- 2,
    Readable <- {<<"sharp", 1>>, <<"sharp", 2>>, <<"torn", 2>>},
    QueueMax <- 1, HandbackMax <- 1, FailMax <- 1

Ipc == INSTANCE IpcStream WITH
    NClients <- 3, Slots <- 2, QueueMax <- 1, MaxMoves <- 3, MaxEvents <- 1

Scrape == INSTANCE ScrapeBatch WITH
    Games <- {"g1", "g2"}, Workers <- 1..2, MaxAsks <- 2, MaxFlips <- 1

Delete == INSTANCE DeleteJob WITH
    Cards <- {"own", "other"}, Order <- <<"part", "launch">>, MaxEvents <- 2, events <- changes,
    disk <- files

Svc == INSTANCE SvcSupervisor WITH
    Services <- {"svc"}, NoService <- "none", Paks <- {"ok"}, BreakerLimit <- 2,
    Policies <- {[game |-> "stop", onFailure |-> TRUE, stopOn |-> {"suspend", "storage"}]},
    Features <- {"ctl", "game", "suspend", "descendants", "escape"}, Faults <- {},
    card <- medium, up <- awake

coverVars == <<started, stopping, request, backlog, worker, done, handback, failures,
               failNext, art, cursor, cached, floor, surfaces, tries>>
ipcVars == <<peer, slot, events, moves>>
scrapeVars == <<queue, rows, slots, permits, quota, paused, leaving, writable, probed, asked,
                asks, flips>>
deleteVars == <<inserted, files, rowsOf, listed, approved, job, owner, tick, scan, again,
                deferred, told, orphans, changes>>
serviceVars == <<svc, leader, kids, stray, resv, store, game, hold, pkg, permit, medium, seen,
                 stopDone, broken, awake, cont, sigchld, noted, stopped>>
vars == <<part, txnVars, updateVars, coverVars, ipcVars, holdVars, scrapeVars, deleteVars,
          backoffVars, serviceVars>>

PartsInit ==
    /\ part \in {"pakrat", "update", "cover", "ipc", "hold", "scrape", "delete", "backoff",
                "services"}
    /\ Init /\ UpdateInit /\ Cover!Init /\ Ipc!Init /\ HoldInit
    /\ Scrape!Init /\ Delete!Init /\ BackoffInit /\ Svc!Init
    \* a part that rests has one state to rest in
    /\ part # "pakrat" => target = None
    /\ part # "cover" => cursor = "sharp"
    /\ part # "delete" => inserted = "own"

\* The other parts stay as they started.
PakratOnly == part = "pakrat" /\ UNCHANGED <<part, updateVars, coverVars, ipcVars, holdVars,
                                             scrapeVars, deleteVars, backoffVars, serviceVars>>
UpdateOnly == part = "update" /\ UNCHANGED <<part, txnVars, coverVars, ipcVars, holdVars,
                                             scrapeVars, deleteVars, backoffVars, serviceVars>>
CoverOnly == part = "cover" /\ UNCHANGED <<part, txnVars, updateVars, ipcVars, holdVars,
                                           scrapeVars, deleteVars, backoffVars, serviceVars>>
IpcOnly == part = "ipc" /\ UNCHANGED <<part, txnVars, updateVars, coverVars, holdVars,
                                       scrapeVars, deleteVars, backoffVars, serviceVars>>
HoldOnly == part = "hold" /\ UNCHANGED <<part, txnVars, updateVars, coverVars, ipcVars,
                                         scrapeVars, deleteVars, backoffVars, serviceVars>>
ScrapeOnly == part = "scrape" /\ UNCHANGED <<part, txnVars, updateVars, coverVars, ipcVars,
                                             holdVars, deleteVars, backoffVars, serviceVars>>
DeleteOnly == part = "delete" /\ UNCHANGED <<part, txnVars, updateVars, coverVars, ipcVars,
                                             holdVars, scrapeVars, backoffVars, serviceVars>>
BackoffOnly == part = "backoff" /\ UNCHANGED <<part, txnVars, updateVars, coverVars, ipcVars,
                                               holdVars, scrapeVars, deleteVars, serviceVars>>
ServiceOnly == part = "services" /\ UNCHANGED <<part, txnVars, updateVars, coverVars, ipcVars,
                                                holdVars, scrapeVars, deleteVars, backoffVars>>

PartsNext ==
    \/ PakratOnly /\ Next
    \/ UpdateOnly /\ UpdateNext
    \/ CoverOnly /\ Cover!Next
    \/ IpcOnly /\ Ipc!Next
    \/ HoldOnly /\ HoldNext
    \/ ScrapeOnly /\ Scrape!Next
    \/ DeleteOnly /\ Delete!Next
    \/ BackoffOnly /\ BackoffNext
    \/ ServiceOnly /\ Svc!Next

\* What a step of the part that runs may change.
partVars == CASE part = "pakrat" -> txnVars
              [] part = "update" -> updateVars
              [] part = "cover" -> coverVars
              [] part = "ipc" -> ipcVars
              [] part = "hold" -> holdVars
              [] part = "scrape" -> scrapeVars
              [] part = "delete" -> deleteVars
              [] part = "backoff" -> backoffVars
              [] part = "services" -> serviceVars

\* Only one part runs in a behaviour, so fairness of a disjunction over the
\* parts is fairness of the disjunct of that part.
Fair == /\ WF_partVars(\/ PakratOnly /\ ClientStep
                       \/ UpdateOnly /\ PollInstall
                       \/ CoverOnly /\ Cover!Work
                       \/ IpcOnly /\ Ipc!Serve
                       \/ ScrapeOnly /\ Scrape!Scrapes
                       \/ DeleteOnly /\ Delete!Tick
                       \/ ServiceOnly /\ Svc!NoteChildExit)
        /\ WF_partVars(\/ PakratOnly /\ ServiceGone
                       \/ UpdateOnly /\ RunnerStep("child")
                       \/ CoverOnly /\ Cover!CatalogAdopted
                       \/ IpcOnly /\ Ipc!Elapses
                       \/ ServiceOnly /\ Svc!LeaderExitObserved("svc"))
        /\ WF_partVars(\/ UpdateOnly /\ Reaped
                       \/ DeleteOnly /\ Delete!Worker
                       \/ ServiceOnly /\ Svc!Escalate("svc"))
        /\ WF_partVars(ServiceOnly /\ Svc!Release("svc"))
        /\ WF_partVars(ServiceOnly /\ Svc!RestartPhase("svc"))
        /\ WF_partVars(ServiceOnly /\ svc["svc"].killSent /\ Svc!LeaderExits("svc"))
        /\ WF_partVars(ServiceOnly /\ svc["svc"].killSent /\ Svc!DescendantsExit("svc"))
        /\ SF_partVars(\/ PakratOnly /\ DaemonStep
                       \/ CoverOnly /\ Cover!Redraw
                       \/ DeleteOnly /\ Delete!Scanning)

PartsSpec == PartsInit /\ [][PartsNext]_vars /\ Fair

\* A part that rests is in an initial state, which is checked where it runs.
TypesOK == CASE part = "pakrat" -> TypeOK
             [] part = "update" -> UpdateTypeOK
             [] part = "cover" -> Cover!TypeOK
             [] part = "ipc" -> Ipc!TypeOK
             [] part = "hold" -> HoldTypeOK
             [] part = "scrape" -> Scrape!TypeOK
             [] part = "delete" -> Delete!TypeOK
             [] part = "backoff" -> BackoffTypeOK
             [] part = "services" -> Svc!TypeOK
CoversServed == /\ [](part = "cover" => Cover!CoversKept)
                /\ \A p \in {"sharp", "torn"} : []<>(part # "cover" \/ Cover!ServedNow(p))
ConnectionsServed == Ipc!ConnectionsServed
ScrapesServed == /\ [](part = "scrape" => Scrape!OnePlace /\ Scrape!CancelsItsOwn)
                 /\ []<>(part # "scrape" \/ Scrape!AtRest)
DeletionServed == /\ [](part = "delete" => Delete!DeletionKept)
                  /\ Delete!OnlyApproved
                  /\ []<>told /\ []<>~deferred /\ []<>(job = Delete!NoJob \/ owner)
StopCompletes == Svc!StopCompletes
ExitHandled == Svc!ExitHandled
LatchServed == Svc!LatchServed
StaleNoticed == Svc!StaleNoticed
=============================================================================
