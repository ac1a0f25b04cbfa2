----------------------------- MODULE PakratTxn -----------------------------
(***************************************************************************)
(* Pak Rat's install and uninstall transactions of one package, and the    *)
(* recovery that finishes them: the client of internal/store/pakrat.c, the *)
(* recovery of pakrat_recovery.c, the durable uninstall of pakrat_txn.c    *)
(* and jawakad's recovery tick, which adopts a gate whose client died.     *)
(*                                                                         *)
(* Durable state: the package's tree and its transition siblings, the      *)
(* install row (the commit point, named by its commit token) and the       *)
(* uninstall intent.  In memory: the flock, the supervisor's mutation gate *)
(* and whether the package's service runs.  A tree is the token of the     *)
(* install that staged it, Hand for a copy the user put there, or Torn for *)
(* what a removal cut short by a crash leaves.  A crash may fall between   *)
(* any two steps; a clearing of the origin marker is merged with the       *)
(* rename or removal before it, because the marker that the crash between  *)
(* them leaves is the one a crash after WriteOrigin leaves.                *)
(***************************************************************************)
EXTENDS Naturals, FiniteSets

CONSTANTS Tokens,      \* commit tokens, one per install the client attempts
          Inert,       \* the tokens whose package declares no service
          Faults,      \* of "io", "cleanup", "stop", "restart", "power", "kill"
          Races,       \* a transaction may start while recovery has work to do
          MaxFaults    \* bound: failures and crashes in one behaviour

None == "none"
Hand == "hand"
Torn == "torn"
Trees == Tokens \cup {Hand, Torn, None}
Service(t) == t \in Tokens \ Inert

VARIABLES
    target, stage, rollback,  \* the live tree and its siblings on the card
    origin,                   \* the write-ahead marker mapping rollback to target
    row,                      \* commit token of the install row, or None
    pending,                  \* the durable intent to uninstall
    lock,                     \* who holds the package's flock
    gate,                     \* the supervisor's mutation_active
    restart,                  \* package_was_effective of the gated entry
    running, enabled,         \* the service runs; it starts with Leaf
    client,                   \* the Pak Rat process: [at, op, token, moved, promoted]
    daemon,                   \* where jawakad's recovery tick is
    startup, up,              \* pakrat_startup_recovery_needed; requests are served
    left,                     \* the sweep's directory entries not read yet
    used, hits                \* tokens consumed; failures so far

disk == <<target, stage, rollback, origin>>
db == <<row, pending>>
service == <<gate, restart, running, enabled>>
boot == <<startup, up>>
txnVars == <<disk, db, lock, service, client, daemon, boot, left, used, hits>>

Actors == {"client", "daemon"}
Idle == [at |-> "idle", op |-> None, token |-> None,
         moved |-> FALSE, promoted |-> FALSE]

TypeOK ==
    /\ {target, stage, rollback} \subseteq Trees
    /\ row \in Tokens \cup {None}
    /\ {origin, pending, gate, restart, running, enabled, startup, up} \subseteq BOOLEAN
    /\ lock \in Actors \cup {None}
    /\ client.token \in Tokens \cup {None}
    /\ used \subseteq Tokens /\ hits \in 0 .. MaxFaults
    /\ left \subseteq {"target", "stage", "rollback", "origin", "discard"}

Init ==
    /\ target \in {None, Hand}
    /\ stage = None /\ rollback = None /\ origin = FALSE
    /\ row = None /\ pending = FALSE
    /\ lock = None /\ gate = FALSE /\ restart = FALSE
    /\ running = FALSE /\ enabled = FALSE
    /\ client = Idle /\ daemon = "idle"
    /\ startup = TRUE /\ up = FALSE
    /\ left = {} /\ used = {} /\ hits = 0

-----------------------------------------------------------------------------
At(a) == IF a = "client" THEN client.at ELSE daemon

Goto(a, place) ==
    IF a = "client"
    THEN client' = (IF place = "idle" THEN Idle ELSE [client EXCEPT !.at = place])
         /\ UNCHANGED daemon
    ELSE daemon' = place /\ UNCHANGED client

\* One use of the failure f: the budget bounds how often things go wrong.
Fails(f) == f \in Faults /\ hits < MaxFaults /\ hits' = hits + 1

\* An install that takes no flock is not seen by the recovery, nor the
\* recovery by it, and no install looks for a pending uninstall.  They meet
\* only when Races says so.
RecoveryAtRest == lock = None /\ ~gate /\ ~pending /\ ~startup /\ daemon = "idle"
Undisturbed == Races \/ client.op # "install" \/ lock = "client"

\* jawakad answers a request only between two recovery ticks.
Answers == up /\ daemon = "idle"

-----------------------------------------------------------------------------
(* The supervisor's mutation bracket.                                      *)

\* jw_svc_supervisor_mutation_begin: the gate closes before the service is
\* stopped, and stays closed when the stop cannot be verified.
CloseGate(stopped) ==
    /\ gate' = TRUE
    /\ restart' = running
    /\ running' = (running /\ ~stopped)
    /\ UNCHANGED enabled

\* jw_svc_supervisor_mutation_end: refused while the service is not verified
\* gone; otherwise the control is restored, or deleted when no service is
\* installed, and the service restarted if it ran.
OpenGate ==
    /\ gate' = FALSE /\ restart' = FALSE
    /\ running' = (restart /\ Service(row))
    /\ enabled' = (enabled /\ Service(row))

\* Run and start-with-Leaf from the menu, refused behind the gate.
UserStarts ==
    /\ Answers /\ ~gate /\ ~running /\ Service(target)
    /\ running' = TRUE
    /\ enabled' \in {enabled, TRUE}
    /\ UNCHANGED <<disk, db, lock, gate, restart, client, daemon, boot, left, used, hits>>

UserStops ==
    /\ Answers /\ ~gate /\ running
    /\ running' = FALSE
    /\ enabled' \in {enabled, FALSE}
    /\ UNCHANGED <<disk, db, lock, gate, restart, client, daemon, boot, left, used, hits>>

\* Services that start with Leaf start once the daemon is up.
Autostart ==
    /\ Answers /\ ~gate /\ ~running /\ enabled /\ Service(target)
    /\ running' = TRUE
    /\ UNCHANGED <<disk, db, lock, gate, restart, enabled, client, daemon, boot, left, used, hits>>

\* A service whose stop was not verified is reaped in the end.
ServiceGone ==
    /\ gate /\ running
    /\ running' = FALSE
    /\ UNCHANGED <<disk, db, lock, gate, restart, enabled, client, daemon, boot, left, used, hits>>

-----------------------------------------------------------------------------
(* Reconciling the transition siblings, one durable step at a time.  The    *)
(* client does it before it stages and after it failed, jawakad in its      *)
(* recovery.                                                                *)

\* jw__uncommitted_promote_reason: only the row's own tree is committed.
Committed == row # None /\ target = row

\* jw__pakrat_reconcile_transition has nothing left to move.
Reconciled == stage = None /\ rollback = None

Moves ==
    \/ /\ stage # None /\ stage' = None
       /\ UNCHANGED <<target, rollback, origin>>
    \/ /\ stage = None /\ target = None /\ rollback # None
       /\ target' = rollback /\ rollback' = None /\ origin' = FALSE
       /\ UNCHANGED stage
    \/ /\ stage = None /\ rollback # None /\ Committed
       /\ rollback' = None /\ origin' = FALSE
       /\ UNCHANGED <<target, stage>>
    \/ /\ stage = None /\ rollback # None /\ target # None /\ ~Committed
       /\ target' = None
       /\ UNCHANGED <<stage, rollback, origin>>

Reconcile(a) ==
    /\ At(a) = "reconcile" /\ ~Reconciled
    /\ Moves
    /\ UNCHANGED <<db, lock, service, client, daemon, boot, left, used, hits>>

\* The live tree of a row that is not the committed one needs a repair.
Inconsistent == row # None /\ target # None /\ target # row

\* jw__sweep_orphan_transition_dirs acts only on a package without a row; the
\* entries come in the directory's order.
Orphan == row = None /\ ~pending

Entries == {e \in {"target", "stage", "rollback", "origin"} :
               CASE e = "target"   -> target # None
                 [] e = "stage"    -> stage # None
                 [] e = "rollback" -> rollback # None
                 [] e = "origin"   -> origin}

SweepTarget ==
    /\ target' = IF target \in Tokens /\ ~origin THEN None ELSE target
    /\ left' = left \ {"target"}
    /\ UNCHANGED <<stage, rollback, origin>>

SweepStage ==
    /\ stage' = None
    /\ left' = left \ {"stage"}
    /\ UNCHANGED <<target, rollback, origin>>

SweepOrigin ==
    /\ origin' = (origin /\ rollback # None)
    /\ left' = left \ {"origin"}
    /\ UNCHANGED <<target, stage, rollback>>

\* A rollback without its mapping is retained.
SweepRollback ==
    /\ IF origin /\ target = None
       THEN target' = rollback /\ rollback' = None /\ origin' = FALSE
       ELSE origin' = FALSE /\ UNCHANGED <<target, rollback>>
    /\ left' = (left \ {"rollback"})
                   \cup (IF origin /\ target # None THEN {"discard"} ELSE {})
    /\ UNCHANGED stage

SweepDiscard ==
    /\ rollback' = None
    /\ left' = left \ {"discard"}
    /\ UNCHANGED <<target, stage, origin>>

Sweep(a) ==
    /\ At(a) = "sweep"
    /\ \/ "discard" \in left /\ SweepDiscard
       \/ /\ "discard" \notin left
          /\ \/ "target" \in left /\ SweepTarget
             \/ "stage" \in left /\ SweepStage
             \/ "origin" \in left /\ SweepOrigin
             \/ "rollback" \in left /\ SweepRollback
    /\ UNCHANGED <<db, lock, service, client, daemon, boot, used, hits>>

\* jw_pakrat_recover_installs: rows first, then what belongs to no row.
RecoverBegin(a) ==
    /\ At(a) = "recover"
    /\ IF row # None /\ ~pending
       THEN Goto(a, "reconcile") /\ UNCHANGED left
       ELSE Goto(a, "sweep") /\ left' = IF Orphan THEN Entries ELSE {}
    /\ UNCHANGED <<disk, db, lock, service, boot, used, hits>>

Recovering(a) == a = "daemon" \/ client.op = "recover"

\* Nothing is left to move; a live tree that is not the row's needs a repair,
\* for which the package stays behind the gate and the startup recovery stops.
RecoverRow(a) ==
    /\ At(a) = "reconcile" /\ Reconciled /\ Recovering(a)
    /\ origin' = (origin /\ Inconsistent)
    /\ Goto(a, IF Inconsistent THEN "idle" ELSE "end")
    /\ startup' = (startup /\ ~(a = "daemon" /\ Inconsistent /\ ~gate))
    /\ up' = (up \/ (a = "daemon" /\ Inconsistent))
    /\ lock' = IF a = "client" /\ Inconsistent THEN None ELSE lock
    /\ UNCHANGED <<target, stage, rollback, db, service, left, used, hits>>

RecoverOrphan(a) ==
    /\ At(a) = "sweep" /\ left = {}
    /\ Goto(a, "end")
    /\ UNCHANGED <<disk, db, lock, service, boot, left, used, hits>>

-----------------------------------------------------------------------------
(* Completing a durable uninstall, by the client or by jawakad:             *)
(* jw_pakrat_txn_complete_uninstall.                                        *)

RemoveTarget(a) ==
    /\ At(a) = "remove"
    /\ target' = None
    /\ Goto(a, "siblings")
    /\ UNCHANGED <<stage, rollback, origin, db, lock, service, boot, left, used, hits>>

RemoveSiblings(a) ==
    /\ At(a) = "siblings"
    /\ stage' = None /\ rollback' = None /\ origin' = FALSE
    /\ Goto(a, "forget")
    /\ UNCHANGED <<target, db, lock, service, boot, left, used, hits>>

\* Mutant of Forget: the intent is deleted with the files, before the row.
ForgetIntentOnly(a) ==
    /\ At(a) = "forget"
    /\ pending' = FALSE
    /\ enabled' = (enabled /\ ~Service(row))
    /\ Goto(a, IF a = "client" /\ lock # "client" THEN "idle" ELSE "end")
    /\ UNCHANGED <<disk, row, lock, gate, restart, running, boot, left, used, hits>>

\* The row, the intent and the service's control go in one commit, whoever of
\* the two gets there first.
Forget(a) ==
    /\ At(a) = "forget"
    /\ row' = None /\ pending' = FALSE
    /\ enabled' = (enabled /\ ~Service(row))
    /\ Goto(a, IF a = "client" /\ lock # "client" THEN "idle" ELSE "end")
    /\ UNCHANGED <<disk, lock, gate, restart, running, boot, left, used, hits>>

\* A step fails: the intent stays.  The client leaves the gate to jawakad,
\* which keeps the flock until it is done.
CompleteFails(a) ==
    /\ At(a) \in {"remove", "siblings", "forget"}
    /\ Fails("io")
    /\ Goto(a, "idle")
    /\ lock' = IF lock = a /\ a = "client" THEN None ELSE lock
    /\ up' = (up \/ a = "daemon")
    /\ UNCHANGED <<disk, db, service, startup, left, used>>

-----------------------------------------------------------------------------
(* The client.                                                              *)

ClientStarts(op, t, next) ==
    LET mutates == Service(row) \/ Service(t)
    IN  /\ up /\ client.at = "idle"
        /\ mutates => lock = None
        /\ Races \/ RecoveryAtRest \/ (mutates /\ ~pending)
        /\ lock' = IF mutates THEN "client" ELSE lock
        /\ client' = [Idle EXCEPT !.at = IF mutates THEN "gate" ELSE next,
                                  !.op = op, !.token = t]
        /\ UNCHANGED <<disk, db, service, daemon, boot, left, hits>>

\* The flock and the gate are taken when the installed or the candidate
\* package has a service.
\* jw_pakrat_install_app, its package downloaded and extracted; the adoption
\* of a tree without a row was consented to.
Install(t) ==
    /\ t \notin used /\ used' = used \cup {t}
    /\ ClientStarts("install", t, "reconcile")

Uninstall ==
    /\ row # None
    /\ ClientStarts("uninstall", None, "intent")
    /\ UNCHANGED used

\* Mutant of RequestGate: a stop that failed is taken for a success.
RequestGateRegardless ==
    /\ Answers /\ client.at = "gate"
    /\ \/ /\ ~gate
          /\ \/ CloseGate(TRUE) /\ UNCHANGED hits
             \/ running /\ Fails("stop") /\ CloseGate(FALSE)
          /\ client' = [client EXCEPT !.at =
                            IF client.op = "install" THEN "reconcile" ELSE "intent"]
          /\ UNCHANGED lock
       \/ /\ gate
          /\ client' = Idle /\ lock' = None
          /\ UNCHANGED <<service, hits>>
    /\ UNCHANGED <<disk, db, daemon, boot, left, used>>

\* package-mutation-begin
RequestGate ==
    /\ Answers /\ client.at = "gate"
    /\ \/ /\ ~gate /\ CloseGate(TRUE)
          /\ client' = [client EXCEPT !.at =
                            IF client.op = "install" THEN "reconcile" ELSE "intent"]
          /\ UNCHANGED <<lock, hits>>
       \/ /\ ~gate /\ running /\ Fails("stop") /\ CloseGate(FALSE)
          /\ client' = Idle /\ lock' = None
       \/ /\ gate
          /\ client' = Idle /\ lock' = None
          /\ UNCHANGED <<service, hits>>
    /\ UNCHANGED <<disk, db, daemon, boot, left, used>>

Client(place) == client' = [client EXCEPT !.at = place]
ClientOnDisk == UNCHANGED <<db, lock, service, daemon, boot, left, used, hits>>

Stage ==
    /\ client.at = "reconcile" /\ client.op = "install"
    /\ Reconciled /\ ~Inconsistent
    /\ origin' = FALSE /\ stage' = client.token
    /\ Client("staged")
    /\ UNCHANGED <<target, rollback>> /\ ClientOnDisk

WriteOrigin ==
    /\ client.at = "staged" /\ target # None
    /\ origin' = TRUE
    /\ Client("aside")
    /\ UNCHANGED <<target, stage, rollback>> /\ ClientOnDisk

MoveAside ==
    /\ client.at = "aside"
    /\ rollback' = target /\ target' = None
    /\ client' = [client EXCEPT !.at = "promote", !.moved = TRUE]
    /\ UNCHANGED <<stage, origin>> /\ ClientOnDisk

\* Mutant of Promote: the row is written with the promotion, the bytes not
\* yet flushed, so that a failure after it rolls a recorded tree back.
PromoteAndRecord ==
    /\ \/ client.at = "promote"
       \/ client.at = "staged" /\ target = None
    /\ target' = stage /\ stage' = None
    /\ row' = client.token
    /\ client' = [client EXCEPT !.at = "commit", !.promoted = TRUE]
    /\ UNCHANGED <<rollback, origin, pending, lock, service, daemon, boot, left, used, hits>>

Promote ==
    /\ \/ client.at = "promote"
       \/ client.at = "staged" /\ target = None
    /\ target' = stage /\ stage' = None
    /\ client' = [client EXCEPT !.at = "commit", !.promoted = TRUE]
    /\ UNCHANGED <<rollback, origin>> /\ ClientOnDisk

\* The promoted tree was validated and flushed; the row with its token, the
\* metadata and the control of a service that is gone are one commit.
Commit ==
    /\ client.at = "commit"
    /\ row' = client.token
    /\ enabled' = (enabled /\ Service(client.token))
    /\ Client("committed")
    /\ UNCHANGED <<disk, pending, lock, gate, restart, running, daemon, boot, left, used, hits>>

Committing == client.at = "committed"
Over == IF lock = "client" THEN [client EXCEPT !.at = "end"] ELSE Idle

\* Cleanup after the commit may be put off; it never rolls anything back.
DropRollback ==
    /\ Committing
    /\ client' = Over
    /\ \/ /\ rollback' = IF client.moved THEN None ELSE rollback
          /\ origin' = (origin /\ ~client.moved)
          /\ UNCHANGED hits
       \/ /\ client.moved /\ Fails("cleanup")
          /\ rollback' = Torn
          /\ UNCHANGED origin
    /\ UNCHANGED <<target, stage, db, lock, service, daemon, boot, left, used>>

\* Before the commit every step may fail, and the live tree is put back.
InstallFails ==
    /\ client.op = "install"
    /\ client.at \in {"reconcile", "staged", "aside", "promote", "commit"}
    /\ Fails("io")
    /\ origin' = (origin /\ client.at # "aside")
    /\ Client("undo")
    /\ UNCHANGED <<target, stage, rollback, db, lock, service, daemon, boot, left, used>>

UndoPromote ==
    /\ client.at = "undo"
    /\ target' = IF client.promoted THEN None ELSE target
    /\ Client("restore")
    /\ UNCHANGED <<stage, rollback, origin>> /\ ClientOnDisk

\* What follows the cleanup: recovery before the gate is opened.
Undone == IF lock = "client"
          THEN [client EXCEPT !.at = "recover", !.op = "recover"] ELSE Idle

UndoAside ==
    /\ client.at = "restore"
    /\ target' = IF client.moved THEN rollback ELSE target
    /\ rollback' = IF client.moved THEN None ELSE rollback
    /\ origin' = (origin /\ ~client.moved)
    /\ stage' = None
    /\ client' = Undone
    /\ ClientOnDisk

UndoFails ==
    /\ client.at \in {"undo", "restore"}
    /\ IF client.at = "undo" THEN client.promoted ELSE client.moved
    /\ Fails("io")
    /\ stage' = None
    /\ client' = Undone
    /\ UNCHANGED <<target, rollback, origin, db, lock, service, daemon, boot, left, used>>

\* pending_persist
WriteIntent ==
    /\ client.at = "intent"
    /\ \/ pending' = TRUE /\ Client("remove") /\ UNCHANGED hits
       \/ Fails("io") /\ client' = Over /\ UNCHANGED pending
    /\ UNCHANGED <<disk, row, lock, service, daemon, boot, left, used>>

\* package-mutation-end; on a failure the flock is dropped all the same, and
\* jawakad adopts the gate.
ReleaseGate ==
    /\ Answers /\ client.at = "end"
    /\ \/ gate /\ OpenGate /\ UNCHANGED hits
       \/ /\ gate /\ restart /\ Service(row) /\ Fails("restart")
          /\ UNCHANGED service
    /\ client' = Idle /\ lock' = None
    /\ UNCHANGED <<disk, db, daemon, boot, left, used>>

-----------------------------------------------------------------------------
(* jawakad's recovery tick, within which it answers no request.             *)

DaemonAt(place) == daemon' = place /\ UNCHANGED client
Continue == IF pending THEN "remove" ELSE "recover"

\* Mutant of TickAdopt: only a gate whose flock is free is taken up.
TickAdoptOnce ==
    /\ daemon = "idle" /\ Undisturbed /\ gate /\ lock = None
    /\ lock' = "daemon"
    /\ DaemonAt(Continue)
    /\ UNCHANGED <<disk, db, service, boot, left, used, hits>>

\* A gate without a living owner is adopted, and finished on every tick.
TickAdopt ==
    /\ daemon = "idle" /\ Undisturbed /\ gate /\ lock # "client"
    /\ lock' = "daemon"
    /\ DaemonAt(Continue)
    /\ UNCHANGED <<disk, db, service, boot, left, used, hits>>

\* An intent without a gate: jawakad takes the flock and closes the gate.  The
\* signature of the database file, which saves it the query as long as nothing
\* was written, is left out: an intent only appears through a write.
TickPending ==
    /\ daemon = "idle" /\ Undisturbed /\ ~gate /\ pending /\ lock = None
    /\ \/ /\ CloseGate(TRUE) /\ lock' = "daemon" /\ DaemonAt("remove")
          /\ UNCHANGED <<up, hits>>
       \/ /\ running /\ Fails("stop") /\ CloseGate(FALSE)
          /\ DaemonAt("idle") /\ up' = TRUE /\ UNCHANGED lock
    /\ UNCHANGED <<disk, db, startup, left, used>>

\* The startup recovery, once no transaction is left.
TickStartup ==
    /\ daemon = "idle" /\ Undisturbed /\ ~gate /\ ~pending /\ startup
    /\ DaemonAt("recover")
    /\ UNCHANGED <<disk, db, lock, service, boot, left, used, hits>>

\* jw__installed_service_state and mutation_end, retried while it is refused.
TickRelease ==
    /\ daemon = "end" /\ gate
    /\ \/ /\ ~running /\ OpenGate
          /\ lock' = None
          /\ DaemonAt(IF startup /\ ~pending THEN "recover" ELSE "idle")
          /\ up' = (up \/ ~startup)
          /\ UNCHANGED hits
       \/ /\ \/ running /\ UNCHANGED hits
             \/ ~running /\ restart /\ Service(row) /\ Fails("restart")
          /\ DaemonAt("idle") /\ up' = TRUE
          /\ UNCHANGED <<service, lock>>
    /\ UNCHANGED <<disk, db, startup, left, used>>

TickRecovered ==
    /\ daemon = "end" /\ ~gate
    /\ DaemonAt("idle")
    /\ startup' = FALSE /\ up' = TRUE
    /\ UNCHANGED <<disk, db, lock, service, left, used, hits>>

-----------------------------------------------------------------------------
(* Crashes.  A removal they cut short leaves a torn tree.                   *)

Removes(a) ==
    CASE At(a) = "remove"   -> {"target"}
      [] At(a) = "siblings" -> {"stage", "rollback"}
      [] At(a) = "undo" /\ client.promoted -> {"target"}
      [] At(a) = "committed" /\ client.moved -> {"rollback"}
      [] At(a) = "reconcile" ->
            IF stage # None THEN {"stage"}
            ELSE IF rollback = None \/ target = None THEN {}
            ELSE IF Committed THEN {"rollback"} ELSE {"target"}
      [] At(a) = "sweep" ->
            (left \cap {"stage"})
              \cup (IF "discard" \in left THEN {"rollback"} ELSE {})
              \cup (IF "target" \in left /\ target \in Tokens /\ ~origin
                    THEN {"target"} ELSE {})
      [] OTHER -> {}

Tear(cut, name, tree) == IF cut = name /\ tree # None THEN Torn ELSE tree

Tears(removed) ==
    \E cut \in removed \cup {"nothing"} :
        /\ target' = Tear(cut, "target", target)
        /\ stage' = Tear(cut, "stage", stage)
        /\ rollback' = Tear(cut, "rollback", rollback)

PowerLoss ==
    /\ Fails("power")
    /\ Tears(Removes("client") \cup Removes("daemon"))
    /\ lock' = None /\ gate' = FALSE /\ restart' = FALSE /\ running' = FALSE
    /\ client' = Idle /\ daemon' = "idle" /\ left' = {}
    /\ startup' = TRUE /\ up' = FALSE
    /\ UNCHANGED <<origin, db, enabled, used>>

ClientKilled ==
    /\ client.at # "idle" /\ Fails("kill")
    /\ Tears(Removes("client"))
    /\ client' = Idle
    /\ lock' = IF lock = "client" THEN None ELSE lock
    /\ left' = IF client.at = "sweep" THEN {} ELSE left
    /\ UNCHANGED <<origin, db, service, daemon, boot, used>>

-----------------------------------------------------------------------------
Recovery(a) ==
    \/ RecoverBegin(a) \/ Reconcile(a) \/ RecoverRow(a)
    \/ Sweep(a) \/ RecoverOrphan(a)

Completion(a) ==
    RemoveTarget(a) \/ RemoveSiblings(a) \/ Forget(a) \/ CompleteFails(a)

ClientStep ==
    \/ RequestGate \/ Stage \/ WriteOrigin \/ MoveAside \/ Promote \/ Commit
    \/ DropRollback \/ InstallFails \/ UndoPromote \/ UndoAside \/ UndoFails
    \/ WriteIntent \/ ReleaseGate
    \/ Recovery("client") \/ Completion("client")

DaemonStep ==
    \/ TickAdopt \/ TickPending \/ TickStartup \/ TickRelease \/ TickRecovered
    \/ Recovery("daemon") \/ Completion("daemon")

User == UserStarts \/ UserStops \/ Autostart \/ Uninstall \/ \E t \in Tokens : Install(t)

Next == ClientStep \/ DaemonStep \/ ServiceGone \/ User \/ PowerLoss \/ ClientKilled

Spec == Init /\ [][Next]_txnVars

FairSpec ==
    /\ Spec
    /\ WF_txnVars(ClientStep)
    /\ SF_txnVars(DaemonStep)
    /\ WF_txnVars(ServiceGone)

-----------------------------------------------------------------------------
\* A recorded install is never lost: at every instant, with a crash between
\* any two steps of the client's or of the recovery's, the tree of the row is
\* on the card, live or moved aside, until its uninstall was confirmed.
RecordedTreeSurvives == row # None /\ ~pending => row \in {target, rollback}

\* The files of a recorded service are never changed beneath it: it was
\* verified stopped before a transaction touched them, and neither a failed
\* stop, nor a recovery, nor a gate adopted from a dead client lets it run.
RunningTreeUntouched ==
    [][Service(row) /\ running /\ running' => target' = target]_txnVars

\* An intent to uninstall goes only with the record and the files: no crash,
\* failure or second actor leaves a half-removed package that nothing recalls.
IntentOutlivesPackage ==
    [][pending /\ ~pending'
        => /\ row' = None /\ target' = None
           /\ stage' = None /\ rollback' = None]_txnVars

\* A confirmed uninstall is completed and an abandoned gate opened again.
TransactionsResolve == []<>(~pending /\ ~gate)

\* The user's own copy, adopted with consent, stays on the card until the
\* install that replaces it is committed: "A rollback tree may be the only
\* surviving copy of an app ... never delete it blind."
AdoptedCopySurvives ==
    [][row = None /\ row' = None /\ Hand \in {target, rollback}
        => Hand \in {target', rollback'}]_txnVars
=============================================================================
