# Formal models of Jawaka

TLA+ modules for the control logic of Jawaka, the launcher and system daemon in
this repository, the TLC configurations that check them on small instances, and
theorems that TLAPS proves for every instance.

Parse with `tlasany M.tla`, check with `tlc -config X.cfg M.tla` (the module of
each configuration is in section 5), prove with `tlapm M_proofs.tla`.

| module | models | checked through |
|---|---|---|
| `SvcSupervisor` | the background-service supervisor and the barriers around it | `MCSvcSupervisor`, `MCParts` |
| `SvcSupervisor_proofs` | its inductive invariant, the theorems read off it, that it implements `SvcGeneration`; then stops, safe unmounts, idle states and the backoff | - |
| `SvcGeneration` | what the supervisor promises about processes: the abstract specification | `MCSvcSupervisor` |
| `SvcBackoff` | the failure window and the breaker | `MCParts` |
| `GameLaunch`, `GameLaunch_proofs` | LIFE-1: coordinating a game launch with services, writer and launcher, with its theorems | `MCGameLaunch` |
| `GameIsolation_proofs` | that no game starts beside a service that is not ready for it | - |
| `PakratTxn` | package install, uninstall, recovery | `MCParts` and itself |
| `LeafUpdate` | the update of Leaf: jobs, runner, barrier, boot | `MCParts` |
| `Install_proofs` | theorems of `PakratTxn` and `LeafUpdate`: what gets installed | - |
| `DeleteJob`, `DeleteJob_proofs` | deleting a game beside library scans | `MCParts` |
| `ScrapeBatch`, `ScrapeBatch_proofs` | the artwork batch and its threads, with its theorems | `MCParts` |
| `HoldSave` | the save before a power-off by a long press | `MCParts` |
| `IpcStream` | the daemon's connections | `MCParts` |
| `DaemonLoop_proofs` | theorems of `HoldSave` and `IpcStream`: the key and the socket of the main loop | - |
| `CoverLoader`, `CoverLoader_proofs` | the launcher's cover decoder, with its theorems | `MCParts`, `MCCoverLoader` |

---

## 1. The system

`jawakad` (`cmd/jawakad/main.c`) is a single-threaded daemon. One loop polls
input, serves a Unix socket (length-prefixed JSON), reaps children, and runs a
list of ticks. It starts the UI programs (launcher, menu, on-screen display) and
the games, and supervises background services that installed packages ("paks")
declare. Several components are sequential data code; the ones below hold state
that survives from one event to the next.

| component | state it keeps | operations | interacts with |
|---|---|---|---|
| **Service supervisor** `internal/services` | per service: package and policy, effective state, intents (enabled, session Run, startup enablement), the owned group and lease, stop latches, resume latches, backoff; per daemon: game, storage hold, package barrier, mutation bracket | scan, CTL-1 enable/disable/run/stop/restart, tick, package begin/end, mutation begin/end, game stop/finish, suspend, storage change, stop_all | main loop, control store, lease and reservation files, service processes |
| **Game coordination (LIFE-1)** `main.c`, `launcher/active_game.c`, `ipc/life1.c` | durable active-game record, pending launch, one exchange per subscriber with deadlines | launch request, exchange replies and timeouts, fallback stops, writer start, writer exit barrier, recovery at startup | supervisor, game processes, subscribers |
| **Pakrat** `internal/store` | journal, staged trees, installed records, mutation lock | install, update, uninstall, recovery | supervisor (PKG-1, TXN-1), file system |
| **Leaf update** `internal/update`, `cmd/jawaka-update-runner` | download and check jobs, request and result files | download, verify, hand over, promote | supervisor (package barrier), reboot |
| **Power** `internal/power` | hold-save phase and deadlines; one-shot boot-resume ticket; inhibitor leases | key edges, tick, save outcome; write/take ticket; acquire/release | RetroArch command port, main loop |
| **Storage** `internal/storage` | health of every source, refresh requests | write checks, refresh | settings, main loop, supervisor |
| **Library** `internal/discovery`, `internal/db` | library database, delete jobs | scan, delete preview/commit | scraper, IPC |
| **IPC** `internal/ipc` | partial frames, send queues, connection slots | read, write, deadline, disconnect | every client |
| **Launcher** `cmd/jawaka-launcher`, `internal/launcher` | UI state; cover loader with a worker thread | navigation; request, hand-back | daemon |
| **Scraper** `internal/scrape` | worker slots, cancellation | queue, interrupt, finish | delete jobs |
| **Platform, settings, RetroArch, catalog, focus, i18n** | configuration and device I/O | - | everything |

What is hard in it: the daemon shares its services' fate with processes it does
not control (they fork, ignore SIGTERM, leave their group, outlive the daemon);
almost every operation can fail in the middle; requests arrive between the start
and the end of an asynchronous stop; four independent barriers (package, game,
storage, suspend) may each stop and later restart the same service; and the
daemon may be killed at any moment.

What makes each component correct:

- *Supervisor.* Never two generations of one service; never lose a group that
  was started; never report absence that was not verified; never start across a
  barrier; give back what a barrier took, once; let a user's stop win.
- *Game coordination.* The writer starts only after every participant answered
  or was verifiably stopped; the record is durable before the first stop and
  cleared only after the writer's group is gone; every exchange ends.
- *Pakrat, update.* After a crash at any step and recovery, the old or the new
  package is installed and recorded, never a mixture.
- *Power.* The save is admitted only inside its window; the ticket is used at
  most once.
- *Delete job, cover loader, scraper, IPC.* A result belongs to the request it
  is delivered for; a worker is never left with freed state; every job ends.

`PROJECT.json` lists every component with what is modelled of it, and every
hazard with the properties that cover it, or why none does yet.

---

## 2. SvcSupervisor

### 2.1 What is one step

Every public function of `supervisor.c` runs on the daemon's only thread
(`supervisor.h`, "REENTRANCY / THREADING"), and the daemon does nothing else
meanwhile: an IPC handler, a lifecycle trigger or one service's share of a tick
is one atomic step. A tick visits the services in order and touches each of them
independently; between the passes of two services the model lets other handlers
run, which only adds behaviours. Within the pass of one service the order of the
phases is kept: after `Release`, or after a resume that failed, `cont` holds the
service until the rest of its pass has been decided (`PassDone` or one of the
later phases).

The processes are the other actors: between any two daemon steps a leader may
exit, a descendant may be forked, die, or leave the group by `setsid()` with the
inherited lease descriptor (`Escape`), and a card may come or go.

### 2.2 State

| variable | code |
|---|---|
| `svc[s]` | `jw_svc_supervised`: `owned` is `pgid > 0` (and the lease held); `pak` stands for `pak_present`, `manifest_valid`, `on_secondary_root`; `policy` for `manifest`; `active` for the `active_*` snapshot; `state`, `reason` for `state`, `pending_stop_reason`; `session`, `desired`, `autostart`, `killSent`, `reapPending`, `stopRequested`, `restartAfter` (`post_stop`), `unverified` (`stop_unverified_logged`), `lifecycle`, `gameLatch` (`lifecycle_` and `game_restart_pending`), `blocked`, `restore` (the package snapshot), `fails`, `breaker` (`backoff`) for the fields of those names |
| `leader`, `kids` | the group the service last started: its leader, and whether other members live; a group is absent (`Gone`) when its leader is at most a zombie and nobody else lives (`ownership.c`) |
| `stray` | somebody else who holds the lease: `escaped` left the group in this session, `orphan` survived a daemon that is gone |
| `resv` | the policy in the reservation file; an unreadable one reads as the fail-safe policy |
| `store` | the row in `services-control.db` |
| `game`, `hold`, `pkg` | `game_active` and the durable record, `storage_restart_blocked`, `package_quiesce_active` |
| `permit` | `package_begin()` returned true and its end has not been called |
| `broken` | history: the platform did not repair the card's mount after the last suspend |
| `card`, `seen`, `stopDone` | the secondary card, what the last storage tick reported, `services_storage_stop_done` |
| `up`, `cont` | the daemon runs; the pass in progress |
| `sigchld`, `noted` | `sigchld_seen`; `child_exit_pending`, per service because the tick consumes it for all of them in one pass |
| `stopped` | history: the user stopped or disabled the service in this session and nothing was launched since |

`Unlisted` is an entry the supervisor does not have; an entry that is exhausted
is shed back to it, with its row, by every scan.

### 2.3 Actions

| action | code |
|---|---|
| `DaemonStart` | `jw__services_init`, `jw_svc_supervisor_open`, the first scan |
| `Crash`, `Shutdown` | the daemon is killed; `jw_svc_supervisor_stop_all` and exit |
| `Enable` `Disable` `Run` `Stop` `Restart` | the CTL-1 operations; a refused request changes nothing and is no step |
| `NoteChildExit` | the loop passes `sigchld_seen` on |
| `LeaderExitObserved` `NoExitFound` `Settle` | step 1 of the tick, `jw__handle_leader_exit` |
| `Escalate` `Release` `StopUnverified` | step 2, `jw__on_group_released` |
| `GameResume` `LifecycleResume` `BackoffRetry` `StaleRetry` `StaleCleared` `Autostart` `PassDone` | steps 3 to 5 |
| `PackageBegin` `PackageEnd` | PKG-1 |
| `GameBegin` `GameStopService` `GameFinish` | the record and the gate of LIFE-1, and its stops |
| `Suspend` | `jw__deep_suspend`: the stops, the sleep, and the scan when the platform was repaired |
| `SafeUnmount` `StorageTick` | `jw__handle_storage_action`, the storage tick of the loop |
| `Rescan` | the scan after a package transaction was recovered |
| `LeaderExits` `Fork` `DescendantsExit` `Escape` `StrayExits` `CardMoves` | the environment |

`StartOutcomes`/`Started`/`Launched` are `jw__start_generation`, with each of
its ends: a gate, a held lease, a failed launch, success, and the partial
failure in which the child runs, its reservation cannot be written, and stopping
it again is not verified (`unrecorded`) or not reaped (`unreaped`).
`SyncStopped`/`GroupsStopped` are the blocking stop with its three outcomes, and
`Scanned` is `jw_svc_supervisor_scan`.

`Features` and `Faults` switch groups of actions and failure branches off, so
that an instance small enough for TLC still has all of the interactions it is
about. The proofs are for every value of both.

### 2.4 What is abstracted

- *Time.* A settle delay, grace window, kill window, retry delay or backoff
  delay may elapse at any moment. No property depends on a duration. At the
  failure limit either answer of the sliding window is possible (`SvcBackoff`
  has the window).
- *Lease errors.* Acquiring a lease fails only because it is held; an I/O error
  is a failed launch. A scan itself does not fail as a whole.
- *Control store.* A write or delete may fail where the code ignores or handles
  that (`"store"`); a request whose first write fails changes nothing.
- *Kill.* A group that was sent SIGKILL does not fork or lose members to
  `setsid()` any more; it may still be slow to die, and without fairness it may
  stay for ever.
- *Suspend, safe unmount and package operations* block the daemon; processes do
  not move between their stops and their end.
- *Elsewhere:* the mutation bracket around one package (TXN-1) is in `PakratTxn`,
  the exchanges of LIFE-1 in `GameLaunch`, the failure window in `SvcBackoff`.
- *Not modelled:* legacy SSH migration, presentation fields, logs, status
  queries.

### 2.5 Properties

| property | kind | claim |
|---|---|---|
| `TypeOK` | invariant | types, among them the cap of the failure list |
| `NoOverlap` | action | no launch over a group member or a lease holder of an earlier generation |
| `OwnershipKept` | invariant | a started group is kept until absent and reaped; an owned leader is never collected elsewhere |
| `SurvivorVisible` | invariant | what survived a daemon crash is reported stale for as long as it lives |
| `PackageBarrier` | invariant | with the permission to replace packages, every group the daemon started and every survivor of a crash is gone. A descendant that left its group by `setsid()` with the lease is not excluded: `package_begin` looks at the states of the entries and probes no lease (2281-2301), so it may run on |
| `GameBarrier` | action | no game-sensitive launch while a game is active |
| `UnmountVerified` | action | a safe unmount happens only over verified absence |
| `StopHonoured` | action | what the user stopped is not started by the daemon |
| `NoDanglingStop` | invariant | stop latches do not outlive their group |
| `ExitNeverMissed` | invariant | an exit is pending, about to be looked for, or in the stop sequence |
| `IdleMeansNotRunning` | invariant | a service reported stopped or disabled has no group |
| `SingleGeneration` | refinement | `SvcSupervisor` implements `SvcGeneration`: a service has at most one generation, a group is held from launch to absence, packages are replaced only while none is held |
| `StopCompletes` `ExitHandled` `LatchServed` `StaleNoticed` | liveness | stops complete, exits are handled, what a barrier took comes back (of a suspend whose resume was not repaired nothing is asked), vanished survivors are noticed |

### 2.6 Runs

| run | instance | checks |
|---|---|---|
| `supervisor_session` | one service sensitive to everything, all features, its package may vanish, no faults; 644,912 states | `TypeOK`, `SurvivorVisible`, `ExitNeverMissed`, `IdleMeansNotRunning`, `NoOverlap`, `StopHonoured`, `GameBarrier`, `SingleGeneration` |
| `supervisor_faults` | one service with a sensitive and an insensitive policy, requests, packages, storage, crashes, descendants, escapes; all four faults; 571,820 states | `OwnershipKept`, `NoDanglingStop`, `PackageBarrier`, `UnmountVerified` |
| `parts` (section 5) | one service, requests, game, suspend, descendants, escapes, fair; 34,069 states | the four liveness properties |
| `stop_undone` `hold_released` `resumed_twice` `resumed_unrepaired` | small instances | the disagreements of section 2.9, each a counterexample |

Bounds. Services do not share state except the daemon-wide flags, so one service
meets every interleaving of its own life. Two would be needed only for an
operation over all of them that succeeds for one and fails for another, which is
the package barrier: that is left to `PackagesQuiesced` (section 4.1), which holds for
every set of services; no run has two. `BreakerLimit = 2` is the smallest value that has a failure
below the limit, one at it and one beyond. One policy that reacts to everything
and one that reacts to nothing make every test of a policy go both ways. One bit
for "other members live" and one for "somebody outside holds the lease" are
enough because the code only asks whether any do.

Deadlock is checked in every run: the model can always take a step.

Each property has a mutant in `PROJECT.json`: a change of one definition, of the
kind a plausible bug would make, that TLC finds to violate that
property. The mutated operators stand before their originals in
`SvcSupervisor.tla`, marked "Mutant of".

### 2.7 The abstract specification

`SvcGeneration` says what SVC-1 promises of the processes and nothing of how: the
daemon holds generations (`held`), each with a group of live processes
(`groups`); a member may leave its group with the lease (`Detach`) and bars the
next launch while it lives (`holders`); a launch needs that nothing of an earlier
generation lives; a group is let go only when it is empty; a daemon that dies
leaves its groups as holders; packages are replaced only while nothing is held.
Services move together in one step where one handler handles all of them.

`MCSvcSupervisor` and `SvcSupervisor_proofs` use the same mapping (`Generation`,
at the end of `SvcSupervisor`): `held` are the entries that own a group,
`groups` those with a live leader or member, `holders` those whose lease is held
from outside. TLC checks `SingleGeneration` in `supervisor_session`; section 4
has the proof.

### 2.8 Fairness

`FairSpec` assumes of the daemon that its loop runs: the SIGCHLD latch is passed
on, the exit of a leader is looked at, an elapsed grace window escalates, an
absent group is released, and the pass of a service gets through its restart
phases (weak fairness per service; the tick calls each of these on every pass,
and the loop never waits for a group). Of the environment it assumes only that a
group that was sent SIGKILL dies. Nothing is assumed of requests, of lease
holders outside the group, of a service that was not killed, or of the card.
`RestartPhase` is fair as a whole, not branch by branch, because a pass takes
one of them.

`LatchServed` excuses a service that cannot be launched (`Barred`) and accepts
an attempt that failed, because the code consumes the latch with the attempt. It
also excuses one that was stopped for a suspend whose resume the platform did not
repair (`AwaitsRepair`): a comment says that it must wait, which the code does not
make it do (`RepairedFirst`, section 2.9).

The four liveness properties have the form `[]<>P`: what must not last is left
again and again. They are checked in `parts`, with the service as one of its parts.

### 2.9 Where comments and code disagree

1. `StopWins` (run `stop_undone`). *"CTL-1 Stop and lifecycle stops must win for
   the rest of this session"* (supervisor.c:551-553). An enabled service is
   stopped while a descendant outside its group keeps the lease; a scan reports
   it stale; when the descendant exits, the stale retry (2144-2167) starts the
   service again because it is enabled. `StopHonoured` is the property without
   that path and holds.
2. `HoldUntilMounted` (run `hold_released`). *"A successful unmount stays held
   until a later mounted + rescanned storage tick"* (main.c:5206-5207). A second
   safe-unmount request for the absent card is refused by the platform, and the
   refusal releases the hold of the first.
3. `ResumedOnce` (run `resumed_twice`). *"A mode-stop or fallback stop is resumed
   exactly once"* (supervisor.c:2060). Run, Restart and the stale retry launch
   the service without spending the latch; the tick resumes it again after that
   generation's exit.
4. `RepairedFirst` (run `resumed_unrepaired`). *"only after that succeeds may the
   supervisor rediscover packages on the live mount and make suspend-sensitive
   services eligible for restart"* (main.c:11657-11660), "that" being the repair of
   the mount after a suspend. Without a repair only the rescan is left out; the
   latch of the suspend stays set, and the tick (supervisor.c:2089-2114) restarts
   the service. `broken` and `AwaitsRepair` say which services should have waited.

Two observations without a run: with a reservation that cannot be written and a
stop that is not verified, the failure branches of the resumes (2079-2082,
2107-2110) and of a Restart's replacement (1395-1397) report an idle state over a
group that is still owned, so `IdleMeansNotRunning` is a property of the runs
without that fault; and a safe unmount refused after its stops
(main.c:5187-5200) leaves the restart hold set with the card still mounted.

---

## 3. The other modules

Each module says at its head what one step is and what it leaves out. Each of its
properties has one mutant in `PROJECT.json`, as in section 2.

### 3.1 GameLaunch

LIFE-1: a launch commits a durable record, shuts the supervisor's gate, visits
every live service (stops it, or asks it over its subscription), starts the
writer when no exchange is left, and clears the record when the writer's whole
group is gone.

A handler with everything it calls is one action. The handlers of `main.c` call
each other - a full queue drops a connection, which fails its exchange, which
blocks the launch, which broadcasts to every connection - so each function is an
operator from the state `w` to the next one, and what the code cannot foresee (a
full queue, a stop that is not verified, failing I/O) is fixed for one action in
the record `e`. `d` is `jw_daemon_state`, `conn` the subscriber of each service,
`svc` what the supervisor sees of it, `disk` the record, `game` the process group
of the writer, `ui` the launcher: a client that reads the state when it starts,
shows the question of a blocked launch, and may send a request while it is being
told to leave.

| property | claim |
|---|---|
| `ExchangesCounted` | the counter that holds the writer back is the number of open exchanges, on every path that closes one |
| `WriterIsolated` | a writer starts only when every game-sensitive service is down or has said ready for this launch - not for an earlier one, not late - or the player accepted the risk |
| `OneWriter` `WriterRecorded` | writers never overlap, and whatever may be writing is recorded on the card, also after a daemon crash and when clearing or syncing the record fails |
| `RecordHasOwner` | a record has a launch, a writer or a recovery that will end it |
| `ChoiceIsOneShot` | Play Anyway holds for the launch it was chosen for: what a comment says and the code does not do (run `choice_reused`, section 6), proved where it cannot happen (section 4.8) |
| `LaunchResolves` `ForegroundReturns` | a launch does not stay in coordination unseen; with neither launcher nor game one of them follows (without failing spawns and card moves, section 6) |

Fairness: every pass of the main loop ends with the tick steps, whatever its
connections sent; strong fairness, because a connection being served holds them
back within a pass. Deadlines pass, processes told to exit do, and a starting
launcher reads the status. Nothing is assumed of services.

Bounds: two services for `launch_session`, because one exchange must fail while
another is open, with one that only a subscription makes sensitive; one for
`launch_recovery`, whose subject is the record and the crash. Two launches, so
that an answer may belong to the previous one; three in `choice_reused`.

### 3.2 PakratTxn

One package on one mounted card: the client (`pakrat.c`) that installs, adopts a
copy the user put there, or uninstalls; the daemon's recovery tick, which takes
over the gate of a client that died; the recovery and the sweep of
`pakrat_recovery.c`, run by either; and power losses, kills and I/O failures
between any two steps. A tree is the token of the install that staged it. The
commit point is the row.

| property | claim |
|---|---|
| `RecordedTreeSurvives` | the tree of the row is on the card at every instant, live or moved aside |
| `RunningTreeUntouched` | files never change beneath a running service, whoever holds the gate |
| `IntentOutlivesPackage` | an intent to uninstall goes only with the record and the files |
| `TransactionsResolve` | a confirmed uninstall is completed and an abandoned gate opened again |

`TransactionsResolve` needs that the client goes on or dies, that a stopped
service goes, and that the daemon's tick, which the loop calls every 500 ms, gets
through its steps (strong fairness: the flock of a client holds it back for a
while). Two tokens give a replacement of an installed package; one is of a
package without a service; three mishaps are a crash, a failure of its recovery,
and one more.

The signature of the database file, which saves the tick a query as long as nothing
was written, is left out: an intent appears only through a write.

`Races = FALSE` lets a transaction start only when recovery has nothing left to
do. With `TRUE` the module also has the collisions of section 6.

### 3.3 LeafUpdate

The status with its candidate, the check thread, the download child, the install
job, the runner's steps for both handoffs (replacing the live payload part by
part, or copying it for the stock boot and arming a trigger), the package barrier
around them, and a daemon restart or a power loss between any two steps.

*The runner outlives the daemon.* It is a plain forked child (update.c:2608-2620),
and the barrier is in the daemon's memory. `DaemonRestarts` moves a runner that
works to the slot `"orphan"`, where it goes on without a barrier and without
anybody to poll it, beside whatever the new daemon starts; the two share stage,
artifact and card, and may tear each other's trees.

*What is written is not yet on the card.* Nothing the runner does is synced before
its one `sync()` (main.c:1003-1004 of the runner). `kept` has, of each thing on the
card, the values written since the last sync; `PowerCut` brings back any of them,
each thing for itself, so that writes are lost in any order. Only that sync makes
everything durable. The withdrawal of the marker is one such write, and not
checked by anybody: it may fail, or the request may name none (909-911). A tree
the release does not ship is left as it was (930); `Lean` are the releases without
one, and what counts as whole is what a release ships (`Ships`).

| property | claim |
|---|---|
| `BootIsWhole` | whatever step a kill, a failure or a power cut falls on, what the next boot starts is one release, the one the record names with every part it ships, or a release copied to its end, or nothing - unless `exposed` |
| `InstallsTheCandidate` | what the runner verified is what the player sees, whatever check or download lands late |
| `ReplacedBehindBarrier` | while the daemon that started it lives, a runner replaces the payload only behind the barrier, with every service verified gone |
| `BarrierReleased` | the barrier of an update is given up again |

`exposed` is a history variable for the cases the code leaves open and no document
excludes, all of which the model reaches: a power cut took back a write of an
install that had not reported its end, a marker was not withdrawn, or two runners met
on the card. In each a mixed installation may be started. What is claimed is all
else: failures and kills at any step, power cuts that lose nothing, and power cuts at
any moment after an install reported its end, which may lose nothing of it (the mutant
reports before the sync). `ReplacedBehindBarrier` says nothing of an orphan, for which
it does not hold.

Fair are the poll of the install job, the runner of the daemon, and the exit of a
service that would not stop at first. Bounds: two releases, one per handoff; two
downloads (`MaxDownloads`); two mishaps, of which a restart under a working runner
counts for both, because without a second install it leads nowhere else; one orphan;
three parts for the trees, one of them optional.

### 3.4 DeleteJob

The worker plans again, compares with what the player approved, removes files
(the launch file last) and cleans up the library, while the main loop polls it in
two reads, keeps scans away from it, and loses its client; the card may be
exchanged at any moment. `DeletionServed`: only approved files are removed, and
from the card they were approved for; a deletion that failed half-way can be
asked for again; a row without a file remains only where a cleanup failed; no
scan works on the library meanwhile; what was deleted is published before the job
is forgotten, and a scan that waited starts. The two cards have files of the same
names, because that is what the digest and the guard must tell apart.

### 3.5 ScrapeBatch

The queue, the rows, the slots with their threads, and the two pauses.
Everything is under one mutex that a thread leaves while it scrapes, and while it
looks at the card: the batch may be told that the card is back between the look and
the pause that follows from it (`"barred"`).
`ScrapesServed`: through pauses, cancellations and repeated requests a pending
game is in the queue or with one thread, never lost and never with two; an
interrupt never reaches the next item in a slot; the batch comes to rest,
whatever the account allows (a permit is never taken from the last thread).
Two games and two workers, so that a slot is reused while another is active; two
requests of the user and one change of the card.

### 3.6 HoldSave

The hold-save policy with the passes of the main loop that feed it. The power
chip cuts the device off a fixed time after the press unless the key is released,
so time is modelled: coarse units, edges with their own time, passes at most
`Gap` apart. `HoldSaveTimely`: when the teardown begins with the key held, by the
first press or a later one, the measured reserve is left; while it is deferred
the reserve is not used up; a release defers it for the window at most. The
instance keeps the order of the code's constants (reserve and margin below the
cut, a window longer than a save) and has two presses.

### 3.7 IpcStream

Connection slots over framed streams: a slot may be given to a new client as soon
as it is dropped, a partial frame has a deadline, the queue a limit, a service
one registration, and a rejected connection is flushed before it is closed.
`ConnectionsServed`: one registration; every frame of an open client is unread or
has its reply in the queue (`Accounted`); what another connection sends does not
leave the service unregistered (the acknowledgement is queued before the old
registration is dropped); a client that reads is answered or closed; a partial
frame is completed or costs its connection; the slot of a client that hung up is
freed. Three clients for two slots, a queue of one. Fair are the service of the
connections (every tick) and the passing of a second.

### 3.8 CoverLoader

The worker thread takes the lock three times per cover, and in between the
launcher may move the cursor, displace the request, rescan, adopt a new catalog
(which joins the worker) or find the file replaced. `CoversServed`: every decoded
surface is freed once, no
cover from before a catalog change is shown after it, and the cover the cursor
rests on is eventually shown or known to be unreadable. `DecodedAtMost` is the limit the header gives for
files that do not decode, and does not hold (run `decoded_again`, section 6); what does
is the theorem `DecodesAreBounded` (section 4.10). Capacities of one make
every ring full at its first entry. A cover that is neither shown nor failed asks
for another frame in 40 ms; strong fairness, because a sweep may keep the worker
on other covers at some of these frames.

### 3.9 SvcBackoff

`record_failure` with its clamp of a clock set back, its shifted list and its
overflow-free comparison, and the reset. `BreakerFair` states the breaker with
neither: wherever the clock is set, the breaker is open exactly when `Tracked`
failures in a row since the last reset lay within the window *of the latest times
the clock had shown*. TLC checks it with the clock's type at -3..2; section 4
proves it for every width.

---

## 4. Proofs

Every theorem is about every value of the constants; a run of the same property
is about one small instance. Each strengthening was checked by TLC on such an
instance before it was proved.

### 4.1 SvcSupervisor

`SvcSupervisor_proofs` proves, for every set of services, policies, packages,
features and faults, and every `BreakerLimit` (`ConstantsAssumption` is the only
assumption):

| theorem | of |
|---|---|
| `TypeCorrect` | `Spec => []TypeOK` |
| `Ownership` | `Spec => []OwnershipKept` |
| `LatchesFollowGroups` | `Spec => []NoDanglingStop` |
| `ExitsAreSeen` | `Spec => []ExitNeverMissed` |
| `SurvivorsShow` | `Spec => []SurvivorVisible` |
| `PackagesQuiesced` | `Spec => []PackageBarrier` |
| `NeverOverlapping` | `Spec => NoOverlap` |
| `GamesAreBarred` | `Spec => GameBarrier` |
| `Invariance` | `Spec => []IInv` |

None of the invariants is inductive alone. `IInv` is `TypeOK`, `pkg => up`,
`permit => pkg` and, for every service, the conjuncts of `EntryInv`:

- `Linked`: an entry owns a group exactly when there is a leader to reap, and
  stop latches exist only on owned entries. `OwnershipKept` and
  `NoDanglingStop` are its two halves; neither survives a launch or a release
  without the other.
- `ExitKnown`: `ExitNeverMissed` for one service.
- while the daemon is up, `Visible`: the entry of an orphan is stale and owns
  nothing. `PackageBarrier` needs it, because the preflight refuses on the state
  and never looks at the lease.
- `Behind`: an entry is blocked only while the package barrier is up, and one
  that is listed behind the barrier without being blocked has no group (a scan
  under the barrier finds new services, which `package_end` does not examine).
- without a daemon every entry is unlisted.
- with the permission, no entry owns a group and no lease is held by an orphan.

Facts about the operators (`StartedFacts`, `ReleasesFacts`, `ScannedFacts`,
`SyncStoppedFacts`, ...) come first, then one lemma per action (`RunStep`,
`ReleaseStep`, `PackageEndStep`, ...); actions that change one entry go through
`OneEntry`, those that change all through `AllEntries`. `StepInv` collects them.

For the action properties, `Admissible` says of a step that it launches nothing
for a service or is an `Attempted` launch: one whose outcome is among
`StartOutcomes` of some entry, over a group without members.
`NextAdmissible` proves it of every step from the invariant, and
`AttemptedFacts` derives `NoOverlap` and `GameBarrier`. `IInv` was checked by
TLC on the instances of section 2.6 before it was proved.

Three properties need more than `IInv`, each an invariant of its own.
`UnmountsAreVerified` is `Spec => UnmountVerified`. The groups of this daemon are
seen to by its stops; a survivor of an earlier daemon is judged by the policy its
entry shows, and `SurvivorsKnown` says that this is the policy the survivor reserved:
a scan and a refused launch copy it from the reservation, and nothing else touches
the entry of a survivor. `StopsAreHonoured` is
`Spec => StopHonoured`. `StopsKept` says that a stop leaves nothing behind that
would start the service (`Quiet`): no latch of a barrier, no startup enablement, no
retry, a reason that makes its exit deliberate, and no replacement but the one of a
Restart, which is a session Run. `IdleIsTruthful` is
`LaunchesUndone => (Spec => []IdleMeansNotRunning)`: beside `IInv` the property is
inductive as it stands, once a launch that cannot record its reservation is always
stopped again and reaped (`LaunchesUndone`; any of the three faults alone is allowed).
`LaunchTruth` is where this is used: a launch then starts a group or leaves none.
Without it the failure branches break the property, as section 2.9 says.

### 4.2 SvcSupervisor implements SvcGeneration

`SupervisorImplementsGenerations` is
`Spec => SingleGeneration`, under the mapping of section 2.7. `IInv` says whose
group the daemon holds before and after a step, and `NextAdmissible` what a step
may launch; `NextOrigins` adds where descendants and lease holders come from: a
live group, by a step of that group. With these every step is one of the abstract
ones: `MapsOpen` and `MapsClose` for the start and the end of the daemon,
`MapsServe` for all others, service by service.

### 4.3 SvcBackoff

`BreakerIsFair` (in `SvcSupervisor_proofs`) is `BackoffSpec => []BreakerFair` for every limit,
window and width of the clock, and whatever times it shows; `BackoffAssumption` asks
that the limit is positive and that the window and the width are natural numbers.
`WithinExact` shows that the comparison without a sum decides exactly whether the
difference is within the window, with nothing outside the width computed on the
way. `BackoffInvariant` is the strengthening: the table holds the last of the
running peaks of the times shown (a clock set back is clamped to the peak), and a
breaker that is closed has never seen a burst. Peaks are only shifted by a
failure, which is `RecordKeepsPeaks`.

### 4.4 LeafUpdate

In `Install_proofs`:

| theorem | of |
|---|---|
| `UpdateTypeCorrect` | `UpdateSpec => []UpdateTypeOK` |
| `BootsWhole` | `UpdateSpec => []BootIsWhole` |
| `CandidateInstalled` | `UpdateSpec => []InstallsTheCandidate` |
| `PayloadShielded` | `UpdateSpec => []ReplacedBehindBarrier` |
| `UpdateInvariance` | `UpdateSpec => []UpdateInv` |

for every set of releases, with or without an optional tree, and every set of mishaps,
assuming that `MaxMishaps` and `MaxDownloads` are natural numbers. `UpdateInv` adds to
the types which jobs exclude each other (`Jobs`: an install needs a verified
candidate that no check or download replaces meanwhile), what a runner has left
on the card at each of its places (`OnCard`, about a daemon's runner and an orphan
alike, as long as nothing is exposed), that what may still be lost is only what a runner
at work has written (`Synced`: an install that reported its end left nothing behind),
and that the runner of the daemon works only under the barrier (`Shielded`). The proof
of `BootsWhole` therefore covers power cuts that lose writes in any order, and excuses
exactly what `exposed` names.

### 4.5 PakratTxn

In `Install_proofs`:

| theorem | of |
|---|---|
| `TransactionTypeCorrect` | `Spec => []TypeOK` |
| `RecordSurvives` | `Spec => []RecordedTreeSurvives` |
| `RunningUntouched` | `Spec => RunningTreeUntouched` |
| `IntentOutlives` | `Spec => IntentOutlivesPackage` |
| `TransactionInvariance` | `Spec => []IInv` |

for every set of tokens, with and without services, and every set of faults,
assuming `Assumed`: `MaxFaults` is a natural number, the names of the trees are
not tokens, and `~Races` (with races the properties do not hold, section 6).
`RecordedTreeSurvives` alone says nothing of a place in the middle of a
transaction. `IInv` adds, for the client, where each kind of transaction can be
(`ClientPlaces`) and that one with the flock works behind a closed gate, beside a
stopped service and a daemon at rest, while one without finds no service and no
recovery (`Bracket`); for client and daemon together, that recovery and
completion exclude each other (`Phases`: two actors may complete one uninstall,
and then what either removed stays removed); what an install has put where
(`OnDisk`); and that the live tree is the row's whenever its service may run
(`Settled`). There is one lemma per action, and in it one step per conjunct.

### 4.6 DeleteJob

| theorem | of |
|---|---|
| `DeletionIsKept` | `DeleteSpec => []DeletionKept` |
| `RemovesTheApproved` | `DeleteSpec => OnlyApproved` |
| `DeletionInvariance` | `DeleteSpec => []IInv` |

for every set of cards, every game (`Order` is a sequence without repetitions) and
every number of exchanges. They are the safety half of `DeletionServed`. The job
looks at the card, the rows and the approval at different moments; `Vouched` says
what the earlier looks still vouch for: from `Build` to the clean-up the rows are
those of the approved card, and that card has what was approved less what has an
outcome. `Apart` keeps jobs and scans from each other through the two steps of a
tick, and `Telling` says who will still advance the generation.

### 4.7 GameLaunch

| theorem | of |
|---|---|
| `TypeCorrect` | `Spec => []TypeOK` |
| `ExchangesAreCounted` | `Spec => []ExchangesCounted` |
| `WriterIsRecorded` | `Spec => []WriterRecorded` |
| `OneWriterAtATime` | `Spec => OneWriter` |
| `RecordIsOwned` | `Calm => (Spec => []RecordHasOwner)` |
| `LaunchInvariance` | `Spec => []IInv` |

for every number of services and launches, every manifest policy and subscription
mode, every feature and every fault (`GameLaunchAssumption` is the only
assumption). `RecordIsOwned` asks for `Calm`, a launcher that is answered within its
timeout and sends nothing once it was told to leave, as the run of that property
does: a launch request that crosses the daemon's SIGTERM takes `ready` from the
launch before it and leaves that launch's record without an owner.

The functions of the daemon are operators from its state `w` to the next, so the
facts about them are too. `Good(w)` holds between any two functions that call each
other: the counter is the number of open exchanges, each of a launch and with a
subscriber (`Counted`), and a launch or a writer has a record with the gate shut
(`Kept`). `Steady(w, x)` is what a function that starts no writer may do to the
state: leave the record alone, or end the launch and with it every exchange
(`Ended`). It composes (`SteadyThen`), and so one lemma per function, cited where the
function is called, covers every nesting: `DropFacts` serves a failed exchange, a
full queue, a lost deadline, a refused answer and a hang-up. `Launches` is the same
for a function that may start the writer. The loop over the services (`VisitAll`, and
the one of `StartNow`) is a recursive function: `TurnsExist` shows by induction that
there is one, `VisitAllFacts` what it preserves.

`IInv` adds the other processes: a zombie leader is still the daemon's child, a
writer's record is active with no launch under way beside it (`GameInv`); a launcher
on the screen is the foreground child, and a boot resume waits only where nothing
is active (`UiInv`). For `Calm`, that an active record is accounted for, that a launch is
one that was asked for, and that a launcher offering Play Anyway has no launch
behind its back (`CalmInv`). There is one lemma per action (`ReapWriterSafe`,
`StatusSafe`, ...), most of them through `StepKeeps`, which is about any step that
becomes a state `w`.

### 4.8 GameLaunch: the writer alone with the card

| theorem | of |
|---|---|
| `WriterIsIsolated` | `Spec => WriterIsolated` |
| `OverrideIsOneShot` | `Spec => [](d.coord /\ d.override => consent)` |
| `ChoiceHolds` | `"switch" \notin Features \/ "check" \notin Modes => (Spec => []ChoiceIsOneShot)` |
| `IsolationInvariance` | `Spec => []Shielded` |

for every number of services and launches, every policy, feature and fault.
Section 4.7 follows the daemon's own state; `GameIsolation_proofs` follows what the
services said. That a writer starts only among services that are ready is decided
long before it starts, one service and one answer at a time, and between the
answers a service may come back, disconnect, or be asked by the launch after. `Isolated`
is what holds throughout: while a launch is coordinated or ready, each service is
settled (exempt, down, or its last word was ready for this launch) or is being asked,
unless the launch is overridden. At the start no exchange is open (`Counted`, section
4.7), so each is settled. `Shielded` adds what a block and an override exclude (`Plain`) and what ties
the player's choice to the launch it was made for (`Asked`): an override is in force only with consent, and where there are no
switches or no checks a skipped check is too.

Of each function of the daemon three facts are proved. `Guards(w, x, out)`: it keeps
`Isolated` but for the services in `out`, which is how the loop over the services
accumulates it (each visit takes one service out). `Keeps(w, x)`: it takes over
no choice and starts no writer. `Releases(w, x)`: a writer it starts has every service
settled or the player's word. They compose like `Steady` does, and are proved in
the order of the calls.

The hypothesis of `ChoiceHolds` is the finding `choice_reused` turned round: with both a
queued switch and a service that asks to be checked, the skipped check of one game is
in force for the next, and the property fails in the third launch. No passing run has
the property. `OverrideIsOneShot`, about the stronger choice, has no hypothesis.

### 4.9 HoldSave

In `DaemonLoop_proofs`:

| theorem | of |
|---|---|
| `DeferralInTime` | `HoldSpec => [](DeferredInTime /\ WindowKept)` |
| `HoldSaveInTime` | `Roomy => (HoldSpec => []HoldSaveTimely)` |
| `HoldTypeCorrect` | `HoldSpec => []HoldTypeOK` |
| `HoldInvariance` | `HoldSpec => []HInv` |

for every cut, reserve, margin, window, grace, long press and estimate, and every
number of presses. `HoldAssumption` asks that reserve and margin fit in the cut and
that two passes are no further apart than the margin and the window: 4100 and 500 in
5700 ms at the shortest cut, passes of 10 ms and what delays one. The teardown itself
is in time only if the cut also leaves room for the long press and the passes around
it (`Roomy`, which the instance satisfies): the cuts of 8, 10 and 12 s do with passes up to
500 ms apart, the stock cut of 5.7 s does not, since 2 s of press and 4.1 s of reserve
are more, and there the daemon shuts down without waiting for a release.
`DeferralInTime` holds there too.

The policy knows of the key what its edges said, the power chip what the key does.
`Unread` says that the unread edges are the changes of the key since the last pass, the
last of them its present state; `Awake` and `KeyKnown` that the daemon's view before
them is the opposite of the first of them, or the key itself if there is none; `Waiting`
and `Saving` that boundary and repress count from the press that is held; `InReserve`
how much of the chip's time is left at the next pass, which is what makes the bound
inductive. The edges of a shutdown pass are a recursive function (`EdgesRead`):
`ReadsExist` shows that there is one, `EdgesReadFacts` by induction over the edges
that the policy then knows the last of them, and that no press in between is missed.

### 4.10 CoverLoader

| theorem | of |
|---|---|
| `NoSurfaceLost` | `Sized => (CoverSpec => []NoneLost)` |
| `DecodesAreBounded` | `Sized => (CoverSpec => []RetriesBounded)` |
| `CatalogIsCurrent` | `Sized => (CoverSpec => []NoneOutlivesCatalog)` |

for every number of files and every capacity of the rings; `Sized` asks that the limits
are positive, as `JW_COVER_FAIL_ATTEMPTS` and the sizes of the rings are, and that the
empty string names no file. The first and the last are the safety half of `CoversServed`. The invariant
`CoverInv` has four parts. `Slots` says what fills the slots of the two threads, and that a
worker that was shut down leaves all of them empty. `NoneLost` is inductive with it.
`Current` extends `NoneOutlivesCatalog` to every surface on its way to a
texture: the one of the worker, the finished one and the ring of those handed back.
`Counted` is why a file is not decoded for ever: the decodes that failed so far and those
still to come (`Pending`: the request slot, the backlog, the worker) are together at most
`Attempts + 1`, because the failure table, whose entries are reused (`Tabled`), admits
a file to one of the slots only below the limit (`Admitted`). The header promises
`Attempts`; the one more is the finding `decoded_again`.

### 4.11 ScrapeBatch

| theorem | of |
|---|---|
| `OnePlaceEach` | `Sized => (ScrapeSpec => []OnePlace)` |
| `InterruptsItsOwn` | `Sized => (ScrapeSpec => []CancelsItsOwn)` |
| `BatchInvariance` | `Sized => (ScrapeSpec => []BatchInv)` |

for every finite library and every number of threads (`Sized`: the threads are `1..n`
with `n` positive, `JW__SCRAPE_MAX_WORKERS` in the code). They are the safety half of
`ScrapesServed`. A game is shown, queued and scraped in three variables that different
steps change: `Unique` says that no game is at two places of queue and slots, `Tracked`
that the rows show as pending exactly the games that are at one, until a shutdown drops
the queue. `CancelsItsOwn` is inductive with the types. What a cancellation leaves of the
queue is a recursive function (`Without`), as the code compacts it in place:
`KeepingExists` shows that there is one, and `WithoutFacts`, by induction over the queue,
that it keeps all the other items, none of them twice.

### 4.12 IpcStream

In `DaemonLoop_proofs`:

| theorem | of |
|---|---|
| `RepliesAccounted` | `SocketSized => (IpcSpec => []Accounted)` |
| `OneRegistrationEach` | `SocketSized => (IpcSpec => []OneRegistration)` |
| `RegistrationStays` | `SocketSized => (IpcSpec => [][RegistrationKept]_ipcVars)` |
| `ConnInvariance` | `SocketSized => (IpcSpec => []ConnInv)` |

for any number of clients, slots and queued replies; `SocketSized` says that the
constants are natural numbers. They are the safety half of `ConnectionsServed`.
Slots are reused, and a drop closes the client a slot happens to have: `Linked` (a
slot is empty or the connection of one client alone) is why a drop never takes another
client's connection with it, and `Quiet` why a client that is accepted has nothing left
over from before. `Accounted` counts the frames in the client's bytes and the replies in
the slot's queue, through reads, events in between and flushes; `CountAppend` and
`CountTail` are what those steps do to the counts. Every handler is one of three kinds of
step: it serves one slot (`ServeKeeps`), drops some (`DropKeeps`), or moves the
registration (`SubscribeKeeps`).

### 4.13 Only model-checked

Liveness under fairness and `ENABLED` are out of the prover's reach: every liveness
property stays with TLC (`launch_recovery`; in `parts` the four of SvcSupervisor, `TransactionsResolve`,
`BarrierReleased`), and so does the liveness in the bundles `CoversServed`,
`ConnectionsServed`, `ScrapesServed` and `DeletionServed`, whose other clauses have
theorems. `TypesOK` is one invariant for the nine parts of a run; each part's types are a
theorem of their own or a conjunct of the invariant that is proved, those of `CoverLoader`
(in `Slots`) but for `MaxVersion` and the lengths that bound the run. The library's induction
theorems take an operator as a parameter, which no installed prover instantiates; the
inductions over the services, the key edges and the queue of the batch are made with sets
instead (`SetInduction`, from the well-foundedness of the naturals).

---

## 5. Runs

| run | module | distinct states | shows |
|---|---|---|---|
| `supervisor_session` | `MCSvcSupervisor` | 644,912 | section 2.6 |
| `supervisor_faults` | `MCSvcSupervisor` | 571,820 | section 2.6 |
| `launch_session` | `MCGameLaunch` | 376,766 | two subscribers, late, repeated and stale answers, cold switches, a card that moves, failing spawns: `ExchangesCounted`, `WriterIsolated` |
| `launch_recovery` | `MCGameLaunch` | 9,760 | one service, crashes, boot resume, full queues, record I/O that fails, under fairness: `RecordHasOwner`, `WriterRecorded`, `OneWriter`, `LaunchResolves`, `ForegroundReturns` |
| `parts` | `MCParts` | 256,775 | the modules of sections 3.2 to 3.9 and the liveness of `SvcSupervisor`, each alone |
| `stop_undone` `hold_released` `resumed_twice` `resumed_unrepaired` | `MCSvcSupervisor` | - | counterexamples, section 2.9 |
| `choice_reused` | `MCGameLaunch` | - | counterexample, section 6 |
| `adopted_copy_lost` | `PakratTxn` | - | counterexample, section 6 |
| `decoded_again` | `MCCoverLoader` | - | counterexample, section 6 |

Each of the passing runs takes between one and about four minutes with two workers.

`MCParts` checks nine modules that share no state: it extends `PakratTxn`,
`LeafUpdate`, `HoldSave` and `SvcBackoff`, whose constants are in `parts.cfg` and whose
properties the run names as the theorems of section 4 do, and instantiates
`CoverLoader`, `IpcStream`, `ScrapeBatch`, `DeleteJob` and `SvcSupervisor` with constants
of its own.
Checked as a product they would be out of reach and show nothing more, so `part`,
chosen by `PartsInit` and never changed, says which of them runs; the others stay in
one initial state. The next-state relation is the disjunction of theirs. A fairness
conjunct of the run joins one fair action of each part: as only one part takes steps
in a behaviour, fairness of the disjunction is fairness of that part's action, and
the run says of each part what a run of its own would say. The subscript of the
fairness is `partVars`, the variables of the part that runs; the others never change. `TypesOK` is the type
invariant of the part that runs. `CoversServed`, `ConnectionsServed`, `ScrapesServed`
and `DeletionServed` are each the promise of one component; their clauses are
definitions of its module. The constants are explained in section 3; `MaxTime` and
`MaxLog` bound the times of `SvcBackoff`, `Horizon` those of `HoldSave`.
`CHECK_DEADLOCK FALSE` because bounded parts come to rest, which is what their
liveness properties are about.

---

## 6. What was noticed

Disagreements of the code with its own comments have a run that expects a
violation: the four of section 2.9 and

5. `ChoiceIsOneShot` (run `choice_reused`). *"An override is always one-shot and
   must be chosen again"* (main.c:7579-7580). A cold switch keeps
   `pending_launch_skip_check` for the next game.
6. `AdoptedCopySurvives` (run `adopted_copy_lost`). *"A rollback tree may be the
   only surviving copy of an app ... never delete it blind"*
   (pakrat_recovery.c:1229-1232). When power is lost between the promotion of an
   adopted install and its commit, the boot sweep finds the target present and
   deletes the rollback, and then the uncommitted target as an orphan.
7. `DecodedAtMost` (run `decoded_again`). *"the same unchanged file is decoded at
   most JW_COVER_FAIL_ATTEMPTS times"* (cover_loader.h:27-30, and line 43). `take`
   looks at the request slot and at the decode in progress, not at the backlog
   (cover_loader.c:288-294), so a file that stands in both is decoded once more after
   its last attempt failed.

Observations without a run, because nothing in the repository promises otherwise
or because the model leaves the path out, for whoever changes this code:

*Game launch.* The launcher leaves once its request is accepted and nothing is in
front while the exchanges run. When the last answer then finds the card moved
(main.c:16361) or the spawn of the writer fails (16367), the launch is aborted and
nothing starts a launcher: the loop (18857-18865) does so only for a decision or a
block. `ForegroundReturns` is therefore a property of a run without these two
(`"move"` in `Features` or `"spawn"` in `Faults` of `launch_recovery` shows it).
Two services that both asked to be checked before they are stopped can keep a
launch in coordination; the run with two services has no liveness property.
`stop_after_flush` shuts the gate without a record (main.c:17478).

*Packages* (with `Races = TRUE`). An install of a package without a service takes
no gate and meets the daemon's recovery; an install never looks for a pending
uninstall, and its tree is removed by that later; an install over a pending
uninstall whose stop failed removes the files of a running service; a failed undo
of an adopted install leaves the uncommitted tree live and unowned.

*Update.* A `package_end` whose restore fails releases the barrier and reports an
error; `update_package_quiesce_active` is also set over a caller's barrier, so
that the update's end then reports a spurious error; power lost while the parts
are replaced leaves no marker, so the next boot does not start Leaf, or, when the
withdrawal of the marker was lost with it or had failed, a mixture. A runner that
a restart of the daemon orphaned goes on replacing the payload while the new
daemon starts services, and may meet a second install (section 3.3).

*Cover loader.* A rescan clears the textures but not the finished or running decode, so an
old cover may be shown until the next catalog change.

*Connections.* A rejected connection may still be served what it sent before the
rejection was flushed, and displace a healthy registration by it. A connection
that is idle between frames has no deadline.

*Hold-save.* A running deletion makes the shutdown pass skip the hold-save tick
(main.c:18787); a tick samples its time before a probe that may block.

*Scraping.* A download interrupted by a storage pause that is lifted before it
returns ends as cancelled, although comments (scrape_worker.c:672, 979) say that
it goes back to the queue. A cancel of one game during a pause is lost, and a
deletion then waits its two seconds in vain. A start that finds every game
pending does not lift a quota pause. A thread that found the card unwritable pauses
the batch after the card came back and its recheck was over (scrape_worker.c:693-710,
1512-1538): the batch then stays paused over a card that can be written until the next
change of its health, or until everything is cancelled.

*Deletion.* A job that finishes between `jw__tick_delete` and the busy check of
the shutdown loses its publication at exit (the model leaves the exit out). The
digest is not compared again between the cancellation of scrapes and the removal;
the guard per file checks the card only.

*Backoff.* A clock set forwards and then back clamps all later failures to the
future time, so the breaker may open on failures far apart in real time.
Autostart and the stale retry launch with the breaker open, contrary to
backoff.h:52-57.

*Supervisor.* With a reservation that cannot be written and a stop that is not
verified, the failure branches of the resumes (2079-2082, 2107-2110) and of a
Restart's replacement (1395-1397) report an idle state over a group that is still
owned; a safe unmount refused after its
stops (main.c:5187-5200) leaves the restart hold set with the card mounted; a
caller that dies between package-quiesce-begin and -end leaves the barrier until
the daemon restarts.

---

## 7. Not modelled

Every component has its status and reason in `PROJECT.json`. Most of the
repository by lines is data code: screens and drawing (`jawaka-launcher`,
`jawaka-menu`), settings pages, SQLite access, catalogs and their parsing, device
back-ends, path tables. They have little state that survives a call, what they
compute is tested by examples, and a model of them would restate them; the
coverage of the map is low for this reason and is not raised by rows that stand
for such code.

Control logic that is left out, by module, because it would need another
dimension of state for a case that adds no interleaving of its own: the resident
(hot) switch of a game; themes, secondary sources and rows without a token in
Pakrat; the second card of a stock handoff, and a second orphaned runner; the
daemon's exit while a deletion finishes; the boot-resume ticket
as a file; the suspend inhibitors; the storage health monitor; the refusals of one
component while another is busy, other than those the modules have (one model of
the whole loop is out of TLC's reach: `SvcSupervisor` and `GameLaunch` alone have
hundreds of thousands of states each).

The modules meet at the supervisor's gates, and each of them has the gate from
its own side: `GameLaunch` the start gate of a game, `PakratTxn` the mutation
gate, `LeafUpdate` the package barrier. That `SvcSupervisor` keeps what they rely
on is `GameBarrier` and `PackageBarrier`, proved there.
