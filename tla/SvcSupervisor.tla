------------------------------ MODULE SvcSupervisor ------------------------------
(***************************************************************************)
(* jawakad's background-service supervisor (internal/services/supervisor.c *)
(* and the call sites in cmd/jawakad/main.c): discovery, launch behind the *)
(* generation lease, the asynchronous and the blocking stop sequence,      *)
(* backoff and circuit breaker, the CTL-1 operations, and the game,        *)
(* suspend, storage and package barriers.                                  *)
(*                                                                         *)
(* The daemon is one thread: an IPC handler, a lifecycle trigger or one    *)
(* service's share of a tick is one atomic step.  The processes it         *)
(* supervises are not: between any two daemon steps a leader may exit, a   *)
(* descendant may be forked, leave the group with the inherited lease, or  *)
(* die; and the daemon may crash.                                          *)
(*                                                                         *)
(* Time is abstracted: a settle delay, grace window, retry or backoff      *)
(* delay may elapse at any moment.                                         *)
(***************************************************************************)
EXTENDS Naturals

CONSTANTS
    Services,      \* service ids a pak may declare
    Policies,      \* the lifecycle policies a manifest may carry
    Paks,          \* what a scan may find for a service
    BreakerLimit,  \* failures inside the window that open the breaker (5)
    Features,      \* the operations and environment steps this instance has
    Faults,        \* the operations that may fail
    NoService      \* no tick pass is in progress

GameModes  == {"stop", "notify", "ignore"}
Triggers   == {"suspend", "storage"}
Policy     == [game : GameModes, onFailure : BOOLEAN, stopOn : SUBSET Triggers]
PakKinds   == {"ok", "secondary", "invalid", "missing"}

AllFeatures == {"ctl", "rescan", "package", "game", "suspend", "storage",
                "crash", "shutdown", "descendants", "escape"}
AllFaults   == {"store", "reservation", "stuck", "reap"}

ASSUME ConstantsAssumption ==
    /\ Policies \subseteq Policy
    /\ Paks \subseteq PakKinds
    /\ BreakerLimit \in Nat \ {0}
    /\ Features \subseteq AllFeatures
    /\ Faults \subseteq AllFaults
    /\ NoService \notin Services

VARIABLES
    svc,      \* the supervisor's entry of each service (jw_svc_supervised)
    leader,   \* the leader of the group a service last started
    kids,     \* live members of that group other than the leader
    stray,    \* a lease holder outside any group this daemon owns
    resv,     \* the policy in the reservation file; none reads as the fail-safe
    store,    \* the service's row in services-control.db
    game,     \* game_active, mirrored by the durable active-game record
    hold,     \* storage_restart_blocked
    pkg,      \* package_quiesce_active
    permit,   \* package_begin() succeeded and its end() did not happen yet
    card,     \* the secondary card: "mounted" or "gone"
    seen,     \* the card as the last storage tick reported it
    stopDone, \* services_storage_stop_done
    broken,   \* the platform did not repair the card after the last resume
    up,       \* the daemon is running
    cont,     \* the service whose tick pass is not finished
    sigchld,  \* sigchld_seen: a SIGCHLD the main loop has not passed on
    noted,    \* child_exit_pending, as seen by each service's next pass
    stopped   \* the user stopped or disabled the service and, in this
              \* session, no generation was launched since

group    == <<leader, kids, stray, resv>>
barriers == <<game, hold, pkg, permit, card, seen, stopDone, broken>>
exits    == <<sigchld, noted>>
loop     == <<up, cont, exits>>
vars     == <<svc, group, store, barriers, loop, stopped>>

-----------------------------------------------------------------------------
(* Entries *)

EffectiveStates == {"unavailable", "disabled", "stopped", "stale", "starting",
                    "running", "stopping", "backoff", "failed"}
Reasons == {"none", "intentional", "leader-exited", "game", "suspend",
            "storage", "package"}

\* "skipped": an invalid candidate that may not overwrite the valid entry of
\* its id, so that the scan leaves the entry without a package.
EntryPaks == PakKinds \cup {"skipped"}

Entry == [pak : EntryPaks, policy : Policy, active : Policy,
          state : EffectiveStates, reason : Reasons,
          desired : BOOLEAN, session : BOOLEAN, autostart : BOOLEAN,
          owned : BOOLEAN, killSent : BOOLEAN, reapPending : BOOLEAN,
          stopRequested : BOOLEAN, restartAfter : BOOLEAN,
          unverified : BOOLEAN, lifecycle : BOOLEAN, gameLatch : BOOLEAN,
          blocked : BOOLEAN, restore : BOOLEAN,
          fails : 0..BreakerLimit, breaker : BOOLEAN]

Rows  == [desired : BOOLEAN, fails : 0..BreakerLimit, breaker : BOOLEAN]
NoRow == [desired |-> FALSE, fails |-> 0, breaker |-> FALSE]

ZeroPolicy == [game |-> "ignore", onFailure |-> FALSE, stopOn |-> {}]
FailSafe   == [game |-> "stop", onFailure |-> FALSE, stopOn |-> Triggers]

\* jw__ensure_entry and jw__load_control: persistent enablement is consumed
\* once, at daemon startup; the session Run flag never survives a restart.
LoadControl(row) ==
    [pak |-> "missing", policy |-> ZeroPolicy, active |-> ZeroPolicy,
     state |-> "unavailable", reason |-> "none",
     desired |-> row.desired, session |-> FALSE, autostart |-> row.desired,
     owned |-> FALSE, killSent |-> FALSE, reapPending |-> FALSE,
     stopRequested |-> FALSE, restartAfter |-> FALSE,
     unverified |-> FALSE, lifecycle |-> FALSE, gameLatch |-> FALSE,
     blocked |-> FALSE, restore |-> FALSE,
     fails |-> row.fails, breaker |-> row.breaker]

\* A service the supervisor has no entry for.
Unlisted == LoadControl(NoRow)

Row(x) == [desired |-> x.desired, fails |-> x.fails, breaker |-> x.breaker]

Available(x) == x.pak = "ok"

IdleState(x) ==
    IF ~Available(x) THEN "unavailable"
    ELSE IF x.desired THEN "stopped" ELSE "disabled"

Deliberate(reason) == reason \notin {"none", "leader-exited"}

\* Mutant of Gone: the exit of the leader is taken for the absence of the group.
GoneByLeader(s) == leader[s] # "live"

\* No member of the group is left but, at most, its zombie leader.
Gone(s) == leader[s] # "live" /\ ~kids[s]

\* jw__load_stale_policy: the policy the surviving generation reserved;
\* active_restart_on_failure is not touched.
StalePolicy(s, x) ==
    [resv[s] EXCEPT !.onFailure = x.active.onFailure]

\* Mutant of RecordFailure: the count is not capped at the limit.
RecordFailureUncapped(x) ==
    {[x EXCEPT !.state = IF x.breaker THEN "failed" ELSE "backoff", !.fails = @ + 1]}

\* jw_svc_backoff_record_failure: at the limit, whether the failures lie
\* inside the window decides between the breaker and one more delay.
RecordFailure(x) ==
    LET n == IF x.fails < BreakerLimit THEN x.fails + 1 ELSE BreakerLimit
    IN  IF x.breaker
        THEN {[x EXCEPT !.state = "failed"]}
        ELSE {y \in {[x EXCEPT !.state = "backoff", !.fails = n],
                     [x EXCEPT !.state = "failed", !.fails = n, !.breaker = TRUE]} :
                y.breaker => n = BreakerLimit}

-----------------------------------------------------------------------------
(* Launching a generation: jw__start_generation *)

\* Mutant of Gated: the caller is trusted to have checked for a game.
GatedByPackage(x, quiesced) == quiesced \/ x.blocked

\* The gates checked before the lease.
Gated(x, quiesced) ==
    quiesced \/ x.blocked \/ (game /\ x.policy.game # "ignore")

\* Mutant of StartOutcomes: the lease is not taken.
StartOutcomesUnleased(s, x, quiesced) ==
    IF Gated(x, quiesced) THEN {"failed"} ELSE {"failed", "ok"}

\* What a launch attempt may come to.  "stale": the lease is held by somebody
\* else.  "failed": a gate, the path, the fork or the exec.
\* "unrecorded" and "unreaped": the group is live but its reservation could not
\* be written, and stopping it again was not verified, or not reaped.
StartOutcomes(s, x, quiesced) ==
    IF Gated(x, quiesced) THEN {"failed"}
    ELSE IF stray[s] # "none"
    THEN {"stale"}
    ELSE {"failed"} \cup
         {r \in {"ok", "unrecorded", "unreaped"} :
            /\ x.pak \notin {"invalid", "missing"}
            /\ r # "ok" => "reservation" \in Faults
            /\ r = "unrecorded" => "stuck" \in Faults
            /\ r = "unreaped" => "reap" \in Faults}

Started(s, x, r) ==
    CASE r = "ok" ->
            [x EXCEPT !.owned = TRUE, !.active = x.policy, !.state = "starting",
                      !.reason = "none", !.autostart = FALSE,
                      !.reapPending = FALSE, !.stopRequested = FALSE,
                      !.restartAfter = FALSE, !.killSent = FALSE,
                      !.unverified = FALSE]
      [] r \in {"unrecorded", "unreaped"} ->
            [x EXCEPT !.owned = TRUE,
                      !.active = [x.policy EXCEPT !.onFailure = FALSE],
                      !.state = "stopping", !.reason = "intentional",
                      !.killSent = (r = "unrecorded"),
                      !.reapPending = (r = "unreaped")]
      [] r = "stale" -> [x EXCEPT !.active = StalePolicy(s, x)]
      [] OTHER -> x

LeaderAfter(r) ==
    CASE r \in {"ok", "unrecorded"} -> "live"
      [] r = "unreaped" -> "zombie"
      [] OTHER -> "none"

\* The launch of s came to r for the entry x ("none": there was no launch).
Launched(s, x, r) ==
    /\ leader' = [leader EXCEPT ![s] = LeaderAfter(r)]
    /\ resv' = [resv EXCEPT ![s] = IF r = "ok" THEN x.policy ELSE @]
    /\ stopped' = [stopped EXCEPT ![s] = @ /\ LeaderAfter(r) = "none"]
    /\ UNCHANGED <<kids, stray>>

\* A failed write is ignored by every caller of this.
Persist(s, x) ==
    \/ store' = [store EXCEPT ![s] = Row(x)]
    \/ "store" \in Faults /\ UNCHANGED store

-----------------------------------------------------------------------------
(* Stopping a generation *)

\* jw__begin_async_stop: signal now, let the tick finish.
AsyncStopping(x, reason, restartAfter) ==
    IF ~x.owned THEN x
    ELSE [x EXCEPT !.reason = reason, !.restartAfter = restartAfter,
                   !.autostart = FALSE, !.unverified = FALSE,
                   !.killSent = @ /\ (x.stopRequested \/ x.reapPending),
                   !.stopRequested = TRUE, !.state = "stopping"]

\* Mutant of Freed: the stop latch outlives the group.
FreedLatched(x) ==
    [x EXCEPT !.owned = FALSE, !.reapPending = FALSE, !.restartAfter = FALSE,
              !.state = IF @ \in {"backoff", "failed"} THEN @ ELSE IdleState(x)]

\* jw__entry_release_runtime and the bookkeeping of jw__on_group_released.
Freed(x) ==
    [x EXCEPT !.owned = FALSE, !.reapPending = FALSE, !.restartAfter = FALSE,
              !.stopRequested = FALSE, !.killSent = FALSE, !.unverified = FALSE,
              !.state = IF @ \in {"backoff", "failed"} THEN @ ELSE IdleState(x)]

\* The replacement a CTL-1 Restart asked for.
Replaced(s, x, r) ==
    LET y == Started(s, x, r)
    IN  CASE r = "ok" -> y
          [] r = "stale" -> [y EXCEPT !.state = "stale"]
          [] OTHER -> [y EXCEPT !.session = FALSE, !.state = IdleState(x)]

\* jw__on_group_released: the entry and the launch, if any, that follow a
\* verified release.
ReleaseOutcomes(s, x) ==
    IF ~x.restartAfter THEN {<<Freed(x), "none">>}
    ELSE IF ~Available(x)
    THEN {<<[Freed(x) EXCEPT !.state = IdleState(x)], "none">>}
    ELSE {<<Replaced(s, Freed(x), r), r>> : r \in StartOutcomes(s, x, pkg)}

\* jw__stop_and_reap_coordinated, for callers that cleared post_stop.
StopOutcomes == {"stopped"} \cup {o \in {"unverified"} : "stuck" \in Faults}
                            \cup {o \in {"unreaped"} : "reap" \in Faults}

\* Mutant of SyncStopped: an unverified stop counts as one.
SyncStoppedAnyhow(x, o) == [Freed(x) EXCEPT !.state = IdleState(x)]

SyncStopped(x, o) ==
    CASE o = "stopped" -> [Freed(x) EXCEPT !.state = IdleState(x)]
      [] o = "unverified" ->
            [x EXCEPT !.state = "stopping", !.killSent = TRUE,
                      !.stopRequested = TRUE, !.unverified = TRUE]
      [] OTHER -> [x EXCEPT !.state = "stopping", !.reapPending = TRUE]

\* The groups of the services in T after the blocking stop of each.
GroupsStopped(T, out) ==
    /\ leader' = [s \in Services |->
                    IF s \notin T \/ out[s] = "unverified" THEN leader[s]
                    ELSE IF out[s] = "unreaped" THEN "zombie" ELSE "none"]
    /\ kids' = [s \in Services |->
                  kids[s] /\ (s \notin T \/ out[s] = "unverified")]

\* The services whose store operation fails in this step.
Losses == IF "store" \in Faults THEN SUBSET Services ELSE {{}}

\* The rows after the entries of T were persisted and unlisted ones shed.
StoreAfter(T, entries, lost) ==
    store' = [s \in Services |->
                CASE s \in lost -> store[s]
                  [] s \notin lost /\ entries[s] = Unlisted -> NoRow
                  [] s \notin lost /\ entries[s] # Unlisted /\ s \in T -> Row(entries[s])
                  [] OTHER -> store[s]]

-----------------------------------------------------------------------------
(* Discovery: jw_svc_supervisor_scan *)

Findings == [found : Paks, policy : Policies]

FoundPak(x, found) ==
    IF found = "invalid" /\ x.pak \in {"ok", "secondary"} THEN "skipped" ELSE found

\* The package found for an entry and its policy.
Reconciled(x, f) ==
    LET pak == FoundPak(x, f.found)
        y   == [x EXCEPT !.pak = pak,
                         !.policy = CASE pak \in {"ok", "secondary"} -> f.policy
                                      [] pak = "invalid" -> ZeroPolicy
                                      [] OTHER -> @]
    IN  CASE pak # "ok" -> [y EXCEPT !.state = "unavailable"]
          [] pak = "ok" /\ x.state # "unavailable" -> y
          [] pak = "ok" /\ x.state = "unavailable" /\ ~x.owned ->
                [y EXCEPT !.state = IdleState(y)]
          [] OTHER ->
                [y EXCEPT !.state = IF x.reapPending \/ x.killSent THEN "stopping"
                                    ELSE "running"]

\* Mutant of Probed: only a package that can be run is probed.
ProbedAvailable(s, x) ==
    IF Available(x) /\ ~x.owned /\ stray[s] # "none"
    THEN [x EXCEPT !.active = StalePolicy(s, x), !.state = "stale"]
    ELSE x

\* A held lease shows a survivor, whatever became of its package.
Probed(s, x) ==
    IF ~x.owned /\ stray[s] # "none"
    THEN [x EXCEPT !.active = StalePolicy(s, x), !.state = "stale"]
    ELSE x

Exhausted(x) ==
    /\ x.pak \in {"missing", "skipped"}
    /\ x.state # "stale"
    /\ ~(x.desired \/ x.session \/ x.owned \/ x.reapPending \/ x.stopRequested)
    /\ ~(x.lifecycle \/ x.gameLatch \/ x.blocked)

\* The entries after a scan that found disk; a spent entry whose row could not
\* be deleted is kept.
Scanned(entries, disk, lost) ==
    [s \in Services |->
        LET x == Probed(s, Reconciled(entries[s], disk[s]))
        IN  IF Exhausted(x) /\ s \notin lost THEN Unlisted ELSE x]

Disks == [Services -> Findings]

-----------------------------------------------------------------------------
(* Initial state and the daemon's own life *)

Init ==
    /\ svc = [s \in Services |-> Unlisted]
    /\ leader = [s \in Services |-> "none"]
    /\ kids = [s \in Services |-> FALSE]
    /\ stray = [s \in Services |-> "none"]
    /\ resv = [s \in Services |-> FailSafe]
    /\ store = [s \in Services |-> NoRow]
    /\ game = FALSE /\ hold = FALSE /\ pkg = FALSE /\ permit = FALSE
    /\ card = "mounted" /\ seen = "mounted" /\ stopDone = FALSE /\ broken = FALSE
    /\ up = FALSE /\ cont = NoService /\ sigchld = FALSE
    /\ noted = [s \in Services |-> FALSE]
    /\ stopped = [s \in Services |-> FALSE]

\* jw_svc_supervisor_open, set_exit_notify and the first scan.
DaemonStart ==
    /\ ~up
    /\ up' = TRUE
    /\ noted' = [s \in Services |-> TRUE]
    /\ seen' = card
    /\ \E disk \in Disks, lost \in Losses :
          /\ svc' = Scanned([s \in Services |-> LoadControl(store[s])], disk, lost)
          /\ StoreAfter({}, svc', lost)
    /\ UNCHANGED <<group, game, hold, pkg, permit, card, stopDone, broken, cont, sigchld, stopped>>

\* What is left when the daemon is gone: the live processes of the services in
\* T hold their leases on their own.
DaemonGone(T) ==
    /\ up' = FALSE
    /\ svc' = [s \in Services |-> Unlisted]
    /\ leader' = [s \in Services |-> "none"]
    /\ kids' = [s \in Services |-> FALSE]
    /\ stray' = [s \in Services |->
                   IF (s \in T /\ ~Gone(s)) \/ stray[s] # "none"
                   THEN "orphan" ELSE "none"]
    /\ hold' = FALSE /\ pkg' = FALSE /\ permit' = FALSE /\ stopDone' = FALSE
    /\ broken' = FALSE
    /\ cont' = NoService /\ sigchld' = FALSE
    /\ noted' = [s \in Services |-> FALSE]
    /\ stopped' = [s \in Services |-> FALSE]
    /\ UNCHANGED <<resv, game, card, seen>>

Crash ==
    /\ "crash" \in Features
    /\ up
    /\ DaemonGone(Services)
    /\ UNCHANGED store

\* The main loop is between two handlers.
Ready == up /\ cont = NoService

\* jw_svc_supervisor_stop_all, then exit whatever came of it.
Shutdown ==
    /\ "shutdown" \in Features
    /\ Ready
    /\ \E out \in [Services -> StopOutcomes], lost \in Losses :
          LET stuck == {s \in Services : svc[s].owned /\ out[s] = "unverified"}
              kept  == {s \in Services : svc[s].state = "stale"
                                         \/ (svc[s].owned /\ out[s] = "stopped")}
          IN  /\ DaemonGone(stuck)
              /\ StoreAfter(kept, svc, lost)

-----------------------------------------------------------------------------
(* CTL-1 operations *)

Request(s) ==
    /\ "ctl" \in Features
    /\ Ready
    /\ ~pkg /\ ~svc[s].blocked
    /\ svc[s] # Unlisted

GameAdmits(x) == ~(game /\ x.policy.game # "ignore")

Enable(s) ==
    /\ Request(s)
    /\ Available(svc[s])
    /\ svc' = [svc EXCEPT ![s].desired = TRUE]
    /\ store' = [store EXCEPT ![s] = Row(svc'[s])]
    /\ UNCHANGED <<group, barriers, loop, stopped>>

\* Mutant of Disabled: the entry is idle before its group is gone.
DisabledAtOnce(x) ==
    LET y == [x EXCEPT !.desired = FALSE, !.session = FALSE, !.autostart = FALSE,
                       !.lifecycle = FALSE, !.gameLatch = FALSE]
    IN  [AsyncStopping(y, "intentional", FALSE) EXCEPT !.state = IdleState(y)]

\* Mutant of Disabled: a pending resume survives it.
DisabledLatched(x) ==
    LET y == [x EXCEPT !.desired = FALSE, !.session = FALSE, !.autostart = FALSE]
    IN  IF x.owned THEN AsyncStopping(y, "intentional", FALSE)
        ELSE [y EXCEPT !.state = IdleState(y)]

\* The intent is withdrawn and durable before anything is signalled; a locked
\* stale generation keeps its state.
Disabled(x) ==
    LET y == [x EXCEPT !.desired = FALSE, !.session = FALSE, !.autostart = FALSE,
                       !.lifecycle = FALSE, !.gameLatch = FALSE]
    IN  CASE x.owned -> AsyncStopping(y, "intentional", FALSE)
          [] ~x.owned /\ x.state \in {"stale", "stopping"} -> y
          [] OTHER -> [y EXCEPT !.state = IdleState(y)]

Disable(s) ==
    /\ Request(s)
    /\ svc' = [svc EXCEPT ![s] = Disabled(svc[s])]
    /\ store' = [store EXCEPT ![s] = Row(svc'[s])]
    /\ stopped' = [stopped EXCEPT ![s] = TRUE]
    /\ UNCHANGED <<group, barriers, loop>>

\* Run on a held lease queues the session intent, if that can be stored.
Run(s) ==
    /\ Request(s)
    /\ LET x == svc[s]
           y == [x EXCEPT !.lifecycle = FALSE, !.fails = 0, !.breaker = FALSE]
       IN  /\ Available(x) /\ GameAdmits(x)
           /\ ~x.stopRequested /\ ~x.reapPending /\ ~x.owned
           /\ x.state \notin {"stopping", "starting"}
           /\ \E r \in StartOutcomes(s, y, FALSE) :
                 LET z == Started(s, y, r)
                 IN  /\ Launched(s, y, r)
                     /\ \/ /\ r = "ok"
                           /\ svc' = [svc EXCEPT ![s] = [z EXCEPT !.session = TRUE]]
                           /\ Persist(s, z)
                        \/ /\ r = "stale"
                           /\ \E kept \in {TRUE} \cup {k \in {FALSE} : "store" \in Faults} :
                                 /\ svc' = [svc EXCEPT ![s] =
                                      [z EXCEPT !.session = kept, !.state = "stale"]]
                                 /\ store' = [store EXCEPT ![s] =
                                      IF kept THEN Row(z) ELSE @]
                        \/ /\ r \notin {"ok", "stale"}
                           /\ svc' = [svc EXCEPT ![s] = z]
                           /\ UNCHANGED store
    /\ UNCHANGED <<barriers, loop>>

Stop(s) ==
    /\ Request(s)
    /\ svc[s].owned
    /\ svc' = [svc EXCEPT ![s] =
          AsyncStopping([svc[s] EXCEPT !.lifecycle = FALSE, !.gameLatch = FALSE,
                                       !.session = FALSE], "intentional", FALSE)]
    /\ store' = [store EXCEPT ![s] = Row(svc'[s])]
    /\ stopped' = [stopped EXCEPT ![s] = TRUE]
    /\ UNCHANGED <<group, barriers, loop>>

\* The request is durable first; an owned group is stopped now and replaced by
\* the tick that verifies its absence.
Restart(s) ==
    /\ Request(s)
    /\ Available(svc[s]) /\ GameAdmits(svc[s])
    /\ LET x == svc[s]
           y == [x EXCEPT !.lifecycle = FALSE, !.fails = 0, !.breaker = FALSE,
                          !.session = TRUE]
       IN  /\ store' = [store EXCEPT ![s] = Row(y)]
           /\ \/ /\ x.owned
                 /\ svc' = [svc EXCEPT ![s] = AsyncStopping(y, "intentional", TRUE)]
                 /\ UNCHANGED <<group, stopped>>
              \/ /\ ~x.owned
                 /\ \E r \in StartOutcomes(s, y, FALSE) :
                       LET z == Started(s, y, r)
                       IN  /\ Launched(s, y, r)
                           /\ svc' = [svc EXCEPT ![s] =
                                CASE r = "ok" -> z
                                  [] r = "stale" -> [z EXCEPT !.state = "stale"]
                                  [] OTHER -> [z EXCEPT !.session = x.session]]
    /\ UNCHANGED <<barriers, loop>>

-----------------------------------------------------------------------------
(* jw_svc_supervisor_tick, one service's pass at a time *)

NoteChildExit ==
    /\ Ready /\ sigchld
    /\ sigchld' = FALSE
    /\ noted' = [s \in Services |-> TRUE]
    /\ UNCHANGED <<svc, group, store, barriers, up, cont, stopped>>

\* Mutant of ExitDue: a leader that has not settled yet is not looked at.
ExitDueSettled(s) ==
    /\ svc[s].owned /\ ~svc[s].reapPending /\ noted[s] /\ leader[s] = "zombie"
    /\ svc[s].state # "starting"

\* Step 1 of the pass finds an exited leader it was told to look for.
ExitDue(s) ==
    svc[s].owned /\ ~svc[s].reapPending /\ noted[s] /\ leader[s] = "zombie"

\* jw__handle_leader_exit up to the group check: the session Run is consumed
\* unless a Restart carries it over, and an undeliberate failure is recorded.
ExitRecorded(x, failed) ==
    LET y == [x EXCEPT !.session = @ /\ x.restartAfter]
    IN  IF ~Deliberate(x.reason) /\ failed /\ x.active.onFailure /\ Available(x)
        THEN RecordFailure(y)
        ELSE {[y EXCEPT !.state = "stopping"]}

\* Live descendants remain: the stop sequence runs against the reserved group.
LeftBehind(x) ==
    [x EXCEPT !.reapPending = TRUE,
              !.killSent = @ /\ x.stopRequested,
              !.unverified = @ /\ x.stopRequested,
              !.reason = IF Deliberate(@) THEN @ ELSE "leader-exited"]

LeaderExitObserved(s) ==
    /\ Ready /\ ExitDue(s)
    /\ noted' = [noted EXCEPT ![s] = FALSE]
    /\ \E failed \in BOOLEAN : \E x \in ExitRecorded(svc[s], failed) :
          \/ /\ svc' = [svc EXCEPT ![s] = LeftBehind(x)]
             /\ Persist(s, x)
             /\ UNCHANGED <<group, stopped>>
          \/ /\ Gone(s) /\ "reap" \in Faults
             /\ svc' = [svc EXCEPT ![s] =
                          [x EXCEPT !.state = "stopping", !.reapPending = TRUE]]
             /\ Persist(s, x)
             /\ UNCHANGED <<group, stopped>>
          \/ /\ Gone(s)
             /\ \E o \in ReleaseOutcomes(s, x) :
                   /\ svc' = [svc EXCEPT ![s] = o[1]]
                   /\ Launched(s, x, o[2])
             /\ Persist(s, x)
    /\ UNCHANGED <<barriers, up, cont, sigchld>>

\* No exit to report: the flag is consumed all the same.
NoExitFound(s) ==
    /\ Ready /\ noted[s] /\ ~ExitDue(s)
    /\ noted' = [noted EXCEPT ![s] = FALSE]
    /\ UNCHANGED <<svc, group, store, barriers, up, cont, sigchld, stopped>>

Settle(s) ==
    /\ Ready /\ ~ExitDue(s)
    /\ svc[s].owned /\ ~svc[s].reapPending /\ svc[s].state = "starting"
    /\ svc' = [svc EXCEPT ![s].state = "running"]
    /\ UNCHANGED <<group, store, barriers, loop, stopped>>

\* Mutant of Stopping: only what an exited leader left behind is followed up.
StoppingLeftovers(s) ==
    Ready /\ ~ExitDue(s) /\ svc[s].owned /\ svc[s].reapPending

\* Step 2: an asynchronous stop is in progress.
Stopping(s) ==
    /\ Ready /\ ~ExitDue(s)
    /\ svc[s].owned /\ (svc[s].reapPending \/ svc[s].stopRequested)

Escalate(s) ==
    /\ Stopping(s)
    /\ ~svc[s].killSent
    /\ svc' = [svc EXCEPT ![s].killSent = TRUE]
    /\ UNCHANGED <<group, store, barriers, loop, stopped>>

\* Absence is verified, the leader reaped and the lease released; the pass
\* goes on to the restart phases unless a replacement was launched.
Release(s) ==
    /\ Stopping(s)
    /\ Gone(s)
    /\ \E o \in ReleaseOutcomes(s, svc[s]) :
          /\ svc' = [svc EXCEPT ![s] = o[1]]
          /\ Launched(s, svc[s], o[2])
          /\ IF svc[s].restartAfter THEN Persist(s, o[1]) ELSE UNCHANGED store
          /\ cont' = IF o[1].owned \/ o[2] = "stale" THEN NoService ELSE s
    /\ UNCHANGED <<barriers, up, exits>>

\* TERM, KILL and the final window did not prove absence: logged once.
StopUnverified(s) ==
    /\ Stopping(s)
    /\ svc[s].killSent /\ ~svc[s].unverified
    /\ svc' = [svc EXCEPT ![s].unverified = TRUE]
    /\ Persist(s, svc[s])
    /\ UNCHANGED <<group, barriers, loop, stopped>>

\* Mutant of RestartPhases: a service that nothing wants is skipped.
RestartPhasesWanted(s) ==
    /\ up /\ cont \in {NoService, s}
    /\ ~svc[s].owned
    /\ ~pkg
    /\ ~(game /\ (svc[s].policy.game # "ignore" \/ svc[s].gameLatch))
    /\ svc[s].desired \/ svc[s].session \/ svc[s].lifecycle \/ svc[s].gameLatch

\* The restart phases, for a service without a group, unless a package
\* operation or a game forbids every launch.
RestartPhases(s) ==
    /\ up /\ cont \in {NoService, s}
    /\ ~svc[s].owned
    /\ ~pkg
    /\ ~(game /\ (svc[s].policy.game # "ignore" \/ svc[s].gameLatch))

Resumable(x) == Available(x) /\ x.state \notin {"stale", "stopping"}

\* Mutant of GameResumeDue: only an enabled service comes back.
GameResumeDueEnabled(x) == x.gameLatch /\ x.desired /\ Resumable(x)

GameResumeDue(x) == x.gameLatch /\ Resumable(x)

LifecycleResumeDue(x) ==
    /\ x.lifecycle /\ Resumable(x)
    /\ ~(hold /\ x.reason = "storage")

AutostartDue(x) ==
    /\ x.autostart /\ Available(x)
    /\ x.state \notin {"backoff", "failed", "stopping", "stale", "starting"}

\* A resume that came to r: the latch is spent unless the lease was held.
Resumed(s, x, spent, r) ==
    LET y == Started(s, spent, r)
    IN  CASE r = "ok" -> y
          [] r = "stale" -> [Started(s, x, r) EXCEPT !.state = "stale"]
          [] OTHER -> [y EXCEPT !.state = IdleState(x)]

Resume(s, spent) ==
    /\ \E r \in StartOutcomes(s, svc[s], pkg) :
          LET y == Resumed(s, svc[s], spent, r)
          IN  /\ svc' = [svc EXCEPT ![s] = y]
              /\ Launched(s, svc[s], r)
              /\ IF r = "stale" THEN UNCHANGED store ELSE Persist(s, y)
              /\ cont' = IF r = "failed" THEN s ELSE NoService
    /\ UNCHANGED <<barriers, up, exits>>

GameResume(s) ==
    /\ RestartPhases(s)
    /\ GameResumeDue(svc[s])
    /\ Resume(s, [svc[s] EXCEPT !.gameLatch = FALSE])

LifecycleResume(s) ==
    /\ RestartPhases(s)
    /\ ~GameResumeDue(svc[s]) /\ LifecycleResumeDue(svc[s])
    /\ Resume(s, [svc[s] EXCEPT !.lifecycle = FALSE])

\* A retry that cannot launch is one more failure.
RetryFailed(x) ==
    {[y EXCEPT !.state = IF y.breaker THEN "failed" ELSE x.state] :
        y \in RecordFailure(x)}

BackoffRetry(s) ==
    /\ RestartPhases(s)
    /\ ~GameResumeDue(svc[s]) /\ ~LifecycleResumeDue(svc[s])
    /\ svc[s].state = "backoff"
    /\ \E r \in StartOutcomes(s, svc[s], pkg) :
          LET x == Started(s, svc[s], r)
          IN  /\ Launched(s, svc[s], r)
              /\ \E y \in CASE r = "ok" -> {x}
                            [] r = "stale" -> {[x EXCEPT !.state = "stale"]}
                            [] OTHER -> RetryFailed(x) :
                    /\ svc' = [svc EXCEPT ![s] = y]
                    /\ IF r = "stale" THEN UNCHANGED store ELSE Persist(s, y)
    /\ cont' = NoService
    /\ UNCHANGED <<barriers, up, exits>>

\* Something still wants the service while an earlier generation lives.
StaleWanted(x) == x.desired \/ x.session \/ x.lifecycle \/ x.gameLatch

StaleRetry(s) ==
    /\ RestartPhases(s)
    /\ svc[s].state = "stale" /\ StaleWanted(svc[s])
    /\ \E r \in StartOutcomes(s, svc[s], pkg) :
          LET x == Started(s, svc[s], r)
              y == CASE r = "ok" -> [x EXCEPT !.lifecycle = FALSE]
                     [] r = "stale" -> x
                     [] OTHER ->
                          [x EXCEPT !.session = FALSE, !.autostart = FALSE,
                                    !.state = IF x.owned THEN @ ELSE IdleState(x)]
          IN  /\ svc' = [svc EXCEPT ![s] = y]
              /\ Launched(s, svc[s], r)
              /\ IF r = "stale" THEN UNCHANGED store ELSE Persist(s, y)
    /\ cont' = NoService
    /\ UNCHANGED <<barriers, up, exits>>

\* Acquire-and-close proves the survivor gone without a launch.
StaleCleared(s) ==
    /\ RestartPhases(s)
    /\ svc[s].state = "stale" /\ ~StaleWanted(svc[s])
    /\ stray[s] = "none"
    /\ svc' = [svc EXCEPT ![s].state = IdleState(svc[s])]
    /\ Persist(s, svc[s])
    /\ UNCHANGED <<group, barriers, loop, stopped>>

\* A failed attempt consumes the startup enablement, unless it left a group.
Autostart(s) ==
    /\ RestartPhases(s)
    /\ ~GameResumeDue(svc[s]) /\ ~LifecycleResumeDue(svc[s])
    /\ AutostartDue(svc[s])
    /\ \E r \in StartOutcomes(s, svc[s], pkg) :
          LET x == Started(s, svc[s], r)
              y == CASE r = "stale" -> [x EXCEPT !.state = "stale"]
                     [] r = "failed" -> [x EXCEPT !.autostart = FALSE,
                                                  !.state = IdleState(x)]
                     [] OTHER -> x
          IN  /\ svc' = [svc EXCEPT ![s] = y]
              /\ Launched(s, svc[s], r)
              /\ IF r \in {"ok", "failed"} THEN Persist(s, y) ELSE UNCHANGED store
    /\ cont' = NoService
    /\ UNCHANGED <<barriers, up, exits>>

\* The rest of the pass has nothing to do: a due delay may also be left to a
\* later tick.
PassDone(s) ==
    /\ up /\ cont = s
    /\ RestartPhases(s) =>
          ~(GameResumeDue(svc[s]) \/ LifecycleResumeDue(svc[s]) \/ AutostartDue(svc[s]))
    /\ cont' = NoService
    /\ UNCHANGED <<svc, group, store, barriers, up, exits, stopped>>

-----------------------------------------------------------------------------
(* The package barrier (PKG-1) *)

\* Mutant of PackageBusy: an earlier generation is not in the way.
PackageBusyOwned(x) ==
    \/ x.state = "stopping"
    \/ x.lifecycle \/ x.restartAfter \/ x.stopRequested
    \/ x.reapPending \/ x.unverified
    \/ x.owned /\ x.reason # "none"

\* An earlier generation, or a stop another operation owns.
PackageBusy(x) ==
    \/ x.state \in {"stale", "stopping"}
    \/ x.lifecycle \/ x.restartAfter \/ x.stopRequested
    \/ x.reapPending \/ x.unverified
    \/ x.owned /\ x.reason # "none"

Quiesced(x) ==
    IF x = Unlisted THEN x
    ELSE [x EXCEPT !.blocked = TRUE, !.restore = x.desired, !.autostart = FALSE,
                   !.lifecycle = FALSE, !.gameLatch = FALSE,
                   !.restartAfter = FALSE, !.session = FALSE,
                   !.reason = "package"]

Owned == {s \in Services : svc[s].owned}

\* The preflight is complete before anything is signalled.  The barrier stays
\* up when a stop fails, but then gives no permission to replace packages.
PackageBegin ==
    /\ "package" \in Features
    /\ Ready
    /\ ~pkg /\ ~game /\ ~hold
    /\ \A s \in Services : ~PackageBusy(svc[s])
    /\ \E out \in [Services -> StopOutcomes], lost \in Losses :
          /\ svc' = [s \in Services |->
                       IF s \in Owned THEN SyncStopped(Quiesced(svc[s]), out[s])
                       ELSE Quiesced(svc[s])]
          /\ GroupsStopped(Owned, out)
          /\ StoreAfter(Services, svc', lost)
          /\ permit' = (\A s \in Owned : out[s] = "stopped")
    /\ pkg' = TRUE
    /\ UNCHANGED <<stray, resv, game, hold, card, seen, stopDone, broken, loop, stopped>>

\* The entry package_end() has rescanned and taken the barrier from.
Unquiesced(x) ==
    LET y == [x EXCEPT !.desired = IF x.blocked THEN x.restore ELSE @,
                       !.session = FALSE, !.autostart = FALSE,
                       !.lifecycle = FALSE, !.blocked = FALSE, !.restore = FALSE,
                       !.reason = IF @ = "package" THEN "none" ELSE @]
    IN  IF x = Unlisted THEN x
        ELSE IF y.owned \/ y.state = "stale" THEN y
        ELSE [y EXCEPT !.state = IdleState(y)]

\* Every desired and available service starts; r is what its launch came to.
Restored(s, x, r) ==
    LET y == [x EXCEPT !.fails = 0, !.breaker = FALSE]
    IN  CASE r = "none" -> x
          [] r = "stale" -> [Started(s, y, r) EXCEPT !.state = "stale"]
          [] OTHER -> Started(s, y, r)

RestoreOutcomes(s, x) ==
    IF x.desired /\ Available(x) THEN StartOutcomes(s, x, FALSE) ELSE {"none"}

PackageEnd ==
    /\ Ready /\ pkg
    /\ \A s \in Services :
          svc[s].blocked => /\ ~svc[s].owned
                            /\ svc[s].state # "stale"
                            /\ ~svc[s].stopRequested /\ ~svc[s].reapPending
    /\ \E disk \in Disks, lost \in Losses :
          LET found == Scanned(svc, disk, lost)
              free  == [s \in Services |-> Unquiesced(found[s])]
          IN  \E r \in [Services -> {"none", "ok", "stale", "failed",
                                     "unrecorded", "unreaped"}] :
                 /\ \A s \in Services : r[s] \in RestoreOutcomes(s, free[s])
                 /\ svc' = [s \in Services |-> Restored(s, free[s], r[s])]
                 /\ leader' = [s \in Services |->
                                 IF r[s] = "none" THEN leader[s] ELSE LeaderAfter(r[s])]
                 /\ resv' = [s \in Services |->
                               IF r[s] = "ok" THEN free[s].policy ELSE resv[s]]
                 /\ stopped' = [s \in Services |->
                                  stopped[s] /\ LeaderAfter(r[s]) = "none"]
                 /\ StoreAfter(Services, svc', lost)
    /\ pkg' = FALSE /\ permit' = FALSE
    /\ UNCHANGED <<kids, stray, game, hold, card, seen, stopDone, broken, loop>>

-----------------------------------------------------------------------------
(* The game barrier (LIFE-1) *)

\* The active-game record is durable and every game-sensitive launch gated.
GameBegin ==
    /\ "game" \in Features
    /\ Ready /\ ~game
    /\ game' = TRUE
    /\ UNCHANGED <<svc, group, store, hold, pkg, permit, card, seen, stopDone, broken, loop,
                   stopped>>

GameStopService(s) ==
    /\ Ready /\ game
    /\ LET x == svc[s]
           y == [x EXCEPT !.lifecycle = FALSE, !.gameLatch = TRUE,
                          !.restartAfter = FALSE, !.reason = "game",
                          !.autostart = FALSE]
       IN  /\ x.owned
           /\ x.state \notin {"stale", "stopping"} /\ x.reason = "none"
           /\ ~x.stopRequested /\ ~x.reapPending
           /\ \E o \in StopOutcomes :
                 /\ svc' = [svc EXCEPT ![s] = SyncStopped(y, o)]
                 /\ GroupsStopped({s}, [t \in {s} |-> o])
                 /\ Persist(s, y)
    /\ UNCHANGED <<stray, resv, barriers, loop, stopped>>

\* The durable record was cleared: the launch was aborted or the game ended.
GameFinish ==
    /\ Ready /\ game
    /\ game' = FALSE
    /\ UNCHANGED <<svc, group, store, hold, pkg, permit, card, seen, stopDone, broken, loop,
                   stopped>>

-----------------------------------------------------------------------------
(* Suspend and storage changes: jw__lifecycle_stop_begin *)

Sensitive(x, t) == t \in x.active.stopOn

\* Only a generation nobody is stopping yet is stopped and will be resumed.
StoppedFor(t) ==
    {s \in Owned : /\ Sensitive(svc[s], t)
                   /\ svc[s].state # "stale" /\ svc[s].reason = "none"}

\* Mutant of StuckFor: what the stop of a service came to is not looked at.
StuckForUnchecked(t, out) ==
    {s \in Services :
        /\ Sensitive(svc[s], t)
        /\ svc[s].state = "stale" \/ (svc[s].owned /\ svc[s].reason # "none")}

\* Services whose absence the trigger cannot claim.
StuckFor(t, out) ==
    {s \in Services :
        /\ Sensitive(svc[s], t)
        /\ \/ svc[s].state = "stale"
           \/ svc[s].owned /\ svc[s].reason # "none"
           \/ s \in StoppedFor(t) /\ out[s] # "stopped"}

AfterStops(t, out) ==
    [s \in Services |->
        IF s \in StoppedFor(t)
        THEN SyncStopped([svc[s] EXCEPT !.reason = t, !.autostart = FALSE,
                                        !.restartAfter = FALSE,
                                        !.lifecycle = TRUE], out[s])
        ELSE svc[s]]

\* The stops, if the trigger fires, and the scan that follows if scans holds.
LifecycleStop(t, fires, out, scans) ==
    LET T == IF fires THEN StoppedFor(t) ELSE {}
        P == T \cup {s \in Services : /\ fires /\ Sensitive(svc[s], t)
                                     /\ svc[s].state = "stale"}
        entries == IF fires THEN AfterStops(t, out) ELSE svc
    IN  /\ \E disk \in Disks, lost \in Losses :
              /\ svc' = IF scans THEN Scanned(entries, disk, lost) ELSE entries
              /\ StoreAfter(P, svc', lost)
        /\ GroupsStopped(T, out)
        /\ UNCHANGED <<stray, resv>>

\* The stops, the sleep and, if the platform came back whole, the scan.
Suspend ==
    /\ "suspend" \in Features
    /\ Ready
    /\ \E out \in [Services -> StopOutcomes], whole \in BOOLEAN :
          /\ LifecycleStop("suspend", TRUE, out, whole)
          /\ broken' = ~whole
    /\ UNCHANGED <<game, hold, pkg, permit, card, seen, stopDone, loop, stopped>>

\* jw_svc_supervisor_storage_change_blocked
UnmountBlocked(x) ==
    /\ Sensitive(x, "storage")
    /\ \/ x.state = "stale"
       \/ /\ x.owned
          /\ \/ x.reason # "none" \/ x.state = "stopping"
             \/ x.stopRequested \/ x.reapPending \/ x.unverified

\* jw__handle_storage_action: refused up front, refused after a stop that was
\* not verified, or asked of the platform, which refuses an absent card and
\* may fail on a present one.
SafeUnmount ==
    /\ "storage" \in Features
    /\ Ready
    /\ \/ /\ \E s \in Services : UnmountBlocked(svc[s])
          /\ stopDone' = FALSE
          /\ UNCHANGED <<svc, group, store, hold, card, seen>>
       \/ /\ \A s \in Services : ~UnmountBlocked(svc[s])
          /\ \E out \in [Services -> StopOutcomes], unmounted \in BOOLEAN :
                /\ unmounted => card = "mounted" /\ StuckFor("storage", out) = {}
                /\ LifecycleStop("storage", TRUE, out, unmounted)
                /\ hold' = (unmounted \/ StuckFor("storage", out) # {})
                /\ stopDone' = (unmounted /\ StoppedFor("storage") # {})
                /\ card' = IF unmounted THEN "gone" ELSE card
                /\ seen' = IF unmounted THEN "gone" ELSE seen
    /\ UNCHANGED <<game, pkg, permit, broken, loop, stopped>>

\* The card was inserted or removed since the last storage tick: a removal
\* stops the services unless a safe unmount already did, and an insertion ends
\* the hold after the scan.
StorageTick ==
    /\ Ready
    /\ card # seen
    /\ seen' = card /\ stopDone' = FALSE
    /\ \E out \in [Services -> StopOutcomes] :
          LifecycleStop("storage", card = "gone" /\ ~stopDone, out, TRUE)
    /\ hold' = (card = "gone" /\ (hold \/ ~stopDone))
    /\ UNCHANGED <<game, pkg, permit, card, broken, loop, stopped>>

\* The scan after a package transaction was recovered.
Rescan ==
    /\ "rescan" \in Features
    /\ Ready
    /\ \E disk \in Disks, lost \in Losses :
          /\ svc' = Scanned(svc, disk, lost)
          /\ StoreAfter({}, svc', lost)
    /\ UNCHANGED <<group, barriers, loop, stopped>>

-----------------------------------------------------------------------------
(* The processes and the card *)

LeaderExits(s) ==
    /\ leader[s] = "live"
    /\ leader' = [leader EXCEPT ![s] = "zombie"]
    /\ sigchld' = TRUE
    /\ UNCHANGED <<svc, kids, stray, resv, store, barriers, up, cont, noted, stopped>>

\* Nobody forks once the group was killed.
Fork(s) ==
    /\ "descendants" \in Features
    /\ leader[s] = "live" /\ ~kids[s] /\ ~svc[s].killSent
    /\ kids' = [kids EXCEPT ![s] = TRUE]
    /\ UNCHANGED <<svc, leader, stray, resv, store, barriers, loop, stopped>>

DescendantsExit(s) ==
    /\ kids[s]
    /\ kids' = [kids EXCEPT ![s] = FALSE]
    /\ UNCHANGED <<svc, leader, stray, resv, store, barriers, loop, stopped>>

\* A descendant leaves the group by setsid() and keeps the inherited lease.
Escape(s) ==
    /\ "escape" \in Features
    /\ stray[s] = "none" /\ ~Gone(s) /\ ~svc[s].killSent
    /\ stray' = [stray EXCEPT ![s] = "escaped"]
    /\ UNCHANGED <<svc, leader, kids, resv, store, barriers, loop, stopped>>

StrayExits(s) ==
    /\ stray[s] # "none"
    /\ stray' = [stray EXCEPT ![s] = "none"]
    /\ UNCHANGED <<svc, leader, kids, resv, store, barriers, loop, stopped>>

CardMoves ==
    /\ "storage" \in Features
    /\ card' \in {"mounted", "gone"} \ {card}
    /\ UNCHANGED <<svc, group, store, game, hold, pkg, permit, seen, stopDone, broken, loop,
                   stopped>>

-----------------------------------------------------------------------------
(* The specification *)

UserStep(s) == Enable(s) \/ Disable(s) \/ Run(s) \/ Stop(s) \/ Restart(s)

TickStep(s) ==
    \/ LeaderExitObserved(s) \/ NoExitFound(s) \/ Settle(s)
    \/ Escalate(s) \/ Release(s) \/ StopUnverified(s)
    \/ GameResume(s) \/ LifecycleResume(s) \/ BackoffRetry(s)
    \/ StaleRetry(s) \/ StaleCleared(s) \/ Autostart(s) \/ PassDone(s)

BarrierStep ==
    \/ PackageBegin \/ PackageEnd
    \/ GameBegin \/ GameFinish \/ \E s \in Services : GameStopService(s)
    \/ Suspend \/ SafeUnmount \/ StorageTick \/ Rescan

ProcessStep(s) ==
    LeaderExits(s) \/ Fork(s) \/ DescendantsExit(s) \/ Escape(s) \/ StrayExits(s)

Next ==
    \/ DaemonStart \/ Crash \/ Shutdown
    \/ \E s \in Services : UserStep(s) \/ TickStep(s) \/ ProcessStep(s)
    \/ NoteChildExit
    \/ BarrierStep
    \/ CardMoves

Spec == Init /\ [][Next]_vars

-----------------------------------------------------------------------------
(* Properties *)

\* Every variable has its type.
TypeOK ==
    /\ svc \in [Services -> Entry]
    /\ leader \in [Services -> {"none", "live", "zombie"}]
    /\ kids \in [Services -> BOOLEAN]
    /\ stray \in [Services -> {"none", "escaped", "orphan"}]
    /\ resv \in [Services -> Policy]
    /\ store \in [Services -> Rows]
    /\ game \in BOOLEAN /\ hold \in BOOLEAN /\ pkg \in BOOLEAN
    /\ permit \in BOOLEAN /\ stopDone \in BOOLEAN /\ up \in BOOLEAN
    /\ broken \in BOOLEAN
    /\ card \in {"mounted", "gone"} /\ seen \in {"mounted", "gone"}
    /\ cont \in Services \cup {NoService}
    /\ sigchld \in BOOLEAN
    /\ noted \in [Services -> BOOLEAN]
    /\ stopped \in [Services -> BOOLEAN]

\* The daemon never loses a group it started: until the group was verified
\* absent and its leader reaped, the entry keeps the pgid and the lease, and a
\* leader it owns is never collected behind its back ("the only safe handle on
\* a still-live writer", start_generation).
OwnershipKept ==
    \A s \in Services :
        IF svc[s].owned THEN leader[s] # "none"
        ELSE leader[s] = "none" /\ ~kids[s]

\* A new generation is never launched over any process of an earlier one: not
\* over the group's own members and not over a holder of its lease, whatever
\* stop, crash, retry or barrier came before (SVC-1's no-overlap rule).
Launches(s) == leader[s] # "live" /\ leader'[s] = "live"
Starts(s)   == Launches(s) /\ svc'[s].reason = "none"

NoOverlap ==
    [][\A s \in Services : Launches(s) => stray[s] = "none" /\ ~kids[s]]_vars

\* Whatever survives a daemon crash is reported as a stale generation for as
\* long as it lives, and so is never taken for a stopped service: no request,
\* scan, retry or barrier erases the state.
SurvivorVisible ==
    \A s \in Services :
        up /\ stray[s] = "orphan" => svc[s].state = "stale" /\ ~svc[s].owned

\* While a package caller holds its permission to replace package bytes, every
\* group this daemon started is gone, leader and members, and so is everything
\* that survived a crash.  A descendant that left its group by setsid() with the
\* lease may run on: package_begin() looks at the states of the entries and
\* probes no lease.
PackageBarrier ==
    permit => \A s \in Services :
                 leader[s] = "none" /\ ~kids[s] /\ stray[s] # "orphan"

\* No launch of a game-sensitive service crosses the game's writer barrier, by
\* whichever path: Run, restart, retry, resume, autostart or package restore.
GameBarrier ==
    [][\A s \in Services : game /\ Starts(s) => svc'[s].active.game = "ignore"]_vars

\* A safe unmount happens only when no live process belongs to a service that
\* declared itself sensitive to storage changes: not to a group of this daemon,
\* and not to one that survived a crash and reserved that policy.
UnmountVerified ==
    [][card = "mounted" /\ card' = "gone" /\ seen' # seen =>
          \A s \in Services :
              /\ leader'[s] = "live" \/ kids'[s] => ~Sensitive(svc'[s], "storage")
              /\ stray'[s] = "orphan" => "storage" \notin resv[s].stopOn]_vars

\* A service the user stopped or disabled is not started again by the daemon in
\* the same session, whether by a crash retry, by a resume after a game, suspend
\* or storage change, or by the replacement it was waiting for: the launch that
\* ends the stop is a session Run.  (A package restore starts what is enabled,
\* and the retry of a stale generation is examined by StopWins.)
StopHonoured ==
    [][\A s \in Services : Starts(s) /\ stopped[s]
          => svc'[s].session \/ pkg \/ svc[s].state = "stale"]_vars

\* A stop latch never outlives the group it is for: an entry without a group is
\* not waiting for an exit, an escalation or a replacement, which would refuse
\* every later Run.
NoDanglingStop ==
    \A s \in Services :
        svc[s].stopRequested \/ svc[s].reapPending \/ svc[s].restartAfter
            => svc[s].owned

\* A leader that exited is never forgotten: its SIGCHLD is pending, or the next
\* pass will look, or the stop sequence already has the group.
ExitNeverMissed ==
    \A s \in Services :
        svc[s].owned /\ leader[s] = "zombie" =>
            sigchld \/ noted[s] \/ svc[s].reapPending \/ svc[s].stopRequested

\* A service reported stopped or disabled has no group.
IdleMeansNotRunning ==
    \A s \in Services :
        svc[s].state \in {"disabled", "stopped"} => ~svc[s].owned

\* A service that was stopped for a suspend whose resume was not repaired.
AwaitsRepair(s) ==
    broken /\ svc[s].lifecycle /\ svc[s].reason = "suspend"

-----------------------------------------------------------------------------
(* What the comments say and the code does not do *)

\* "CTL-1 Stop and lifecycle stops must win for the rest of this session"
\* (supervisor.c:551-553): no daemon step but a package restore starts a
\* service the user stopped.
StopWins ==
    [][\A s \in Services : Starts(s) /\ stopped[s] => svc'[s].session \/ pkg]_vars

\* "A successful unmount stays held until a later mounted + rescanned storage
\* tick" (main.c:5206-5207): the restart hold ends only while a card is mounted.
HoldUntilMounted ==
    [][hold /\ ~hold' /\ up' => card' = "mounted"]_vars

\* "only after that succeeds may the supervisor rediscover packages on the live
\* mount and make suspend-sensitive services eligible for restart"
\* (main.c:11658-11660): of the services stopped for a suspend whose resume the
\* platform did not repair, none is launched but by a user's Run.
RepairedFirst ==
    [][\A s \in Services :
          AwaitsRepair(s) /\ Launches(s) => svc'[s].session]_vars

\* "A mode-stop or fallback stop is resumed exactly once after the active record
\* was durably cleared" (supervisor.c:2060): the launch that brings the service
\* back spends the latch, or a later exit of that generation resumes it again.
ResumedOnce ==
    [][\A s \in Services : Starts(s) /\ ~game => ~svc'[s].gameLatch]_vars

-----------------------------------------------------------------------------
(* Refinement *)

Generation == INSTANCE SvcGeneration WITH
    held    <- {s \in Services : svc[s].owned},
    groups  <- {s \in Services : leader[s] = "live" \/ kids[s]},
    holders <- {s \in Services : stray[s] # "none"}

\* The supervisor implements the abstract service generations of SVC-1: every
\* step of its launches, stops, barriers and crashes is one of theirs.
SingleGeneration == Generation!Spec

-----------------------------------------------------------------------------
(* Liveness *)

RestartPhase(s) ==
    \/ GameResume(s) \/ LifecycleResume(s) \/ BackoffRetry(s)
    \/ StaleRetry(s) \/ StaleCleared(s) \/ Autostart(s) \/ PassDone(s)

\* The main loop runs a tick on every pass and every delay of a tick elapses; a
\* group that was sent SIGKILL exits.  Nothing is assumed of requests, of
\* holders of a lease outside the group, or of the card.
Fairness ==
    /\ WF_vars(NoteChildExit)
    /\ \A s \in Services :
          /\ WF_vars(LeaderExitObserved(s))
          /\ WF_vars(Escalate(s))
          /\ WF_vars(Release(s))
          /\ WF_vars(RestartPhase(s))
          /\ WF_vars(svc[s].killSent /\ LeaderExits(s))
          /\ WF_vars(svc[s].killSent /\ DescendantsExit(s))

FairSpec == Spec /\ Fairness

\* Every stop that was asked for completes, whatever the group does, without
\* the main loop ever waiting for it.
StopCompletes == \A s \in Services : []<>~svc[s].stopRequested

\* A leader that exited is handled: its group is released, at once or at the end
\* of the stop sequence its descendants are put through.
ExitHandled == \A s \in Services : []<>(~svc[s].owned \/ leader[s] = "live")

Barred(s) ==
    \/ pkg \/ game \/ hold \/ stray[s] # "none" \/ ~Available(svc[s])
    \/ AwaitsRepair(s)

\* A service the daemon took down for a game, a suspend or a storage change
\* comes back, unless a launch is impossible or the attempt failed.  Of a
\* suspend whose resume the platform did not repair nothing is asked: there the
\* code resumes what its comment says must wait (RepairedFirst).
LatchServed ==
    \A s \in Services :
        []<>(svc[s].owned \/ ~(svc[s].lifecycle \/ svc[s].gameLatch) \/ Barred(s))

\* A stale generation that is gone is noticed, and its service released from
\* the state.
StaleNoticed ==
    \A s \in Services : []<>(svc[s].state # "stale" \/ stray[s] # "none" \/ pkg \/ game)

=============================================================================
