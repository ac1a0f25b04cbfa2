------------------------------ MODULE GameLaunch ------------------------------
(***************************************************************************)
(* LIFE-1: how jawakad (cmd/jawakad/main.c) coordinates a game launch with *)
(* the background services, and how it knows that the game has ended.      *)
(*                                                                         *)
(* A launch commits a durable active-game record, closes the supervisor's  *)
(* start gate, then visits every live service: one is stopped, one that    *)
(* subscribed is asked (an exchange with deadlines), one that asked to be  *)
(* checked first is asked before it is stopped.  The writer - the game's   *)
(* process group - starts once no exchange is left; the record is cleared  *)
(* once that whole group is gone.  Any step may instead abort the launch   *)
(* or block it until the player chooses Play Anyway.                       *)
(*                                                                         *)
(* The daemon is one thread, so a handler with everything it calls is one  *)
(* action.  Handlers call each other (a full queue drops a connection,     *)
(* which fails its exchange, which blocks the launch, which broadcasts to  *)
(* every connection ...): each function of the code is an operator from    *)
(* the daemon's state w to the next one, and the outcomes the code cannot  *)
(* foresee (a full queue, a stop that cannot be verified, an I/O error)    *)
(* are fixed for one action in the record e.                               *)
(***************************************************************************)
EXTENDS Integers, FiniteSets

CONSTANTS
    NServices,   \* services, visited in this order; so are their connections
    Manifest,    \* each service's lifecycle.game policy
    Modes,       \* the modes a service subscribes with
    Sources,     \* storage sources a game may live on
    MaxLaunches, \* launch ids generated in a behaviour
    Features,    \* the environment steps this instance has
    Faults       \* what may fail

Service    == 1..NServices
Policies   == {"stop", "notify", "ignore"}
NoSource   == "none"
Nobody     == "nobody"

AllFeatures == {"restarts", "switch", "move", "crash", "boot", "wait",
                "reconnect", "race", "backpressure"}
AllFaults   == {"queue", "stop", "clear", "persist", "spawn", "proxy", "reply"}

ASSUME GameLaunchAssumption ==
    /\ NServices \in Nat
    /\ Manifest \in [Service -> Policies]
    /\ Modes \subseteq {"stop", "check", "notify"}
    /\ NoSource \notin Sources
    /\ MaxLaunches \in Nat
    /\ Features \subseteq AllFeatures
    /\ Faults \subseteq AllFaults

VARIABLES
    d,      \* the daemon's launch state (jw_daemon_state)
    conn,   \* each service's subscriber connection
    svc,    \* each service as the supervisor sees it
    disk,   \* the launch id in active-game.json, 0 without a record
    ids,    \* launch ids generated so far
    target, \* the source the pending game resolves to now
    game,   \* the process group of the last writer
    ui,     \* the launcher: what it shows, or that it is about to exit
    up,     \* the daemon is running
    consent \* the player chose Play Anyway for the launch being prepared

world == <<d, conn, svc, disk, ids>>
vars  == <<world, target, game, ui, up, consent>>

-----------------------------------------------------------------------------
(* State *)

\* The fields of jw_daemon_state this protocol uses.  act, uncertain,
\* recovered, id, src: the active_game record; gate: the supervisor's
\* game_active; child: the tracked foreground child; boot: the phase of a
\* boot resume.
IdleDaemon ==
    [pending |-> FALSE, coord |-> FALSE, ready |-> FALSE, exch |-> 0,
     blocked |-> FALSE, verified |-> FALSE, retry |-> FALSE,
     override |-> FALSE, skip |-> FALSE, decision |-> FALSE,
     started |-> FALSE, gate |-> FALSE,
     act |-> FALSE, uncertain |-> FALSE, recovered |-> FALSE,
     id |-> 0, src |-> NoSource,
     child |-> Nobody, boot |-> "no"]

Phases == {"none", "awaiting", "decision", "waiting", "ack"}

\* No connection, or one that is not subscribed.
NoConn == [sub |-> FALSE, reconciled |-> FALSE, bound |-> FALSE,
           mode |-> "notify", wait |-> FALSE, phase |-> "none",
           stopAfterFlush |-> FALSE]

\* st: "down" (no group), "live", "stuck" (a stop was begun and could not be
\* verified), "stale" (a survivor of another daemon).  told: launch ids this
\* generation was told of; said: the launch it last answered ready for.
Down == [st |-> "down", told |-> {}, said |-> 0]

NoGame == [leader |-> "none", kids |-> FALSE]

Writing(g) == g.leader = "live" \/ g.kids

Asking(w, s) == w.conn[s].phase # "none"
Checking(c)  == c.phase # "none" /\ c.mode = "check"

-----------------------------------------------------------------------------
(* What one action may meet *)

Chances(f) == IF f \in Faults THEN BOOLEAN ELSE {FALSE}
Subsets(f) == IF f \in Faults THEN SUBSET Service ELSE {{}}

\* full: connections whose outbound queue overflows.  hang: services whose
\* stop cannot be verified.  clear: the record is removed, kept, or removed
\* without its directory synced.  persist: committed, not written, or renamed
\* into place without its directory synced.  proxy: RAOfflineProxy is enabled
\* and not ready.
AllEvents ==
    [full    : Subsets("queue"),
     hang    : Subsets("stop"),
     clear   : IF "clear" \in Faults THEN {"ok", "kept", "gone"} ELSE {"ok"},
     persist : IF "persist" \in Faults THEN {"ok", "failed", "left"} ELSE {"ok"},
     spawn   : Chances("spawn"),
     proxy   : Chances("proxy")]

\* Only what is there can fail.
LaunchEvents ==
    {e \in AllEvents :
        /\ \A s \in e.full : conn[s].sub
        /\ \A s \in e.hang : svc[s].st = "live"}

\* What an action may meet that commits no launch.
Events ==
    {e \in LaunchEvents :
        /\ e.persist = "ok" /\ ~e.proxy
        /\ d.act \/ e.clear = "ok"}

-----------------------------------------------------------------------------
(* Connections, stops and broadcasts *)

Hangup(w, s) == [w EXCEPT !.conn[s] = NoConn]

\* jw__connection_exchange_clear together with the exchange counter
EndExchange(w, s) ==
    [w EXCEPT !.conn[s].phase = "none",
              !.d.exch = IF @ > 0 THEN @ - 1 ELSE 0]

\* jw_svc_supervisor_game_stop_service: it closes the start gate, refuses a
\* stale generation and one whose stop is in progress, and kills the rest.
StopVerified(w, e, s) ==
    \/ w.svc[s].st = "down"
    \/ w.svc[s].st = "live" /\ s \notin e.hang

Stop(w, e, s) ==
    LET gated == [w EXCEPT !.d.gate = TRUE]
    IN  IF w.svc[s].st # "live" THEN gated
        ELSE IF s \in e.hang THEN [gated EXCEPT !.svc[s].st = "stuck"]
        ELSE [gated EXCEPT !.svc[s] = Down, !.conn[s].bound = FALSE]

\* A broadcast drops the connections that no longer revalidate and those
\* whose queue is full; it only runs when no exchange is open.
Broadcast(w, e) ==
    [w EXCEPT !.conn =
        [s \in Service |->
            IF /\ w.conn[s].sub /\ w.conn[s].reconciled
               /\ ~w.conn[s].bound \/ s \in e.full
            THEN NoConn ELSE w.conn[s]]]

\* Clearing the active record, and with it the gate, or keeping both when the
\* removal is not known to be durable (jw__active_game_clear_durable).
ClearRecord(w, e) ==
    IF e.clear = "ok"
    THEN [w EXCEPT !.d.act = FALSE, !.d.uncertain = FALSE,
                   !.d.recovered = FALSE, !.d.id = 0, !.d.src = NoSource,
                   !.d.gate = FALSE, !.disk = 0]
    ELSE [w EXCEPT !.d.act = TRUE, !.d.uncertain = TRUE, !.d.gate = TRUE,
                   !.disk = IF e.clear = "gone" THEN 0 ELSE @]

TellAborted(w, e) == IF w.d.id # 0 THEN Broadcast(w, e) ELSE w
ForgetLaunch(w, e) == IF w.d.act THEN ClearRecord(w, e) ELSE w

\* jw__game_coordination_abort
Abort(w, e) ==
    LET quiet == [w EXCEPT
            !.d.coord = FALSE, !.d.ready = FALSE, !.d.decision = FALSE,
            !.d.exch = 0, !.d.pending = FALSE, !.d.override = FALSE,
            !.d.skip = FALSE, !.d.started = FALSE,
            !.conn = [s \in Service |-> [w.conn[s] EXCEPT !.phase = "none"]]]
    IN  ForgetLaunch(TellAborted(quiet, e), e)

\* jw__game_coordination_block: verified stands for the reasons after which
\* Play Anyway still insists on a verified stop, retry for
\* "raofflineproxy-not-ready".
Block(w, e, verified, retry) ==
    [Abort(w, e) EXCEPT !.d.blocked = TRUE, !.d.verified = verified,
                        !.d.retry = retry]

-----------------------------------------------------------------------------
(* Exchanges *)

\* jw__game_coordination_connection_failed
ExchangeFailed(w, e, s) ==
    LET ended == EndExchange(w, s)
    IN  IF w.conn[s].mode = "check" /\ ~w.d.override
        THEN Block(ended, e, TRUE, FALSE)
        ELSE IF StopVerified(ended, e, s) \/ w.d.override
        THEN Stop(ended, e, s)
        ELSE Block(Stop(ended, e, s), e, FALSE, FALSE)

\* Mutant of Drop: a connection is closed without failing its exchange.
DropSilently(w, e, s) == Hangup(w, s)

\* jw__ipc_connection_drop
Drop(w, e, s) ==
    Hangup(IF Asking(w, s) /\ w.d.coord THEN ExchangeFailed(w, e, s) ELSE w, s)

\* jw__ipc_connection_queue_json: a message that finds the queue full costs
\* the service its subscription.
Send(w, e, s) == IF s \in e.full THEN Drop(w, e, s) ELSE w

SendTold(w, e, s) ==
    IF s \in e.full THEN Drop(w, e, s)
    ELSE [w EXCEPT !.svc[s].told = @ \cup {w.d.id}]

\* jw__game_exchange_send_cancel
Cancel(w, e, s) == Send([w EXCEPT !.conn[s].phase = "ack"], e, s)

\* Mutant of Begin: game.start and game.cancel count as two exchanges.
BeginCountingMessages(w, e, s) ==
    LET waits == w.conn[s].mode = "check" \/ w.conn[s].wait
        opened == [w EXCEPT !.d.exch = IF waits THEN @ + 1 ELSE @ + 2,
                      !.conn[s].phase = IF waits THEN "awaiting" ELSE "ack"]
    IN  SendTold(opened, e, s)

\* jw__begin_game_exchange: game.check for a subscriber to be checked before
\* its stop, else game.start, at once followed by game.cancel when the
\* subscriber asked for no wait.
Begin(w, e, s) ==
    LET waits == w.conn[s].mode = "check" \/ w.conn[s].wait
        opened == [w EXCEPT !.d.exch = @ + 1,
                      !.conn[s].phase = IF waits THEN "awaiting" ELSE "ack"]
    IN  SendTold(opened, e, s)

-----------------------------------------------------------------------------
(* Starting the writer *)

\* jw__spawn_authorized_pending_game and what follows a success
SpawnFails(w, e) == ~w.d.pending \/ e.spawn

StartWriter(w) ==
    [w EXCEPT !.d.child = "game", !.d.pending = FALSE,
              !.d.override = FALSE, !.d.started = TRUE]

\* jw__game_coordination_launch_if_ready: a live launcher is asked to exit
\* first; the game must still resolve to the source of the record.
LaunchIfReady(w, e) ==
    LET authorized == [w EXCEPT !.d.coord = FALSE]
    IN  IF ~w.d.coord \/ w.d.exch > 0 THEN w
        ELSE IF w.tgt # w.d.src \/ ~w.d.act THEN Abort(w, e)
        ELSE IF w.d.child = "launcher" THEN [authorized EXCEPT !.d.ready = TRUE]
        ELSE IF SpawnFails(w, e) THEN Abort(w, e)
        ELSE StartWriter(authorized)

\* jw__usable_subscription
Usable(w, s) == w.conn[s].sub /\ w.conn[s].reconciled /\ w.conn[s].bound

Owned(w, s) == w.svc[s].st \in {"live", "stuck"}

GamePolicy(w, s) ==
    IF ~Usable(w, s) THEN Manifest[s]
    ELSE IF w.conn[s].mode = "notify" THEN "notify" ELSE "stop"

\* Mutant of Visit: a service whose stop cannot be verified is passed over.
VisitLeniently(w, e, s) ==
    LET policy == GamePolicy(w, s)
        asked  == Usable(w, s) /\ policy = "notify"
        checked == /\ Usable(w, s) /\ w.conn[s].mode = "check"
                   /\ ~w.d.override /\ ~w.d.skip
    IN  IF ~Owned(w, s) \/ policy = "ignore" THEN w
        ELSE IF checked \/ asked THEN Begin(w, e, s)
        ELSE Stop(w, e, s)

StopOrBlock(w, e, s) ==
    IF StopVerified(w, e, s) \/ w.d.override THEN Stop(w, e, s)
    ELSE Block(Stop(w, e, s), e, w.d.skip, FALSE)

\* A subscription that no longer revalidates is dropped when it is looked up.
DropUnbound(w, e, s) ==
    IF w.conn[s].sub /\ w.conn[s].reconciled /\ ~w.conn[s].bound
    THEN Drop(w, e, s) ELSE w

\* One service's turn in jw__spawn_pending_game: ask it, check it or stop it.
Visit(w, e, s) ==
    LET policy == GamePolicy(w, s)
        asked  == Usable(w, s) /\ policy = "notify"
        checked == /\ Usable(w, s) /\ w.conn[s].mode = "check"
                   /\ ~w.d.override /\ ~w.d.skip
    IN  IF ~Owned(w, s) THEN w
        ELSE IF policy = "ignore" THEN DropUnbound(w, e, s)
        ELSE IF checked \/ asked THEN Begin(w, e, s)
        ELSE StopOrBlock(DropUnbound(w, e, s), e, s)

\* The services in order, until one of them blocks the launch.
VisitAll(w, e) ==
    LET after[s \in 0..NServices] ==
            IF s = 0 THEN w
            ELSE IF after[s - 1].d.coord THEN Visit(after[s - 1], e, s)
            ELSE after[s - 1]
    IN  after[NServices]

Survivors(w) == {s \in Service : w.svc[s].st = "stale" /\ Manifest[s] # "ignore"}

\* The launch is refused before its record is committed.
Refuse(w) == [w EXCEPT !.d.pending = FALSE, !.d.override = FALSE]

Commit(w, e) ==
    [w EXCEPT !.ids = @ + 1, !.disk = w.ids + 1,
              !.d.act = TRUE, !.d.uncertain = FALSE, !.d.recovered = FALSE,
              !.d.id = w.ids + 1, !.d.src = w.tgt,
              !.d.started = FALSE, !.d.coord = TRUE, !.d.ready = FALSE,
              !.d.exch = 0, !.d.gate = TRUE]

CheckProxy(w, e) ==
    IF w.d.coord /\ e.proxy /\ ~w.d.override
    THEN Block(w, e, FALSE, TRUE) ELSE LaunchIfReady(w, e)

Coordinate(w, e) ==
    IF Survivors(w) # {} /\ ~w.d.override THEN Block(w, e, FALSE, FALSE)
    ELSE CheckProxy(VisitAll(w, e), e)

\* Mutant of SpawnPending: the record is taken over before it is written.
SpawnBeforePersist(w, e) ==
    IF ~w.d.pending THEN w
    ELSE IF w.d.act \/ w.tgt = NoSource THEN Refuse(w)
    ELSE IF e.persist # "ok"
    THEN [Refuse(Commit(w, e)) EXCEPT
            !.d.coord = FALSE,
            !.disk = IF e.persist = "left" THEN w.ids + 1 ELSE w.disk]
    ELSE Coordinate(Commit(w, e), e)

\* jw__spawn_pending_game.  Its first gate, a deletion that is busy, is never
\* met: a deletion is refused while a launch is pending or blocked
\* (jw__delete_gate), and a launch while a deletion runs.
SpawnPending(w, e) ==
    IF ~w.d.pending THEN w
    ELSE IF w.d.act \/ w.tgt = NoSource THEN Refuse(w)
    ELSE IF e.persist # "ok"
    THEN [Refuse(w) EXCEPT !.ids = @ + 1,
                           !.disk = IF e.persist = "left" THEN w.ids + 1 ELSE @]
    ELSE Coordinate(Commit(w, e), e)

\* It returned -1: nothing is running and nothing is being coordinated.
NotLaunched(w) == ~w.d.coord /\ ~w.d.ready /\ w.d.child = Nobody

Launcher(w) == [w EXCEPT !.d.child = "launcher"]
OrLauncher(w) == IF NotLaunched(w) THEN Launcher(w) ELSE w

-----------------------------------------------------------------------------
(* Actions *)

World == [d |-> d, conn |-> conn, svc |-> svc, disk |-> disk, ids |-> ids, tgt |-> target]

\* The daemon's next state, with what its children make of it: a writer that
\* was started runs, a launcher that was spawned starts, and one that was sent
\* SIGTERM leaves - but a launch request of its own may be on the way.
Become(w) ==
    /\ d' = [w.d EXCEPT !.boot = IF w.d.child = "game" THEN "no" ELSE @]
    /\ conn' = w.conn /\ svc' = w.svc /\ disk' = w.disk /\ ids' = w.ids
    /\ game' = IF w.d.child = "game" /\ d.child # "game"
               THEN [leader |-> "live", kids |-> FALSE] ELSE game

Shown(w) ==
    IF w.d.child # "launcher" THEN {"gone"}
    ELSE IF d.child # "launcher" THEN {"starting"}
    ELSE IF w.d.ready /\ ~d.ready
    THEN {"leaving"} \cup (IF ui = "browsing" /\ "race" \in Features
                           THEN {"sending"} ELSE {})
    ELSE {ui}

\* What the player chose lasts until a writer starts.
Spent(w) == w.d.child = "game" /\ d.child # "game"

\* A connection to be stopped after its flush is served to the end, with the
\* frames already received from it, unless its peer does not read.
Turn(s) ==
    \/ "backpressure" \in Features
    \/ \A t \in Service \ {s} : ~conn[t].stopAfterFlush

\* A step of the daemon's on one connection, and one that is no answer.
StepOn(s, w) ==
    /\ up /\ Turn(s)
    /\ Become(w)
    /\ ui' \in Shown(w)
    /\ consent' = (consent /\ ~Spent(w))
    /\ UNCHANGED <<target, up>>

Step(w) == StepOn(0, w)

\* A request of the launcher's: the launcher goes on as the reply says, or
\* browses when the reply came too late for its timeout.
Answer(w, next) ==
    /\ up /\ Turn(0)
    /\ Become(w)
    /\ ui' \in {next} \cup (IF "reply" \in Faults THEN {"browsing"} ELSE {})
    /\ UNCHANGED <<target, up>>

\* --- the launcher and its requests ------------------------------------------

\* Mutant of Request: an earlier Play Anyway is kept.
RequestKeepingChoice(w) ==
    [w EXCEPT !.d.blocked = FALSE, !.d.verified = FALSE, !.d.retry = FALSE,
              !.d.ready = FALSE, !.d.decision = FALSE, !.d.pending = TRUE]

\* jw__request_launch_game: another title replaces whatever was asked before.
Request(w) ==
    [w EXCEPT !.d.blocked = FALSE, !.d.verified = FALSE, !.d.retry = FALSE,
              !.d.override = FALSE, !.d.skip = FALSE, !.d.ready = FALSE,
              !.d.decision = FALSE, !.d.pending = TRUE]

LaunchGame(t) ==
    /\ up /\ Turn(0)
    /\ ui \in {"browsing", "sending"}
    /\ ids < MaxLaunches
    /\ Become(Request(World))
    /\ ui' = "leaving"
    /\ target' = t
    /\ consent' = FALSE
    /\ UNCHANGED up

\* jw__reply_game_launch_blocked, read once by a launcher that starts.
Conservative == d.act /\ (d.recovered \/ d.uncertain)

AskStatus ==
    /\ up /\ Turn(0) /\ ui = "starting"
    /\ ui' \in {CASE d.decision -> "check"
                  [] Conservative -> "notice"
                  [] d.blocked /\ ~Conservative -> IF d.retry THEN "proxy" ELSE "blocked"
                  [] OTHER -> "browsing"}
               \cup (IF "reply" \in Faults THEN {"browsing"} ELSE {})
    /\ UNCHANGED <<world, target, game, up, consent>>

\* jw__game_check_exchange: the first open check, by connection slot.
Checks == {s \in Service : Checking(conn[s])}
FirstCheck == CHOOSE s \in Checks : \A t \in Checks : s <= t

\* game-check-wait
CheckWait ==
    /\ ui = "check"
    /\ consent' = consent
    /\ IF d.coord /\ Checks # {} /\ conn[FirstCheck].phase = "decision"
       THEN Answer([World EXCEPT !.conn[FirstCheck].phase = "waiting",
                                 !.d.decision = FALSE], "leaving")
       ELSE Answer(World, "browsing")

\* A check is over: the service is stopped, its coordinator first.
StopChecked(w, e, s) ==
    LET closed == [EndExchange(w, s) EXCEPT !.d.decision = FALSE]
    IN  IF StopVerified(closed, e, s)
        THEN LaunchIfReady(Stop(closed, e, s), e)
        ELSE Block(Stop(closed, e, s), e, TRUE, FALSE)

\* game-check-play-anyway
CheckPlayAnyway ==
    /\ ui = "check"
    /\ \E e \in Events :
        IF ~d.coord \/ Checks = {} THEN
            Answer(World, "browsing") /\ consent' = consent
        ELSE LET s == FirstCheck
                 w == IF s \in e.full
                      THEN Cancel(World, e, s)
                      ELSE StopChecked(Cancel(World, e, s), e, s)
                 accepted == s \notin e.full /\ StopVerified(World, e, s)
             IN  /\ Answer(w, IF accepted THEN "leaving" ELSE "browsing")
                 /\ consent' = (consent /\ ~Spent(w))

\* game-check-cancel
CheckCancelled(w, e) == [Abort(w, e) EXCEPT !.d.blocked = FALSE]

CheckCancel ==
    /\ ui = "check"
    /\ consent' = consent
    /\ \E e \in Events :
        Answer(IF d.coord /\ Checks # {} THEN CheckCancelled(World, e) ELSE World,
               "browsing")

\* game-launch-override (Play Anyway); the launcher is alive, so that the
\* launch itself waits for its exit.
LaunchOverride ==
    /\ ui \in {"blocked", "proxy"}
    /\ ids < MaxLaunches
    /\ IF d.blocked /\ ~d.act
       THEN /\ Answer([World EXCEPT !.d.pending = TRUE,
                                    !.d.skip = d.verified,
                                    !.d.override = ~d.verified,
                                    !.d.blocked = FALSE, !.d.verified = FALSE,
                                    !.d.retry = FALSE],
                      "leaving")
            /\ consent' = TRUE
       ELSE Answer(World, "browsing") /\ consent' = consent

\* game-launch-retry
LaunchRetry ==
    /\ ui = "proxy"
    /\ ids < MaxLaunches
    /\ consent' = consent
    /\ IF d.blocked /\ ~d.decision /\ ~d.verified /\ d.retry /\ ~d.act
       THEN Answer([World EXCEPT !.d.pending = TRUE, !.d.skip = FALSE,
                                 !.d.override = FALSE, !.d.blocked = FALSE,
                                 !.d.retry = FALSE],
                   "leaving")
       ELSE Answer(World, "browsing")

\* game-launch-blocked-dismiss
Dismissed(w) ==
    [w EXCEPT !.d.blocked = FALSE, !.d.override = FALSE, !.d.skip = FALSE,
              !.d.verified = FALSE, !.d.retry = FALSE, !.d.pending = FALSE]

Dismiss ==
    /\ ui \in {"blocked", "proxy"}
    /\ Answer(Dismissed(World), "browsing")
    /\ consent' = FALSE

Acknowledge ==
    /\ ui = "notice" /\ ui' = "browsing"
    /\ UNCHANGED <<world, target, game, up, consent>>

\* The Menu button, or game-start-now: every open wait is cut short.
StartNow ==
    /\ d.coord
    /\ \E s \in Service : conn[s].phase = "waiting"
    /\ \E e \in Events :
        LET cut[s \in 0..NServices] ==
                IF s = 0 THEN World
                ELSE IF cut[s - 1].d.coord /\ cut[s - 1].conn[s].phase = "waiting"
                THEN Cancel(cut[s - 1], e, s) ELSE cut[s - 1]
        IN  Step(cut[NServices])

\* --- children ---------------------------------------------------------------

\* jw__handle_child_exit after the launcher
AfterLauncher(w, e) ==
    IF w.d.pending /\ w.d.ready THEN
        LET released == [w EXCEPT !.d.ready = FALSE]
        IN  IF SpawnFails(released, e) THEN Launcher(Abort(released, e))
            ELSE StartWriter(released)
    ELSE IF w.d.pending /\ w.d.coord THEN w
    ELSE OrLauncher(SpawnPending(w, e))

\* The launcher exits: having left, to open an app, or by a crash.
LauncherExits ==
    /\ d.child = "launcher"
    /\ ui \in {"leaving", "browsing"} \/ "crash" \in Features
    /\ up /\ Turn(0)
    /\ \E e \in LaunchEvents :
       \E w \in {AfterLauncher([World EXCEPT !.d.child = Nobody], e)} :
            /\ Become(w)
            /\ ui' = IF w.d.child = "launcher" THEN "starting" ELSE "gone"
            /\ consent' = (consent /\ ~Spent(w))
    /\ UNCHANGED <<target, up>>

\* The writer's group: the leader forks, and exits into a zombie that pins
\* the group; the descendants outlive it as long as they please.
WriterForks ==
    /\ game.leader = "live" /\ ~game.kids
    /\ game' = [game EXCEPT !.kids = TRUE]
    /\ UNCHANGED <<world, target, ui, up, consent>>

LeaderExits ==
    /\ game.leader = "live"
    /\ game' = [game EXCEPT !.leader = IF up /\ d.child = "game" THEN "zombie" ELSE "none"]
    /\ UNCHANGED <<world, target, ui, up, consent>>

DescendantsExit ==
    /\ game.kids
    /\ game' = [game EXCEPT !.kids = FALSE]
    /\ UNCHANGED <<world, target, ui, up, consent>>

\* jw__active_game_finish
Finish(w, e) ==
    IF ~w.d.act \/ ~w.d.started THEN w
    ELSE LET over == ClearRecord([w EXCEPT !.d.started = FALSE], e)
         IN  IF e.clear = "ok" THEN Broadcast(over, e) ELSE over

\* Mutant of GroupAbsent: the leader's exit is taken for the group's.
LeaderAbsent == game.leader = "zombie"

\* svc_group_absent on the zombie leader's group
GroupAbsent == game.leader = "zombie" /\ ~game.kids

\* The writer-exit barrier: the leader is reaped, and the record cleared, when
\* no member of its group is left.  A game queued by a switch comes next.
ReapWriter ==
    /\ up /\ Turn(0) /\ d.child = "game"
    /\ GroupAbsent
    /\ \E e \in LaunchEvents :
       \E next \in {OrLauncher(SpawnPending(Finish([World EXCEPT !.d.child = Nobody], e), e))} :
            /\ d' = [next.d EXCEPT !.boot = "no"]
            /\ conn' = next.conn /\ svc' = next.svc
            /\ disk' = next.disk /\ ids' = next.ids
            /\ game' = IF next.d.child = "game"
                       THEN [leader |-> "live", kids |-> FALSE]
                       ELSE [game EXCEPT !.leader = "none"]
            /\ ui' = IF next.d.child = "launcher" THEN "starting" ELSE "gone"
            /\ consent' = (consent /\ next.d.child # "game")
    /\ UNCHANGED <<target, up>>

\* jw__request_switch_game, cold: RetroArch is told to quit with another game
\* queued; if it does not, nothing is queued.
SwitchGame(t) ==
    /\ "switch" \in Features
    /\ up /\ Turn(0) /\ d.child = "game" /\ game.leader = "live" /\ ~d.pending
    /\ ids < MaxLaunches
    /\ d' = [d EXCEPT !.pending = TRUE]
    /\ game' = [game EXCEPT !.leader = "zombie"]
    /\ target' = t
    /\ consent' = FALSE
    /\ UNCHANGED <<conn, svc, disk, ids, ui, up>>

\* The card of the requested game is swapped or pulled.
SourceMoves(t) ==
    /\ "move" \in Features
    /\ t # target /\ target' = t
    /\ UNCHANGED <<world, game, ui, up, consent>>

\* --- subscribers ------------------------------------------------------------

\* What a registration sets; the exchange of the connection is not looked at.
Registered(w, s, mode, wait) ==
    [w EXCEPT !.conn[s] = [@ EXCEPT !.sub = TRUE, !.reconciled = FALSE,
                                    !.mode = mode, !.wait = wait,
                                    !.bound = Owned(w, s)]]

\* LIFE-1 subscribe: the peer is a live member of the service's group.  On a
\* new connection it replaces the one the service had; on the same one it
\* leaves an open exchange as it is.  (The kind of an open exchange is read off
\* the mode, which a service therefore changes on a new connection only while
\* it is being asked.)
Subscribe(s, mode, wait) ==
    /\ svc[s].st \in {"live", "stuck"}
    /\ \E e \in Events :
        \/ /\ conn[s].sub => "reconnect" \in Features
           /\ conn[s].stopAfterFlush => "backpressure" \in Features
           /\ LET replaced == IF conn[s].sub THEN Drop(World, e, s) ELSE World
              IN  StepOn(s, Registered(replaced, s, mode, wait))
        \/ /\ conn[s].sub /\ "reconnect" \in Features
           /\ Asking(World, s) => mode = conn[s].mode
           /\ StepOn(s, IF s \in e.full THEN Drop(World, e, s)
                        ELSE Registered(World, s, mode, wait))

\* game.state: the subscriber learns of the active launch; one whose mode is
\* stop is to be stopped as soon as the answer is flushed.
GameState(s) ==
    /\ conn[s].sub
    /\ \E e \in Events :
        IF ~conn[s].bound \/ s \in e.full THEN StepOn(s, Drop(World, e, s))
        ELSE StepOn(s, [World EXCEPT
                !.svc[s].told = IF d.act /\ ~d.uncertain THEN @ \cup {d.id} ELSE @,
                !.conn[s].reconciled = ~d.uncertain,
                !.conn[s].stopAfterFlush =
                    d.act /\ ~d.uncertain /\ conn[s].mode # "notify"])

\* The end of jw__ipc_tick
StopAfterFlush(s) ==
    /\ conn[s].stopAfterFlush
    /\ \E e \in Events :
        StepOn(s, Drop([Stop(World, e, s) EXCEPT !.conn[s].stopAfterFlush = FALSE], e, s))

\* The connection is closed, hung up, or cannot be read or written.
Disconnect(s) ==
    /\ conn[s].sub
    /\ \E e \in Events : StepOn(s, Drop(World, e, s))

\* A subscriber's answer to game.start
NotifyStatus(w, e, s, kind, id) ==
    CASE kind = "ready" ->
            [EndExchange(w, s) EXCEPT !.svc[s].said = id]
      [] kind \in {"stop", "malformed", "error"} -> Drop(w, e, s)
      [] kind \in {"waiting", "stalled"} ->
            IF w.conn[s].phase = "ack" THEN w
            ELSE IF ~w.conn[s].wait \/ (kind = "stalled" /\ w.conn[s].phase = "waiting")
            THEN Cancel(w, e, s)
            ELSE [w EXCEPT !.conn[s].phase = "waiting"]

\* A subscriber's answer to game.check
CheckStatus(w, e, s, kind) ==
    CASE kind = "stop" -> StopChecked(w, e, s)
      [] kind \in {"waiting", "stalled"} /\ w.conn[s].phase # "ack" ->
            LET phase == IF w.conn[s].phase = "awaiting"
                         THEN "decision" ELSE w.conn[s].phase
            IN  [w EXCEPT !.conn[s].phase = phase,
                          !.d.decision = (phase = "decision")]
      [] OTHER -> Drop(w, e, s)

\* Mutant of Answered: an answer counts whatever launch it names.
AnsweredForAnyLaunch(w, e, s, kind, id) ==
    IF ~w.d.act \/ w.d.uncertain THEN Send(w, e, s)
    ELSE IF ~w.conn[s].bound THEN Drop(w, e, s)
    ELSE IF ~Asking(w, s) THEN w
    ELSE IF w.conn[s].mode = "check" THEN CheckStatus(w, e, s, kind)
    ELSE NotifyStatus(w, e, s, kind, id)

\* jw__game_coordination_status
Answered(w, e, s, kind, id) ==
    IF ~w.d.act \/ w.d.uncertain \/ id # w.d.id THEN Send(w, e, s)
    ELSE IF ~w.conn[s].bound THEN Drop(w, e, s)
    ELSE IF ~Asking(w, s) THEN w
    ELSE IF w.conn[s].mode = "check" THEN CheckStatus(w, e, s, kind)
    ELSE NotifyStatus(w, e, s, kind, id)

Waits == IF "wait" \in Features THEN BOOLEAN ELSE {FALSE}
Kinds == {"ready", "stop", "waiting", "stalled", "error", "malformed"}

\* An answer names any launch the service was told of: it may be late, or
\* arrive twice.
Status(s, kind) ==
    /\ conn[s].sub
    /\ \E id \in svc[s].told, e \in Events : StepOn(s, Answered(World, e, s, kind, id))

\* --- deadlines --------------------------------------------------------------

\* Mutant of Expired: a ready acknowledgement has no deadline.
ExpiredUnlessAcking(w, e, s) ==
    CASE ~w.conn[s].bound -> Drop(w, e, s)
      [] w.conn[s].bound /\ w.conn[s].phase = "awaiting" -> Drop(w, e, s)
      [] w.conn[s].bound /\ w.conn[s].phase = "waiting" ->
            IF w.conn[s].mode = "check" THEN Block(w, e, TRUE, FALSE)
            ELSE Cancel(w, e, s)
      [] OTHER -> w

\* One connection in jw__game_coordination_tick, its deadline passed or its
\* generation gone.  A decision has no deadline.
Expired(w, e, s) ==
    CASE ~w.conn[s].bound -> Drop(w, e, s)
      [] w.conn[s].bound /\ w.conn[s].phase \in {"awaiting", "ack"} -> Drop(w, e, s)
      [] w.conn[s].bound /\ w.conn[s].phase = "waiting" ->
            IF w.conn[s].mode = "check" THEN Block(w, e, TRUE, FALSE)
            ELSE Cancel(w, e, s)
      [] OTHER -> w

Expire(s) ==
    /\ d.coord /\ Asking(World, s)
    /\ ~conn[s].bound \/ conn[s].phase # "decision"
    /\ \E e \in Events : Step(LaunchIfReady(Expired(World, e, s), e))

\* The end of the tick, with no deadline passed.
TickLaunch ==
    /\ d.coord /\ d.exch = 0
    /\ \E e \in Events : Step(LaunchIfReady(World, e))

\* Mutant of Surface: only a sync decision is shown.
SurfaceDecision ==
    /\ d.child = Nobody /\ d.boot = "no"
    /\ d.decision
    /\ Step(Launcher(World))

\* The end of the main loop: a decision needs a launcher to show it.
Surface ==
    /\ d.child = Nobody /\ d.boot = "no"
    /\ d.decision \/ d.blocked
    /\ Step(Launcher(World))

\* --- boot resume ------------------------------------------------------------

\* jw__boot_resume_request: the game of the last session, with no launcher.  A
\* refused one leaves no question behind.
BootRequest ==
    /\ d.boot = "waiting"
    /\ \E e \in LaunchEvents, requested \in BOOLEAN :
        \E w \in {IF requested THEN SpawnPending(Request(World), e) ELSE World} :
            Step(IF NotLaunched(w)
                 THEN Launcher([IF w.d.blocked THEN Dismissed(w) ELSE w
                                EXCEPT !.d.boot = "no"])
                 ELSE [w EXCEPT !.d.boot = "launching"])

\* jw__tick_boot_resume_launch: nobody is there to answer a question.
BootTick ==
    /\ d.boot = "launching"
    /\ \E e \in Events :
        LET checked   == IF d.decision /\ d.coord /\ Checks # {}
                         THEN CheckCancelled(World, e) ELSE World
            dismissed == IF checked.d.blocked THEN Dismissed(checked) ELSE checked
            ended     == Launcher([dismissed EXCEPT !.d.boot = "no"])
        IN  \/ (d.decision \/ d.blocked) /\ Step(ended)
            \/ /\ ~d.decision /\ ~d.blocked
               /\ ~d.pending /\ ~d.coord /\ d.child = Nobody
               /\ Step(Launcher([World EXCEPT !.d.boot = "no"]))

\* --- services ---------------------------------------------------------------

\* The supervisor's start gate
GateOpen(s) == Manifest[s] = "ignore" \/ ~d.gate

ServiceStarts(s) ==
    /\ "restarts" \in Features
    /\ svc[s].st = "down" /\ GateOpen(s)
    /\ StepOn(0, [World EXCEPT !.svc[s].st = "live"])

\* A service dies, or its unverified stop or its survivor goes away.
ServiceEnds(s) ==
    /\ svc[s].st # "down"
    /\ StepOn(s, [World EXCEPT !.svc[s] = Down, !.conn[s].bound = FALSE])

\* --- the daemon -------------------------------------------------------------

\* What of the services survives the daemon keeps its lease.
DaemonCrash ==
    /\ "crash" \in Features
    /\ up /\ up' = FALSE
    /\ d' = IdleDaemon
    /\ conn' = [s \in Service |-> NoConn]
    /\ \E left \in SUBSET {s \in Service : svc[s].st # "down"} :
        svc' = [s \in Service |->
            IF s \in left THEN [Down EXCEPT !.st = "stale"] ELSE Down]
    /\ game' = [game EXCEPT !.leader = IF @ = "live" THEN @ ELSE "none"]
    /\ ui' = "gone"
    /\ consent' = FALSE
    /\ UNCHANGED <<disk, ids, target>>

\* Mutant of Recovered: a record that cannot be trusted counts as none.
RecoveredOptimistic(uncertain) ==
    IF disk = 0 \/ uncertain THEN IdleDaemon
    ELSE [IdleDaemon EXCEPT
            !.act = TRUE, !.recovered = TRUE, !.gate = TRUE,
            !.id = disk, !.src = target]

\* jw_active_game_load: a record keeps its launch active, with or without a
\* trustworthy identity.
Recovered(uncertain) ==
    IF disk = 0 THEN IdleDaemon
    ELSE [IdleDaemon EXCEPT
            !.act = TRUE, !.recovered = TRUE, !.gate = TRUE,
            !.uncertain = uncertain,
            !.id = IF uncertain THEN 0 ELSE disk,
            !.src = IF uncertain THEN NoSource ELSE target]

DaemonStarts ==
    /\ ~up /\ up' = TRUE
    /\ \E uncertain \in Chances("clear"),
         resume \in IF "boot" \in Features /\ disk = 0 /\ ids < MaxLaunches THEN BOOLEAN ELSE {FALSE} :
        LET started == Recovered(uncertain)
        IN  /\ d' = IF resume THEN [started EXCEPT !.boot = "waiting"]
                    ELSE [started EXCEPT !.child = "launcher"]
            /\ ui' = IF resume THEN "gone" ELSE "starting"
    /\ UNCHANGED <<conn, svc, disk, ids, target, game, consent>>

-----------------------------------------------------------------------------
(* Specification *)

Init ==
    /\ d = IdleDaemon
    /\ conn = [s \in Service |-> NoConn]
    /\ svc = [s \in Service |-> Down]
    /\ disk = 0 /\ ids = 0
    /\ target \in Sources
    /\ game = NoGame
    /\ ui = "gone"
    /\ up = FALSE
    /\ consent = FALSE

LauncherNext ==
    \/ \E t \in Sources : LaunchGame(t)
    \/ AskStatus \/ CheckWait \/ CheckPlayAnyway \/ CheckCancel
    \/ LaunchOverride \/ LaunchRetry \/ Dismiss \/ Acknowledge
    \/ StartNow \/ LauncherExits

WriterNext ==
    \/ WriterForks \/ LeaderExits \/ DescendantsExit \/ ReapWriter
    \/ \E t \in Sources : SwitchGame(t)
    \/ \E t \in Sources \cup {NoSource} : SourceMoves(t)

ServiceNext(s) ==
    \/ \E mode \in Modes, wait \in Waits : Subscribe(s, mode, wait)
    \/ GameState(s) \/ StopAfterFlush(s) \/ Disconnect(s)
    \/ \E kind \in Kinds : Status(s, kind)
    \/ Expire(s) \/ ServiceStarts(s) \/ ServiceEnds(s)

DaemonNext == TickLaunch \/ Surface \/ BootRequest \/ BootTick \/ DaemonCrash \/ DaemonStarts

Next ==
    \/ LauncherNext \/ WriterNext \/ DaemonNext
    \/ \E s \in Service : ServiceNext(s)

Spec == Init /\ [][Next]_vars

\* Every pass of the main loop ends with these steps, whatever its connections
\* sent in it (strong fairness: a connection served with its flush pending
\* holds them back only within a pass); its clock passes every deadline, a
\* process told to exit does, a launcher reads the status it starts with.
Fairness ==
    /\ WF_vars(DaemonStarts)
    /\ SF_vars(TickLaunch) /\ SF_vars(Surface)
    /\ SF_vars(BootRequest) /\ SF_vars(BootTick)
    /\ SF_vars(LauncherExits /\ ui = "leaving")
    /\ SF_vars(ReapWriter)
    /\ SF_vars(AskStatus)
    /\ \A s \in Service : SF_vars(Expire(s)) /\ WF_vars(StopAfterFlush(s))

FairSpec == Spec /\ Fairness

-----------------------------------------------------------------------------
(* Properties *)

Daemons ==
    [pending : BOOLEAN, coord : BOOLEAN, ready : BOOLEAN, exch : 0..NServices,
     blocked : BOOLEAN, verified : BOOLEAN, retry : BOOLEAN,
     override : BOOLEAN, skip : BOOLEAN, decision : BOOLEAN,
     started : BOOLEAN, gate : BOOLEAN,
     act : BOOLEAN, uncertain : BOOLEAN, recovered : BOOLEAN,
     id : 0..MaxLaunches, src : Sources \cup {NoSource},
     child : {Nobody, "launcher", "game"}, boot : {"no", "waiting", "launching"}]

Conns ==
    [sub : BOOLEAN, reconciled : BOOLEAN, bound : BOOLEAN,
     mode : {"stop", "check", "notify"}, wait : BOOLEAN, phase : Phases,
     stopAfterFlush : BOOLEAN]

Svcs == [st : {"down", "live", "stuck", "stale"},
         told : SUBSET (1..MaxLaunches), said : 0..MaxLaunches]

\* Every variable holds a value of its type.
TypeOK ==
    /\ d \in Daemons
    /\ conn \in [Service -> Conns]
    /\ svc \in [Service -> Svcs]
    /\ disk \in 0..MaxLaunches /\ ids \in 0..MaxLaunches
    /\ target \in Sources \cup {NoSource}
    /\ game \in [leader : {"none", "live", "zombie"}, kids : BOOLEAN]
    /\ ui \in {"gone", "starting", "browsing", "check", "blocked", "proxy",
               "notice", "leaving", "sending"}
    /\ up \in BOOLEAN /\ consent \in BOOLEAN

\* The counter that holds the writer back is the number of open exchanges,
\* through every path that closes one, and none is open outside a launch
\* (main.c:16410-17012).
ExchangesCounted ==
    /\ d.exch = Cardinality({s \in Service : conn[s].phase # "none"})
    /\ ~d.coord => d.exch = 0

\* While any process of a game may be writing, a record of a launch is on the
\* card, also with the daemon down, and a running daemon keeps the gate of the
\* game-sensitive services shut (main.c:17014-17033, 18462-18484).
WriterRecorded ==
    Writing(game) => disk # 0 /\ (up => d.act /\ d.gate)

\* An active record has a launch, a writer or a recovery that accounts for it,
\* so that the next game is not refused for one that nobody ends, and the gate
\* is shut from the commit to the end (main.c:16466, 16522-16530).
RecordHasOwner ==
    /\ d.coord \/ d.ready \/ d.started => d.act /\ d.gate
    /\ d.act /\ ~d.recovered /\ ~d.uncertain => d.coord \/ d.ready \/ d.started

\* Play Anyway holds for the launch it was chosen for (main.c:7579).
ChoiceIsOneShot == d.coord /\ (d.skip \/ d.override) => consent

WriterStarts == d.child # "game" /\ d'.child = "game"

\* No writer starts while a process of another one is left, this daemon's or
\* an earlier one's.
OneWriter == [][WriterStarts => ~Writing(game)]_vars

\* A writer starts only when every game-sensitive service is down or has
\* answered ready for this very launch, unless the player accepted the risk.
WriterIsolated ==
    [][WriterStarts =>
        \/ consent
        \/ \A s \in Service :
            Manifest[s] # "ignore" /\ svc'[s].st # "down" => svc'[s].said = d'.id]_vars

\* A launch under coordination does not stay there unnoticed: the writer
\* starts, the launch ends, or the player is asked.
LaunchResolves ==
    d.coord ~> ~d.coord \/ ui = "check"

\* There is always something in front of the player again: with no launcher
\* and no game, one of them follows.
ForegroundReturns ==
    up /\ d.child = Nobody ~> ~up \/ d.child # Nobody

=============================================================================
