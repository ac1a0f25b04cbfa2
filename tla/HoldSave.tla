------------------------------- MODULE HoldSave -------------------------------
(***************************************************************************)
(* The save before a power-off by a long press of the power key: the       *)
(* policy of src/internal/power/power_hold_save.c and the passes of        *)
(* src/cmd/jawakad/main.c that feed it key edges and ticks.  While the key *)
(* is held the power chip cuts the device off Cut after the press, ready   *)
(* or not; releasing the key resets that timer.                            *)
(*                                                                         *)
(* Time is counted in coarse units, and an edge carries the time at which  *)
(* it happened.  The daemon's passes are at most Gap apart: this is the    *)
(* margin that the plan leaves for a late pass.  Short taps, the notices,  *)
(* a refused power-off, the bytes of the save and a deletion in progress,  *)
(* which holds the shutdown back before the policy is asked, are left out. *)
(***************************************************************************)
EXTENDS Naturals, Sequences

CONSTANTS
    Cut,            \* from a press to the cut, its key held
    Reserve,        \* JW_POWER_HOLD_SAVE_TEARDOWN_RESERVE_MS
    Margin,         \* JW_POWER_HOLD_SAVE_MARGIN_MS
    SaveWindow,         \* JW_POWER_HOLD_SAVE_WINDOW_MS
    Grace,          \* JW_POWER_HOLD_SAVE_QUIT_GRACE_MS
    LongPress,      \* JW_POWER_LONGPRESS_MS
    Estimates,      \* how long a save may be expected to take
    Gap,            \* the daemon's passes are at most this far apart
    Horizon,        \* bound: the clock
    MaxPresses      \* bound: presses of the key

\* The teardown fits before the cut with a margin to spare, which covers the
\* time between two passes; the cut may leave no time to wait for a release.
ASSUME HoldAssumption ==
    /\ {Cut, Reserve, Margin, SaveWindow, Grace, LongPress, Gap, MaxPresses} \subseteq Nat
    /\ Horizon \in Nat \ {0} /\ Estimates \subseteq Nat
    /\ Gap <= Margin /\ Gap <= SaveWindow
    /\ Reserve + Margin <= Cut

VARIABLES
    now, pass,      \* the clock, and the last pass of the daemon
    held, presses,  \* since when the key is down, or 0; presses so far
    edges,          \* key edges the daemon has not read
    down,           \* the daemon's power_down_ms while it thinks the key is held, or 0
    shutdown,       \* shutdown_requested
    policy,         \* jw_power_hold_save
    session,        \* RetroArch runs
    quit,           \* when RetroArch was told to quit, or 0
    teardown        \* when the teardown began, or 0

holdVars == <<now, pass, held, presses, edges, down, shutdown, policy, session, quit, teardown>>

FreshPolicy == [phase |-> "idle", saved |-> FALSE, boundary |-> 0, window |-> 0, key |-> FALSE,
          repress |-> 0]
Deferring(p) == p.phase \in {"await", "released", "saving"}

HoldTypeOK ==
    /\ now \in 1..Horizon /\ pass \in 1..Horizon
    /\ held \in 0..Horizon /\ presses \in 0..MaxPresses
    /\ edges \in Seq([down : BOOLEAN, at : 1..Horizon])
    /\ down \in 0..Horizon /\ shutdown \in BOOLEAN
    /\ policy \in [phase : {"idle", "await", "released", "saving", "done"}, saved : BOOLEAN,
                   boundary : Nat, window : Nat, key : BOOLEAN, repress : 0..Horizon]
    /\ session \in BOOLEAN
    /\ quit \in 0..Horizon /\ teardown \in 0..Horizon

HoldInit ==
    /\ now = 1 /\ pass = 1
    /\ held = 0 /\ presses = 0 /\ edges = <<>> /\ down = 0 /\ shutdown = FALSE
    /\ policy = FreshPolicy /\ session = TRUE /\ quit = 0 /\ teardown = 0

-----------------------------------------------------------------------------
(* The world. *)

\* The clock starts with the first press.
Clock ==
    /\ teardown = 0 /\ presses # 0 /\ now < Horizon /\ now < pass + Gap
    /\ now' = now + 1
    /\ UNCHANGED <<pass, held, presses, edges, down, shutdown, policy, session, quit, teardown>>

Press ==
    /\ teardown = 0 /\ held = 0 /\ presses < MaxPresses
    /\ held' = now /\ presses' = presses + 1
    /\ edges' = Append(edges, [down |-> TRUE, at |-> now])
    /\ UNCHANGED <<now, pass, down, shutdown, policy, session, quit, teardown>>

Release ==
    /\ teardown = 0 /\ held # 0
    /\ held' = 0
    /\ edges' = Append(edges, [down |-> FALSE, at |-> now])
    /\ UNCHANGED <<now, pass, presses, down, shutdown, policy, session, quit, teardown>>

RetroArchExits ==
    /\ teardown = 0 /\ session
    /\ session' = FALSE
    /\ UNCHANGED <<now, pass, held, presses, edges, down, shutdown, policy, quit, teardown>>

-----------------------------------------------------------------------------
(* The policy. *)

Done(p) == [p EXCEPT !.phase = "done"]

Offset == Cut - Reserve - Margin

LongPressed(press, eligible) ==
    LET boundary == press + Offset IN
    IF eligible /\ now < boundary
    THEN [FreshPolicy EXCEPT !.phase = "await", !.boundary = boundary, !.key = TRUE]
    ELSE Done(FreshPolicy)

\* Mutant of KeyEdge: a press during the save is not planned for.
KeyEdgeIgnoresSaving(p, e) ==
    IF e.down
    THEN [p EXCEPT !.key = TRUE, !.repress = IF p.phase = "released" THEN e.at ELSE @]
    ELSE IF p.phase = "await"
    THEN IF e.at > p.boundary THEN [Done(p) EXCEPT !.key = FALSE]
         ELSE [p EXCEPT !.phase = "released", !.key = FALSE, !.window = e.at + SaveWindow]
    ELSE [p EXCEPT !.key = FALSE, !.repress = 0]

KeyEdge(p, e) ==
    IF e.down
    THEN [p EXCEPT !.key = TRUE,
                   !.repress = IF p.phase \in {"released", "saving"} THEN e.at ELSE @]
    ELSE IF p.phase = "await"
    THEN IF e.at > p.boundary THEN [Done(p) EXCEPT !.key = FALSE]
         ELSE [p EXCEPT !.phase = "released", !.key = FALSE, !.window = e.at + SaveWindow]
    ELSE [p EXCEPT !.key = FALSE, !.repress = 0]

\* The edges of a shutdown pass, in order.
EdgesRead(p, es) ==
    LET read[i \in 0..Len(es)] == IF i = 0 THEN p ELSE KeyEdge(read[i - 1], es[i])
    IN  read[Len(es)]

\* jw_power_hold_save_effective_deadline_ms
Deadline(p) ==
    IF p.key /\ p.repress > 0 /\ p.repress + Offset < p.window
    THEN p.repress + Offset ELSE p.window

\* A released key: the save is admitted if it is expected to fit, and sent.
Admitted(p) ==
    {Done(p)} \cup
    {[p EXCEPT !.phase = "saving"] : e \in {e \in Estimates : now + e <= Deadline(p)}}

\* What a tick makes of the policy, by what RetroArch answers; a signal to the
\* daemon gives the save up.
Ticked(p) ==
    IF Deferring(p) /\ ~session THEN {Done(p)}
    ELSE CASE p.phase = "await"    -> IF now >= p.boundary THEN {Done(p)} ELSE {p, Done(p)}
           [] p.phase = "released" -> IF now >= Deadline(p) THEN {Done(p)} ELSE Admitted(p)
           [] p.phase = "saving"   -> IF now >= Deadline(p) THEN {Done(p)}
                                      ELSE {p, Done(p), [Done(p) EXCEPT !.saved = TRUE]}
           [] OTHER                -> {p}

-----------------------------------------------------------------------------
(* The daemon's passes. *)

\* Before the shutdown an edge starts or ends a press; a long press recognised
\* at its release is given to the policy with that release.
ReadEdge ==
    /\ teardown = 0 /\ ~shutdown /\ edges # <<>>
    /\ LET e == Head(edges)
           long == ~e.down /\ down # 0 /\ e.at - down >= LongPress
       IN  /\ down' = IF e.down THEN e.at ELSE 0
           /\ shutdown' = long
           /\ IF long
              THEN \E eligible \in {session, FALSE} :
                       policy' = KeyEdge(LongPressed(down, eligible), e)
              ELSE UNCHANGED policy
    /\ edges' = Tail(edges)
    /\ pass' = IF Tail(edges) = <<>> THEN now ELSE pass
    /\ UNCHANGED <<now, held, presses, session, quit, teardown>>

\* The key is still held: the shutdown does not wait for its release.
HoldRecognised ==
    /\ teardown = 0 /\ ~shutdown /\ edges = <<>>
    /\ down # 0 /\ now - down >= LongPress
    /\ \E eligible \in {session, FALSE} : policy' = LongPressed(down, eligible)
    /\ down' = 0 /\ shutdown' = TRUE /\ pass' = now
    /\ UNCHANGED <<now, held, presses, edges, session, quit, teardown>>

IdlePass ==
    /\ teardown = 0 /\ ~shutdown /\ edges = <<>> /\ pass # now
    /\ down = 0 \/ now - down < LongPress
    /\ pass' = now
    /\ UNCHANGED <<now, held, presses, edges, down, shutdown, policy, session, quit, teardown>>

\* After a save RetroArch may exit by itself, unless the key goes down again.
QuitGrace(p) ==
    IF ~p.saved \/ ~session THEN quit' = quit /\ teardown' = now
    ELSE IF quit = 0 THEN \/ quit' = now /\ UNCHANGED teardown
                          \/ quit' = quit /\ teardown' = now
    ELSE /\ quit' = quit
         /\ teardown' = IF p.key \/ now >= quit + Grace THEN now ELSE 0

\* Every shutdown pass: the edges, the tick, and the teardown unless the
\* policy or the grace defers it.
ShutdownPass ==
    /\ teardown = 0 /\ shutdown
    /\ \E q \in Ticked(EdgesRead(policy, edges)) :
        /\ policy' = q
        /\ IF Deferring(q) THEN UNCHANGED <<quit, teardown>> ELSE QuitGrace(q)
    /\ edges' = <<>> /\ pass' = now
    /\ UNCHANGED <<now, held, presses, down, shutdown, session>>

Pass == ReadEdge \/ HoldRecognised \/ IdlePass \/ ShutdownPass

HoldNext == Clock \/ Press \/ Release \/ RetroArchExits \/ Pass

HoldSpec == HoldInit /\ [][HoldNext]_holdVars

-----------------------------------------------------------------------------
(* Properties. *)

\* When the teardown begins with the key held, whether by the first press or
\* by a later one, it has the measured reserve left before the cut.
TeardownInTime == teardown # 0 /\ held # 0 => teardown + Reserve <= held + Cut

\* While the shutdown is deferred with the key held, the reserve is not used up.
DeferredInTime ==
    shutdown /\ Deferring(policy) /\ held # 0 => now + Reserve <= held + Cut

\* A released key defers the shutdown for the window at most.
WindowKept == policy.phase \in {"released", "saving"} => now <= policy.window + Gap

HoldSaveTimely == TeardownInTime /\ DeferredInTime /\ WindowKept
=============================================================================
