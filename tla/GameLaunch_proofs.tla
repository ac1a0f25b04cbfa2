--------------------------- MODULE GameLaunch_proofs ---------------------------
(***************************************************************************)
(* Safety of LIFE-1, for every number of services and launches, every      *)
(* policy and subscription mode, every feature and every fault.            *)
(*                                                                         *)
(* The functions of the daemon are operators from a state w to the next    *)
(* one, so are the facts about them: Good(w) says what holds of the        *)
(* daemon's state between two functions, Steady(w, x) what a function that *)
(* turns w into x leaves alone.  IInv adds to Good what ties the daemon to *)
(* the writer and to the launcher.                                         *)
(***************************************************************************)
EXTENDS GameLaunch, FiniteSetTheorems, WellFoundedInduction, TLAPS

-----------------------------------------------------------------------------
(* The invariant *)

Loose ==
    [pending : BOOLEAN, coord : BOOLEAN, ready : BOOLEAN, exch : Nat,
     blocked : BOOLEAN, verified : BOOLEAN, retry : BOOLEAN,
     override : BOOLEAN, skip : BOOLEAN, decision : BOOLEAN,
     started : BOOLEAN, gate : BOOLEAN,
     act : BOOLEAN, uncertain : BOOLEAN, recovered : BOOLEAN,
     id : 0..MaxLaunches, src : Sources \cup {NoSource},
     child : {Nobody, "launcher", "game"}, boot : {"no", "waiting", "launching"}]

Worlds ==
    [d : Loose, conn : [Service -> Conns], svc : [Service -> Svcs],
     disk : 0..MaxLaunches, ids : 0..MaxLaunches, tgt : Sources \cup {NoSource}]

Open(w) == {s \in Service : w.conn[s].phase # "none"}

\* The counter is that of the open exchanges, all of them of a launch and with
\* a subscriber.
Counted(w) ==
    /\ w.d.exch = Cardinality(Open(w))
    /\ \A s \in Open(w) : w.conn[s].sub
    /\ ~w.d.coord => Open(w) = {}

\* A launch and a writer have a record with the gate shut; a request without a
\* record has a launch id left.
Kept(w) ==
    /\ w.d.coord \/ w.d.ready \/ w.d.started => w.d.act /\ w.disk # 0
    /\ w.d.act => w.d.gate
    /\ w.d.act /\ ~w.d.uncertain => w.d.id # 0
    /\ w.d.coord => ~w.d.uncertain /\ ~w.d.ready /\ w.d.child # "game"
    /\ w.d.child = "game" => w.d.started /\ ~w.d.ready
    /\ w.d.pending /\ (~w.d.act \/ w.d.child = "game") => w.ids < MaxLaunches

Good(w) == w \in Worlds /\ Counted(w) /\ Kept(w)

\* An active record is accounted for, and a launch is one that was asked for.
Tidy(w) ==
    /\ w.d.act /\ ~w.d.recovered /\ ~w.d.uncertain =>
          w.d.coord \/ w.d.ready \/ w.d.started
    /\ w.d.coord \/ w.d.ready => w.d.pending
    /\ w.d.pending \/ w.d.child = "game" => ~w.d.blocked

SameRecord(w, x) ==
    /\ x.d.act = w.d.act /\ x.d.uncertain = w.d.uncertain
    /\ x.d.recovered = w.d.recovered /\ x.d.id = w.d.id /\ x.d.src = w.d.src
    /\ x.d.ready = w.d.ready /\ x.d.started = w.d.started
    /\ x.d.pending = w.d.pending /\ x.disk = w.disk

SameRest(w, x) ==
    x.d.child = w.d.child /\ x.d.boot = w.d.boot /\ x.ids = w.ids /\ x.tgt = w.tgt

\* What is left of a launch once it is over.
Ended(w, x) ==
    /\ SameRest(w, x)
    /\ Open(x) = {} /\ x.d.exch = 0
    /\ ~x.d.coord /\ ~x.d.ready /\ ~x.d.pending /\ ~x.d.started
    /\ x.d.act => x.d.uncertain /\ x.d.gate

\* A function that starts no writer leaves the record alone, or ends the launch.
Steady(w, x) ==
    /\ SameRest(w, x)
    /\ x.d.coord => w.d.coord
    /\ ~w.d.coord \/ x.d.coord => SameRecord(w, x)
    /\ w.d.coord /\ ~x.d.coord => Ended(w, x)
    /\ Tidy(w) => Tidy(x)

-----------------------------------------------------------------------------
(* Updates of the daemon's state *)

LEMMA WorldFields ==
    ASSUME NEW w \in Worlds
    PROVE  /\ w.d \in Loose
           /\ w.conn \in [Service -> Conns]
           /\ \A s \in Service : w.conn[s] \in Conns
           /\ w.svc \in [Service -> Svcs]
           /\ w.disk \in 0..MaxLaunches
           /\ w.ids \in 0..MaxLaunches
           /\ w.tgt \in Sources \cup {NoSource}
PROOF BY DEF Worlds

LEMMA WithD ==
    ASSUME NEW w \in Worlds, NEW c \in Loose
    PROVE  /\ [w EXCEPT !.d = c] \in Worlds
           /\ [w EXCEPT !.d = c].d = c
           /\ [w EXCEPT !.d = c].conn = w.conn
           /\ [w EXCEPT !.d = c].svc = w.svc
           /\ [w EXCEPT !.d = c].disk = w.disk
           /\ [w EXCEPT !.d = c].ids = w.ids
           /\ [w EXCEPT !.d = c].tgt = w.tgt
PROOF BY DEF Worlds

LEMMA WithConn ==
    ASSUME NEW w \in Worlds, NEW C \in [Service -> Conns]
    PROVE  /\ [w EXCEPT !.conn = C] \in Worlds
           /\ [w EXCEPT !.conn = C].d = w.d
           /\ [w EXCEPT !.conn = C].conn = C
           /\ [w EXCEPT !.conn = C].disk = w.disk
           /\ [w EXCEPT !.conn = C].ids = w.ids
           /\ [w EXCEPT !.conn = C].tgt = w.tgt
PROOF BY DEF Worlds

LEMMA WithPhase ==
    ASSUME NEW w \in Worlds, NEW s \in Service, NEW p \in Phases
    PROVE  LET x == [w EXCEPT !.conn[s].phase = p]
           IN  /\ x \in Worlds
               /\ x.d = w.d /\ x.disk = w.disk /\ x.ids = w.ids /\ x.tgt = w.tgt
               /\ x.conn[s].phase = p /\ x.conn[s].sub = w.conn[s].sub
               /\ \A t \in Service \ {s} : x.conn[t] = w.conn[t]
PROOF
<1> DEFINE c == [w.conn[s] EXCEPT !.phase = p]
           C == [w.conn EXCEPT ![s] = c]
           x == [w EXCEPT !.conn[s].phase = p]
<1>1. c \in Conns /\ c.phase = p /\ c.sub = w.conn[s].sub
  BY WorldFields DEF Conns
<1>2. x = [w EXCEPT !.conn = C]
  BY DEF Worlds
<1> HIDE DEF c
<1>3. C \in [Service -> Conns] /\ C[s] = c /\ \A t \in Service \ {s} : C[t] = w.conn[t]
  BY <1>1 DEF Worlds
<1> HIDE DEF C, x
<1>4. /\ x \in Worlds
      /\ x.d = w.d /\ x.disk = w.disk /\ x.ids = w.ids /\ x.tgt = w.tgt
      /\ x.conn = C
  BY <1>2, <1>3, WithConn
<1>5. /\ x.conn[s].phase = p /\ x.conn[s].sub = w.conn[s].sub
      /\ \A t \in Service \ {s} : x.conn[t] = w.conn[t]
  BY <1>1, <1>3, <1>4
<1> QED BY <1>4, <1>5 DEF x

-----------------------------------------------------------------------------
(* Ending a launch *)

LEMMA ClearFacts ==
    ASSUME NEW w \in Worlds, NEW e
    PROVE  LET x == ClearRecord(w, e)
           IN  /\ x \in Worlds
               /\ x.conn = w.conn /\ x.ids = w.ids /\ x.tgt = w.tgt
               /\ x.d.child = w.d.child /\ x.d.boot = w.d.boot
               /\ x.d.exch = w.d.exch /\ x.d.coord = w.d.coord
               /\ x.d.ready = w.d.ready /\ x.d.pending = w.d.pending
               /\ x.d.started = w.d.started /\ x.d.blocked = w.d.blocked
               /\ x.d.act => x.d.uncertain /\ x.d.gate
PROOF
<1> DEFINE none == [w.d EXCEPT !.act = FALSE, !.uncertain = FALSE,
                      !.recovered = FALSE, !.id = 0, !.src = NoSource, !.gate = FALSE]
           kept == [w.d EXCEPT !.act = TRUE, !.uncertain = TRUE, !.gate = TRUE]
           x == ClearRecord(w, e)
<1>1. w.d \in Loose
  BY WorldFields
<1>2. none \in Loose /\ kept \in Loose
  <2>1. kept \in Loose
    BY <1>1 DEF Loose
  <2>2. 0 \in 0..MaxLaunches
    BY GameLaunchAssumption
  <2>3. none \in Loose
    BY <1>1, <2>2 DEF Loose
  <2> QED BY <2>1, <2>3
<1>3. ~none.act /\ kept.uncertain /\ kept.gate
  BY <1>1 DEF Loose
<1>4. \A c \in {none, kept} :
        /\ c.child = w.d.child /\ c.boot = w.d.boot
        /\ c.exch = w.d.exch /\ c.coord = w.d.coord
        /\ c.ready = w.d.ready /\ c.pending = w.d.pending
        /\ c.started = w.d.started /\ c.blocked = w.d.blocked
  BY <1>1, ZenonT(60) DEF Loose
<1>5. PICK c \in {none, kept}, i \in 0..MaxLaunches :
        x = [[w EXCEPT !.d = c] EXCEPT !.disk = i]
  <2> DEFINE X(c, i) == [[w EXCEPT !.d = c] EXCEPT !.disk = i]
  <2>1. x = X(none, 0) \/ x = X(kept, 0) \/ x = X(kept, w.disk)
    <3>1. CASE e.clear = "ok"
      <4>1. x = X(none, 0)
        BY <3>1 DEF ClearRecord, Worlds
      <4> QED BY <4>1
    <3>2. CASE e.clear = "gone"
      <4>1. x = X(kept, 0)
        BY <3>2 DEF ClearRecord, Worlds
      <4> QED BY <4>1
    <3>3. CASE e.clear \notin {"ok", "gone"}
      <4>1. x = X(kept, w.disk)
        BY <3>3 DEF ClearRecord, Worlds
      <4> QED BY <4>1
    <3> QED BY <3>1, <3>2, <3>3
  <2>2. 0 \in 0..MaxLaunches /\ w.disk \in 0..MaxLaunches
    BY GameLaunchAssumption, WorldFields
  <2> HIDE DEF none, kept, x
  <2> QED BY <2>1, <2>2
<1>6. c \in Loose /\ (c.act => c.uncertain /\ c.gate)
  BY <1>2, <1>3
<1> HIDE DEF none, kept, x
<1>7. x \in Worlds /\ x.d = c /\ x.conn = w.conn /\ x.ids = w.ids /\ x.tgt = w.tgt
  BY <1>5, <1>6 DEF Worlds
<1> QED BY <1>4, <1>6, <1>7 DEF x

LEMMA BroadcastFacts ==
    ASSUME NEW w \in Worlds, Open(w) = {}, NEW e
    PROVE  LET x == Broadcast(w, e)
           IN  /\ x \in Worlds /\ x.d = w.d /\ Open(x) = {}
               /\ x.disk = w.disk /\ x.ids = w.ids /\ x.tgt = w.tgt
PROOF
<1> DEFINE C == [s \in Service |->
                   IF /\ w.conn[s].sub /\ w.conn[s].reconciled
                      /\ ~w.conn[s].bound \/ s \in e.full
                   THEN NoConn ELSE w.conn[s]]
           x == [w EXCEPT !.conn = C]
<1>1. NoConn \in Conns /\ NoConn.phase = "none"
  BY DEF NoConn, Conns, Phases
<1>2. C \in [Service -> Conns]
  BY <1>1, WorldFields
<1>3. \A s \in Service : C[s].phase = "none"
  BY <1>1 DEF Open
<1>4. Broadcast(w, e) = x
  BY DEF Broadcast
<1> HIDE DEF C
<1>5. /\ x \in Worlds /\ x.d = w.d /\ x.conn = C
      /\ x.disk = w.disk /\ x.ids = w.ids /\ x.tgt = w.tgt
  BY <1>2, WithConn
<1> HIDE DEF x
<1> QED BY <1>3, <1>4, <1>5 DEF Open

LEMMA AbortFacts ==
    ASSUME NEW w \in Worlds, NEW e
    PROVE  Abort(w, e) \in Worlds /\ Ended(w, Abort(w, e))
PROOF
<1> DEFINE C == [s \in Service |-> [w.conn[s] EXCEPT !.phase = "none"]]
           c == [w.d EXCEPT
                    !.coord = FALSE, !.ready = FALSE, !.decision = FALSE,
                    !.exch = 0, !.pending = FALSE, !.override = FALSE,
                    !.skip = FALSE, !.started = FALSE]
           quiet == [[w EXCEPT !.d = c] EXCEPT !.conn = C]
           told == TellAborted(quiet, e)
           x == ForgetLaunch(told, e)
<1>1. C \in [Service -> Conns] /\ \A s \in Service : C[s].phase = "none"
  BY DEF Worlds, Conns, Phases
<1>2. /\ c \in Loose /\ c.exch = 0 /\ c.act = w.d.act
      /\ ~c.coord /\ ~c.ready /\ ~c.pending /\ ~c.started
      /\ c.child = w.d.child /\ c.boot = w.d.boot
  <2>1. w.d \in Loose
    BY WorldFields
  <2>2. c \in Loose
    BY <2>1, ZenonT(60) DEF Loose
  <2>3. c.exch = 0 /\ c.act = w.d.act /\ c.child = w.d.child /\ c.boot = w.d.boot
    BY <2>1 DEF Loose
  <2>4. ~c.coord /\ ~c.ready /\ ~c.pending /\ ~c.started
    BY <2>1 DEF Loose
  <2> QED BY <2>2, <2>3, <2>4
<1>3. Abort(w, e) = x
  BY ZenonT(60) DEF Abort, Worlds
<1> HIDE DEF C, c
<1>4. /\ quiet \in Worlds /\ quiet.d = c /\ quiet.conn = C
      /\ quiet.disk = w.disk /\ quiet.ids = w.ids /\ quiet.tgt = w.tgt
  <2> DEFINE v == [w EXCEPT !.d = c]
  <2>1. /\ v \in Worlds /\ v.d = c
        /\ v.disk = w.disk /\ v.ids = w.ids /\ v.tgt = w.tgt
    BY <1>2, WithD
  <2> HIDE DEF v
  <2>2. quiet = [v EXCEPT !.conn = C]
    BY DEF v
  <2> HIDE DEF quiet
  <2> QED BY <1>1, <2>1, <2>2, WithConn
<1> HIDE DEF quiet
<1>5. /\ told \in Worlds /\ told.d = c /\ told.ids = w.ids /\ told.tgt = w.tgt
      /\ Open(told) = {}
  <2>1. Open(quiet) = {}
    BY <1>1, <1>4 DEF Open
  <2> QED BY <1>4, <2>1, BroadcastFacts DEF TellAborted
<1> HIDE DEF told
<1>6. /\ x \in Worlds /\ x.conn = told.conn /\ x.ids = told.ids /\ x.tgt = told.tgt
      /\ x.d.child = c.child /\ x.d.boot = c.boot /\ x.d.exch = c.exch
      /\ x.d.coord = c.coord /\ x.d.ready = c.ready
      /\ x.d.pending = c.pending /\ x.d.started = c.started
      /\ x.d.act => x.d.uncertain /\ x.d.gate
  BY <1>2, <1>5, ClearFacts DEF ForgetLaunch
<1> HIDE DEF x
<1> QED BY <1>2, <1>3, <1>5, <1>6 DEF Ended, SameRest, Open

LEMMA BlockFacts ==
    ASSUME NEW w \in Worlds, NEW e, NEW verified \in BOOLEAN, NEW retry \in BOOLEAN
    PROVE  /\ Block(w, e, verified, retry) \in Worlds
           /\ Ended(w, Block(w, e, verified, retry))
PROOF
<1> DEFINE a == Abort(w, e)
           c == [a.d EXCEPT !.blocked = TRUE, !.verified = verified, !.retry = retry]
           x == [a EXCEPT !.d = c]
<1>1. a \in Worlds /\ Ended(w, a)
  BY AbortFacts
<1> HIDE DEF a
<1>2. Block(w, e, verified, retry) = x
  BY <1>1 DEF Block, a, Worlds
<1>3. a.d \in Loose
  BY <1>1, WorldFields
<1>4. c \in Loose
  BY <1>3 DEF Loose
<1>5. /\ c.child = a.d.child /\ c.boot = a.d.boot /\ c.exch = a.d.exch
      /\ c.coord = a.d.coord /\ c.ready = a.d.ready /\ c.pending = a.d.pending
      /\ c.started = a.d.started /\ c.act = a.d.act
      /\ c.uncertain = a.d.uncertain /\ c.gate = a.d.gate
  BY <1>3 DEF Loose
<1> HIDE DEF c
<1>6. /\ x \in Worlds /\ x.d = c /\ x.conn = a.conn /\ x.ids = a.ids /\ x.tgt = a.tgt
  BY <1>1, <1>4, WithD
<1> HIDE DEF x
<1> QED BY <1>1, <1>2, <1>5, <1>6 DEF Ended, SameRest, Open

\* A launch that ended leaves a good state.
LEMMA EndedGood ==
    ASSUME NEW w, NEW x \in Worlds, w.d.child # "game", Ended(w, x)
    PROVE  Good(x) /\ Tidy(x)
PROOF
<1>1. Cardinality(Open(x)) = 0
  BY FS_EmptySet DEF Ended
<1>2. Counted(x)
  BY <1>1 DEF Ended, Counted
<1>3. Kept(x)
  BY DEF Ended, SameRest, Kept
<1>4. Tidy(x)
  BY DEF Ended, SameRest, Tidy
<1> QED BY <1>2, <1>3, <1>4 DEF Good

LEMMA EndedSteady ==
    ASSUME NEW w, NEW x \in Worlds, Good(w), w.d.coord, Ended(w, x)
    PROVE  Good(x) /\ Steady(w, x) /\ Open(x) \subseteq Open(w)
PROOF
<1>1. w.d.child # "game"
  BY DEF Good, Kept
<1>2. Good(x) /\ Tidy(x)
  BY <1>1, EndedGood
<1>3. SameRest(w, x) /\ ~x.d.coord /\ Open(x) = {}
  BY DEF Ended
<1> QED BY <1>2, <1>3 DEF Steady

LEMMA SteadyTransitive ==
    ASSUME NEW w \in Worlds, NEW x \in Worlds, NEW y, Good(y),
           Steady(w, x), Steady(x, y)
    PROVE  Steady(w, y)
PROOF
<1> y \in Worlds
  BY DEF Good
<1>1. SameRest(w, y) /\ (y.d.coord => w.d.coord) /\ (Tidy(w) => Tidy(y))
  BY DEF Steady, SameRest
<1>2. CASE w.d.coord => y.d.coord
  <2>1. SameRecord(w, x) /\ SameRecord(x, y)
    BY <1>2 DEF Steady
  <2>2. SameRecord(w, y)
    BY <2>1 DEF SameRecord
  <2> QED BY <1>1, <1>2, <2>2 DEF Steady
<1>3. CASE w.d.coord /\ ~y.d.coord /\ x.d.coord
  <2>1. Ended(x, y) /\ SameRest(w, x)
    BY <1>3 DEF Steady
  <2>2. Ended(w, y)
    BY <2>1 DEF Ended, SameRest
  <2> QED BY <1>1, <1>3, <2>2 DEF Steady
<1>4. CASE w.d.coord /\ ~y.d.coord /\ ~x.d.coord
  <2>1. Ended(w, x) /\ SameRecord(x, y) /\ SameRest(x, y)
    BY <1>4 DEF Steady
  <2>2. Open(y) = {} /\ y.d.exch = 0 /\ (y.d.act => y.d.gate)
    <3>1. Open(y) = {} /\ y.d.exch = Cardinality(Open(y))
      BY <1>4 DEF Good, Counted
    <3>2. y.d.act => y.d.gate
      BY DEF Good, Kept
    <3> QED BY <3>1, <3>2, FS_EmptySet
  <2>3. Ended(w, y)
    BY <1>4, <2>1, <2>2 DEF Ended, SameRest, SameRecord
  <2> QED BY <1>1, <1>4, <2>3 DEF Steady
<1> QED BY <1>2, <1>3, <1>4

-----------------------------------------------------------------------------
(* Stops, hangups and exchanges *)

\* A function that leaves the launch and its record alone.
LEMMA SteadyRecord ==
    ASSUME NEW w, Good(w), NEW x \in Worlds,
           SameRest(w, x), SameRecord(w, x), x.d.coord = w.d.coord,
           x.d.blocked => w.d.blocked, x.d.act => x.d.gate, Counted(x)
    PROVE  Good(x) /\ Steady(w, x)
PROOF
<1>1. Kept(x)
  BY DEF Good, Kept, SameRest, SameRecord
<1>2. Steady(w, x)
  BY DEF Steady, Tidy, SameRest, SameRecord
<1> QED BY <1>1, <1>2 DEF Good

LEMMA OpenFinite ==
    ASSUME NEW w
    PROVE  IsFiniteSet(Open(w)) /\ Cardinality(Open(w)) \in Nat
PROOF
<1>1. IsFiniteSet(Service)
  BY GameLaunchAssumption, FS_Interval DEF Service
<1>2. Open(w) \subseteq Service
  BY DEF Open
<1> QED BY <1>1, <1>2, FS_Subset, FS_CardinalityType

LEMMA StopFacts ==
    ASSUME NEW w, Good(w), NEW e, NEW s \in Service
    PROVE  LET x == Stop(w, e, s)
           IN  Good(x) /\ Steady(w, x) /\ Open(x) = Open(w) /\ x.d.coord = w.d.coord
PROOF
<1> DEFINE c == [w.d EXCEPT !.gate = TRUE]
           gated == [w EXCEPT !.d = c]
           x == Stop(w, e, s)
<1>1. w \in Worlds /\ w.d \in Loose
  BY WorldFields DEF Good
<1>2. c \in Loose
  BY <1>1 DEF Loose
<1>3. \A f \in {"pending", "coord", "ready", "exch", "blocked", "started",
                "act", "uncertain", "recovered", "id", "src", "child", "boot"} :
          c[f] = w.d[f]
  BY <1>1 DEF Loose
<1>4. c.gate
  BY <1>1 DEF Loose
<1>5. [w EXCEPT !.d.gate = TRUE] = gated
  BY <1>1 DEF Worlds
<1> HIDE DEF c
<1>6. /\ gated \in Worlds /\ gated.d = c /\ gated.conn = w.conn /\ gated.svc = w.svc
      /\ gated.disk = w.disk /\ gated.ids = w.ids /\ gated.tgt = w.tgt
  BY <1>1, <1>2 DEF Worlds
<1> HIDE DEF gated
<1>7. /\ x \in Worlds /\ x.d = c
      /\ x.disk = w.disk /\ x.ids = w.ids /\ x.tgt = w.tgt
      /\ \A t \in Service : /\ x.conn[t].phase = w.conn[t].phase
                           /\ x.conn[t].sub = w.conn[t].sub
  <2>1. CASE w.svc[s].st # "live"
    BY <1>1, <1>5, <1>6, <2>1 DEF Stop
  <2>2. CASE w.svc[s].st = "live" /\ s \in e.hang
    <3> DEFINE v == [gated.svc[s] EXCEPT !.st = "stuck"]
               S == [gated.svc EXCEPT ![s] = v]
    <3>1. v \in Svcs /\ S \in [Service -> Svcs]
      <4>1. gated.svc[s] \in Svcs
        BY <1>6 DEF Worlds
      <4>2. v \in Svcs
        BY <4>1 DEF Svcs
      <4> HIDE DEF v
      <4> QED BY <1>6, <4>2 DEF Worlds
    <3>2. x = [gated EXCEPT !.svc = S]
      BY <1>5, <1>6, <2>2 DEF Stop, Worlds
    <3> HIDE DEF S, x
    <3> QED BY <1>6, <3>1, <3>2 DEF Worlds
  <2>3. CASE w.svc[s].st = "live" /\ s \notin e.hang
    <3> DEFINE v == [gated.conn[s] EXCEPT !.bound = FALSE]
               C == [gated.conn EXCEPT ![s] = v]
               S == [gated.svc EXCEPT ![s] = Down]
    <3>1. v \in Conns /\ v.phase = w.conn[s].phase /\ v.sub = w.conn[s].sub
      <4>1. gated.conn[s] \in Conns
        BY <1>6, WorldFields
      <4> QED BY <1>6, <4>1 DEF Conns
    <3>2. x = [[gated EXCEPT !.svc = S] EXCEPT !.conn = C]
      BY <1>5, <1>6, <2>3 DEF Stop, Worlds
    <3> HIDE DEF v
    <3>3. /\ C \in [Service -> Conns]
          /\ \A t \in Service : /\ C[t].phase = w.conn[t].phase
                               /\ C[t].sub = w.conn[t].sub
      BY <1>6, <3>1 DEF Worlds
    <3>4. Down \in Svcs
      <4>1. 0 \in 0..MaxLaunches
        BY GameLaunchAssumption
      <4> QED BY <4>1 DEF Down, Svcs
    <3>5. S \in [Service -> Svcs]
      BY <1>6, <3>4 DEF Worlds
    <3> HIDE DEF S, C, x
    <3> QED BY <1>6, <3>2, <3>3, <3>5 DEF Worlds
  <2> QED BY <2>1, <2>2, <2>3
<1> HIDE DEF x
<1>8. Open(x) = Open(w)
  BY <1>7 DEF Open
<1>9. SameRest(w, x) /\ SameRecord(w, x) /\ x.d.coord = w.d.coord
  BY <1>3, <1>7 DEF SameRest, SameRecord
<1>10. Counted(x)
  BY <1>3, <1>7, <1>8 DEF Good, Counted, Open
<1>11. Good(x) /\ Steady(w, x)
  BY <1>3, <1>4, <1>7, <1>9, <1>10, SteadyRecord
<1> QED BY <1>8, <1>9, <1>11 DEF x

LEMMA EndExchangeFacts ==
    ASSUME NEW w, Good(w), NEW s \in Service, Asking(w, s)
    PROVE  LET x == EndExchange(w, s)
           IN  /\ Good(x) /\ Steady(w, x)
               /\ Open(x) = Open(w) \ {s} /\ x.d.coord /\ w.d.coord
               /\ x.d.id = w.d.id
PROOF
<1> DEFINE v == [w EXCEPT !.conn[s].phase = "none"]
           n == IF w.d.exch > 0 THEN w.d.exch - 1 ELSE 0
           c == [v.d EXCEPT !.exch = n]
           x == EndExchange(w, s)
<1>1. w \in Worlds /\ w.d \in Loose /\ s \in Open(w)
  BY WorldFields DEF Good, Open, Asking
<1>2. /\ v \in Worlds
      /\ v.d = w.d /\ v.disk = w.disk /\ v.ids = w.ids /\ v.tgt = w.tgt
      /\ v.conn[s].phase = "none" /\ v.conn[s].sub = w.conn[s].sub
      /\ \A t \in Service \ {s} : v.conn[t] = w.conn[t]
  <2>1. "none" \in Phases
    BY DEF Phases
  <2> QED BY <1>1, <2>1, WithPhase
<1>3. x = [v EXCEPT !.d = c]
  BY <1>1 DEF EndExchange, Worlds
<1> HIDE DEF v, x
<1>4. n = Cardinality(Open(w) \ {s}) /\ n \in Nat
  <2>1. w.d.exch = Cardinality(Open(w)) /\ w.d.exch \in Nat
    BY OpenFinite DEF Good, Counted
  <2>2. Cardinality(Open(w) \ {s}) = w.d.exch - 1
    BY <1>1, <2>1, OpenFinite, FS_RemoveElement
  <2>3. Cardinality(Open(w) \ {s}) \in Nat
    BY OpenFinite, FS_RemoveElement, FS_CardinalityType
  <2> QED BY <2>1, <2>2, <2>3
<1> HIDE DEF n
<1>5. c \in Loose
  BY <1>1, <1>2, <1>4 DEF Loose
<1>6. /\ c.exch = n
      /\ \A f \in {"pending", "coord", "ready", "blocked", "started", "gate",
                   "act", "uncertain", "recovered", "id", "src", "child", "boot"} :
          c[f] = w.d[f]
  BY <1>1, <1>2 DEF Loose
<1> HIDE DEF c
<1>7. x \in Worlds /\ x.d = c /\ x.conn = v.conn
      /\ x.disk = w.disk /\ x.ids = w.ids /\ x.tgt = w.tgt
  BY <1>2, <1>3, <1>5, WithD
<1>8. Open(x) = Open(w) \ {s}
  BY <1>2, <1>7 DEF Open
<1>9. SameRest(w, x) /\ SameRecord(w, x) /\ x.d.coord = w.d.coord
  BY <1>6, <1>7 DEF SameRest, SameRecord
<1>10. w.d.coord
  BY <1>1 DEF Good, Counted
<1>11. Counted(x)
  <2>1. \A t \in Open(x) : x.conn[t].sub
    BY <1>2, <1>7, <1>8 DEF Good, Counted, Open
  <2> QED BY <1>4, <1>6, <1>7, <1>8, <1>9, <1>10, <2>1 DEF Counted
<1>12. x.d.act => x.d.gate
  BY <1>6, <1>7 DEF Good, Kept
<1>13. Good(x) /\ Steady(w, x)
  BY <1>6, <1>7, <1>9, <1>11, <1>12, SteadyRecord
<1> QED BY <1>6, <1>7, <1>8, <1>9, <1>10, <1>13 DEF x

LEMMA HangupFacts ==
    ASSUME NEW w, Good(w), NEW s \in Service, ~Asking(w, s)
    PROVE  LET x == Hangup(w, s)
           IN  Good(x) /\ Steady(w, x) /\ Open(x) = Open(w) /\ x.d = w.d
PROOF
<1> DEFINE C == [w.conn EXCEPT ![s] = NoConn]
           x == [w EXCEPT !.conn = C]
<1>1. w \in Worlds
  BY DEF Good
<1>2. Hangup(w, s) = x
  BY <1>1 DEF Hangup, Worlds
<1>3. /\ C \in [Service -> Conns]
      /\ \A t \in Service : C[t].phase = w.conn[t].phase
      /\ \A t \in Service \ {s} : C[t] = w.conn[t]
  <2>1. NoConn \in Conns /\ NoConn.phase = "none"
    BY DEF NoConn, Conns, Phases
  <2> QED BY <1>1, <2>1, WorldFields DEF Asking
<1> HIDE DEF C
<1>4. /\ x \in Worlds /\ x.d = w.d /\ x.conn = C
      /\ x.disk = w.disk /\ x.ids = w.ids /\ x.tgt = w.tgt
  BY <1>1, <1>3, WithConn
<1> HIDE DEF x
<1>5. Open(x) = Open(w)
  BY <1>3, <1>4 DEF Open
<1>6. SameRest(w, x) /\ SameRecord(w, x) /\ Counted(x)
  <2>1. \A t \in Open(x) : x.conn[t].sub
    BY <1>3, <1>4, <1>5 DEF Good, Counted, Open, Asking
  <2> QED BY <1>4, <1>5, <2>1 DEF SameRest, SameRecord, Counted, Good
<1>7. Good(x) /\ Steady(w, x)
  BY <1>4, <1>6, SteadyRecord DEF Good, Kept
<1> QED BY <1>2, <1>4, <1>5, <1>7

\* What is blocked after a step on the way.
LEMMA BlockAfter ==
    ASSUME NEW w, Good(w), w.d.coord, NEW x, Good(x), Steady(w, x),
           NEW e, NEW verified \in BOOLEAN, NEW retry \in BOOLEAN
    PROVE  LET y == Block(x, e, verified, retry)
           IN  Good(y) /\ Steady(w, y) /\ Open(y) = {}
PROOF
<1> DEFINE y == Block(x, e, verified, retry)
<1>1. y \in Worlds /\ Ended(x, y)
  BY BlockFacts DEF Good
<1> HIDE DEF y
<1>2. Ended(w, y)
  BY <1>1 DEF Steady, Ended, SameRest
<1>3. Good(y) /\ Steady(w, y) /\ Open(y) = {}
  BY <1>1, <1>2, EndedSteady DEF Ended
<1> QED BY <1>3 DEF y

LEMMA ExchangeFailedFacts ==
    ASSUME NEW w, Good(w), NEW e, NEW s \in Service, Asking(w, s)
    PROVE  LET x == ExchangeFailed(w, e, s)
           IN  Good(x) /\ Steady(w, x) /\ Open(x) \subseteq Open(w) \ {s}
PROOF
<1> DEFINE x == EndExchange(w, s)
           y == Stop(x, e, s)
<1>1. w \in Worlds
  BY DEF Good
<1>2. Good(x) /\ Steady(w, x) /\ Open(x) = Open(w) \ {s} /\ x.d.coord /\ w.d.coord
  BY EndExchangeFacts
<1> HIDE DEF x
<1>3. Good(y) /\ Steady(x, y) /\ Open(y) = Open(x) /\ y.d.coord
  BY <1>2, StopFacts
<1> HIDE DEF y
<1>4. Steady(w, y)
  BY <1>1, <1>2, <1>3, SteadyTransitive DEF Good
<1>5. ExchangeFailed(w, e, s) \in
        {y, Block(x, e, TRUE, FALSE), Block(y, e, FALSE, FALSE)}
  BY DEF ExchangeFailed, x, y
<1>6. LET b == Block(x, e, TRUE, FALSE)
      IN  Good(b) /\ Steady(w, b) /\ Open(b) = {}
  BY <1>2, BlockAfter
<1>7. LET b == Block(y, e, FALSE, FALSE)
      IN  Good(b) /\ Steady(w, b) /\ Open(b) = {}
  BY <1>2, <1>3, <1>4, BlockAfter
<1> QED BY <1>2, <1>3, <1>4, <1>5, <1>6, <1>7

LEMMA DropFacts ==
    ASSUME NEW w, Good(w), NEW e, NEW s \in Service
    PROVE  LET x == Drop(w, e, s)
           IN  Good(x) /\ Steady(w, x) /\ Open(x) \subseteq Open(w) \ {s}
PROOF
<1> DEFINE v == IF Asking(w, s) /\ w.d.coord THEN ExchangeFailed(w, e, s) ELSE w
           x == Hangup(v, s)
<1>1. Good(v) /\ Steady(w, v) /\ Open(v) \subseteq Open(w) \ {s}
  <2>1. CASE Asking(w, s)
    <3>1. w.d.coord
      BY <2>1, EndExchangeFacts
    <3> QED BY <2>1, <3>1, ExchangeFailedFacts
  <2>2. CASE ~Asking(w, s)
    BY <2>2 DEF Good, Steady, SameRest, SameRecord, Open, Asking
  <2> QED BY <2>1, <2>2
<1>2. Drop(w, e, s) = x
  BY DEF Drop
<1> HIDE DEF v
<1>3. ~Asking(v, s)
  BY <1>1 DEF Open, Asking
<1>4. Good(x) /\ Steady(v, x) /\ Open(x) = Open(v)
  BY <1>1, <1>3, HangupFacts
<1>5. Steady(w, x)
  BY <1>1, <1>4, SteadyTransitive DEF Good
<1> QED BY <1>1, <1>2, <1>4, <1>5

LEMMA SendFacts ==
    ASSUME NEW w, Good(w), NEW e, NEW s \in Service
    PROVE  LET x == Send(w, e, s)
           IN  Good(x) /\ Steady(w, x) /\ Open(x) \subseteq Open(w)
PROOF
<1>1. Good(w) /\ Steady(w, w)
  BY DEF Good, Steady, SameRest, SameRecord
<1> QED BY <1>1, DropFacts DEF Send

\* A step followed by a function of this kind.
LEMMA SteadyThen ==
    ASSUME NEW w \in Worlds, NEW x, Good(x), Steady(w, x),
           NEW y, Good(y), Steady(x, y)
    PROVE  Steady(w, y)
PROOF BY SteadyTransitive DEF Good

LEMMA SendToldFacts ==
    ASSUME NEW w, Good(w), w.d.coord, NEW e, NEW s \in Service
    PROVE  LET x == SendTold(w, e, s)
           IN  Good(x) /\ Steady(w, x) /\ Open(x) \subseteq Open(w)
PROOF
<1> DEFINE v == [w.svc[s] EXCEPT !.told = @ \cup {w.d.id}]
           S == [w.svc EXCEPT ![s] = v]
           x == [w EXCEPT !.svc = S]
<1>1. w \in Worlds
  BY DEF Good
<1>2. v \in Svcs
  <2>1. w.d.id # 0
    BY DEF Good, Kept
  <2>2. w.d.id \in 0..MaxLaunches
    <3>1. w.d \in Loose
      BY <1>1, WorldFields
    <3> QED BY <3>1 DEF Loose
  <2>3. w.d.id \in 1..MaxLaunches
    BY <2>1, <2>2, GameLaunchAssumption
  <2>4. w.svc[s] \in Svcs
    BY <1>1 DEF Worlds
  <2> QED BY <2>3, <2>4 DEF Svcs
<1>3. [w EXCEPT !.svc[s].told = @ \cup {w.d.id}] = x
  BY <1>1 DEF Worlds
<1> HIDE DEF v
<1>4. S \in [Service -> Svcs]
  BY <1>1, <1>2, WorldFields
<1> HIDE DEF S
<1>5. /\ x \in Worlds /\ x.d = w.d /\ x.conn = w.conn
      /\ x.disk = w.disk /\ x.ids = w.ids /\ x.tgt = w.tgt
  BY <1>1, <1>4 DEF Worlds
<1> HIDE DEF x
<1>6. Open(x) = Open(w)
  BY <1>5 DEF Open
<1>7. SameRest(w, x) /\ SameRecord(w, x) /\ Counted(x)
  BY <1>5, <1>6 DEF SameRest, SameRecord, Counted, Good
<1>8. Good(x) /\ Steady(w, x)
  BY <1>5, <1>7, SteadyRecord DEF Good, Kept
<1>9. CASE s \in e.full
  BY <1>9, DropFacts DEF SendTold
<1>10. CASE s \notin e.full
  BY <1>3, <1>6, <1>8, <1>10 DEF SendTold
<1> QED BY <1>9, <1>10

\* An open exchange moves on.
LEMMA PhaseFacts ==
    ASSUME NEW w, Good(w), NEW s \in Service, Asking(w, s),
           NEW p \in Phases \ {"none"}
    PROVE  LET x == [w EXCEPT !.conn[s].phase = p]
           IN  Good(x) /\ Steady(w, x) /\ Open(x) = Open(w) /\ x.d = w.d /\ Asking(x, s)
PROOF
<1> DEFINE x == [w EXCEPT !.conn[s].phase = p]
<1>1. /\ x \in Worlds
      /\ x.d = w.d /\ x.disk = w.disk /\ x.ids = w.ids /\ x.tgt = w.tgt
      /\ x.conn[s].phase = p /\ x.conn[s].sub = w.conn[s].sub
      /\ \A t \in Service \ {s} : x.conn[t] = w.conn[t]
  BY WithPhase DEF Good
<1> HIDE DEF x
<1>2. Open(x) = Open(w) /\ Asking(x, s)
  BY <1>1 DEF Open, Asking
<1>3. SameRest(w, x) /\ SameRecord(w, x) /\ Counted(x)
  <2>1. \A t \in Open(x) : x.conn[t].sub
    BY <1>1, <1>2 DEF Good, Counted, Open
  <2> QED BY <1>1, <1>2, <2>1 DEF SameRest, SameRecord, Counted, Good
<1>4. Good(x) /\ Steady(w, x)
  BY <1>1, <1>3, SteadyRecord DEF Good, Kept
<1> QED BY <1>1, <1>2, <1>4 DEF x

LEMMA CancelFacts ==
    ASSUME NEW w, Good(w), NEW e, NEW s \in Service, Asking(w, s)
    PROVE  LET x == Cancel(w, e, s)
           IN  /\ Good(x) /\ Steady(w, x) /\ Open(x) \subseteq Open(w)
               /\ s \notin e.full => Asking(x, s)
PROOF
<1> DEFINE v == [w EXCEPT !.conn[s].phase = "ack"]
           x == Send(v, e, s)
<1>1. Good(v) /\ Steady(w, v) /\ Open(v) = Open(w) /\ Asking(v, s)
  BY PhaseFacts DEF Phases
<1>2. Cancel(w, e, s) = x
  BY DEF Cancel
<1> HIDE DEF v
<1>3. Good(x) /\ Steady(v, x) /\ Open(x) \subseteq Open(v)
  BY <1>1, SendFacts
<1>4. s \notin e.full => x = v
  BY DEF Send
<1> QED BY <1>1, <1>2, <1>3, <1>4, SteadyThen DEF Good

\* The connection of s enters phase p, with one exchange more.
Opened(w, s, p) ==
    [[w EXCEPT !.d = [w.d EXCEPT !.exch = @ + 1]] EXCEPT !.conn[s].phase = p]

LEMMA OpenedFacts ==
    ASSUME NEW w, Good(w), w.d.coord, NEW s \in Service, ~Asking(w, s), w.conn[s].sub,
           NEW p \in Phases \ {"none"}
    PROVE  LET o == Opened(w, s, p)
           IN  Good(o) /\ Steady(w, o) /\ Open(o) = Open(w) \cup {s} /\ o.d.coord
PROOF
<1> DEFINE c == [w.d EXCEPT !.exch = @ + 1]
           v == [w EXCEPT !.d = c]
           o == [v EXCEPT !.conn[s].phase = p]
<1>1. w \in Worlds /\ w.d \in Loose /\ s \notin Open(w)
  BY WorldFields DEF Good, Open, Asking
<1>2. Opened(w, s, p) = o
  BY DEF Opened
<1>3. c \in Loose /\ c.exch = Cardinality(Open(w) \cup {s})
  <2>1. Cardinality(Open(w) \cup {s}) = Cardinality(Open(w)) + 1
    BY <1>1, OpenFinite, FS_AddElement
  <2>2. c.exch = w.d.exch + 1
    BY <1>1 DEF Loose
  <2>3. c \in Loose
    BY <1>1 DEF Loose
  <2> QED BY <2>1, <2>2, <2>3 DEF Good, Counted
<1>4. \A f \in {"pending", "coord", "ready", "blocked", "started", "gate",
                "act", "uncertain", "recovered", "id", "src", "child", "boot"} :
          c[f] = w.d[f]
  BY <1>1 DEF Loose
<1> HIDE DEF c
<1>5. /\ v \in Worlds /\ v.d = c /\ v.conn = w.conn
      /\ v.disk = w.disk /\ v.ids = w.ids /\ v.tgt = w.tgt
  BY <1>1, <1>3, WithD
<1> HIDE DEF v
<1>6. /\ o \in Worlds /\ o.d = c
      /\ o.disk = w.disk /\ o.ids = w.ids /\ o.tgt = w.tgt
      /\ o.conn[s].phase = p /\ o.conn[s].sub
      /\ \A t \in Service \ {s} : o.conn[t] = w.conn[t]
  BY <1>5, WithPhase
<1> HIDE DEF o
<1>7. Open(o) = Open(w) \cup {s}
  BY <1>6 DEF Open
<1>8. SameRest(w, o) /\ SameRecord(w, o) /\ o.d.coord
  BY <1>4, <1>6 DEF SameRest, SameRecord
<1>9. Counted(o)
  <2>1. \A t \in Open(o) : o.conn[t].sub
    BY <1>6, <1>7 DEF Good, Counted, Open
  <2> QED BY <1>3, <1>6, <1>7, <1>8, <2>1 DEF Counted
<1>10. o.d.blocked = w.d.blocked /\ (o.d.act => o.d.gate)
  BY <1>4, <1>6 DEF Good, Kept
<1>11. Good(o) /\ Steady(w, o)
  BY <1>6, <1>8, <1>9, <1>10, SteadyRecord
<1> QED BY <1>2, <1>7, <1>8, <1>11

\* How a service is asked: with a wait, or not.
LEMMA BeginIs ==
    ASSUME NEW w \in Worlds, NEW e, NEW s \in Service
    PROVE  \E p \in Phases \ {"none"} : Begin(w, e, s) = SendTold(Opened(w, s, p), e, s)
PROOF
<1> DEFINE p == IF w.conn[s].mode = "check" \/ w.conn[s].wait THEN "awaiting" ELSE "ack"
<1>1. p \in Phases \ {"none"}
  BY DEF Phases
<1>2. Begin(w, e, s) = SendTold(Opened(w, s, p), e, s)
  BY DEF Begin, Opened, Worlds
<1> QED BY <1>1, <1>2

LEMMA BeginFacts ==
    ASSUME NEW w, Good(w), w.d.coord, NEW e, NEW s \in Service,
           ~Asking(w, s), w.conn[s].sub
    PROVE  LET x == Begin(w, e, s)
           IN  Good(x) /\ Steady(w, x) /\ Open(x) \subseteq Open(w) \cup {s}
PROOF
<1>1. w \in Worlds
  BY DEF Good
<1>2. PICK p \in Phases \ {"none"} : Begin(w, e, s) = SendTold(Opened(w, s, p), e, s)
  BY <1>1, BeginIs
<1> DEFINE o == Opened(w, s, p)
           x == SendTold(o, e, s)
<1>3. Good(o) /\ Steady(w, o) /\ Open(o) = Open(w) \cup {s} /\ o.d.coord
  BY OpenedFacts
<1> HIDE DEF o
<1>4. Good(x) /\ Steady(o, x) /\ Open(x) \subseteq Open(o)
  BY <1>3, SendToldFacts
<1> HIDE DEF x
<1>5. Begin(w, e, s) = x
  BY <1>2 DEF o, x
<1> QED BY <1>1, <1>3, <1>4, <1>5, SteadyThen

-----------------------------------------------------------------------------
(* Visiting the services *)

LEMMA DropUnboundFacts ==
    ASSUME NEW w, Good(w), NEW e, NEW s \in Service
    PROVE  LET x == DropUnbound(w, e, s)
           IN  Good(x) /\ Steady(w, x) /\ Open(x) \subseteq Open(w)
PROOF
<1>1. Good(w) /\ Steady(w, w)
  BY DEF Good, Steady, SameRest, SameRecord
<1> QED BY <1>1, DropFacts DEF DropUnbound

LEMMA StopOrBlockFacts ==
    ASSUME NEW w, Good(w), w.d.coord, NEW x, Good(x), Steady(w, x),
           NEW e, NEW s \in Service
    PROVE  LET y == StopOrBlock(x, e, s)
           IN  Good(y) /\ Steady(w, y) /\ Open(y) \subseteq Open(x)
PROOF
<1> DEFINE y == Stop(x, e, s)
           z == Block(y, e, x.d.skip, FALSE)
<1>1. Good(y) /\ Steady(x, y) /\ Open(y) = Open(x)
  BY StopFacts
<1> HIDE DEF y
<1>2. Steady(w, y)
  BY <1>1, SteadyThen DEF Good
<1>3. x.d.skip \in BOOLEAN
  <2>1. x.d \in Loose
    BY WorldFields DEF Good
  <2> QED BY <2>1 DEF Loose
<1>4. Good(z) /\ Steady(w, z) /\ Open(z) = {}
  BY <1>1, <1>2, <1>3, BlockAfter
<1>5. StopOrBlock(x, e, s) \in {y, z}
  BY DEF StopOrBlock, y
<1> QED BY <1>1, <1>2, <1>4, <1>5

LEMMA VisitFacts ==
    ASSUME NEW w, Good(w), w.d.coord, NEW e, NEW s \in Service, ~Asking(w, s)
    PROVE  LET x == Visit(w, e, s)
           IN  Good(x) /\ Steady(w, x) /\ Open(x) \subseteq Open(w) \cup {s}
PROOF
<1> DEFINE x == DropUnbound(w, e, s)
           y == StopOrBlock(x, e, s)
           z == Begin(w, e, s)
<1>1. Good(w) /\ Steady(w, w)
  BY DEF Good, Steady, SameRest, SameRecord
<1>2. Good(x) /\ Steady(w, x) /\ Open(x) \subseteq Open(w)
  BY DropUnboundFacts
<1>3. Good(y) /\ Steady(w, y) /\ Open(y) \subseteq Open(x)
  BY <1>2, StopOrBlockFacts
<1>4. Usable(w, s) => /\ Good(z) /\ Steady(w, z)
                      /\ Open(z) \subseteq Open(w) \cup {s}
  BY BeginFacts DEF Usable
<1>5. \/ Visit(w, e, s) \in {w, x, y}
      \/ Usable(w, s) /\ Visit(w, e, s) = z
  BY DEF Visit
<1> QED BY <1>1, <1>2, <1>3, <1>4, <1>5

\* Induction on the natural numbers, for a set instead of a predicate.
LEMMA LeastNatural ==
    ASSUME NEW T, T \subseteq Nat, T # {}
    PROVE  \E n \in T : \A k \in T : n <= k
PROOF
<1> DEFINE R == OpToRel(<, Nat)
<1>1. IsWellFoundedOn(R, Nat)
  BY NatLessThanWellFounded
<1> HIDE DEF R
<1>2. PICK n \in T : \A k \in T : <<k, n>> \notin R
  BY <1>1, WFMin
<1>3. \A k \in T : ~(k < n)
  BY <1>2 DEF R, OpToRel
<1> QED BY <1>3

LEMMA SetInduction ==
    ASSUME NEW P, 0 \in P, \A n \in Nat : n \in P => n + 1 \in P
    PROVE  Nat \subseteq P
PROOF
<1> SUFFICES ASSUME NEW k \in Nat, k \notin P
             PROVE  FALSE
  OBVIOUS
<1>1. Nat \ P \subseteq Nat /\ Nat \ P # {}
  OBVIOUS
<1>2. PICK n \in Nat \ P : \A m \in Nat \ P : n <= m
  BY <1>1, LeastNatural
<1>3. n # 0 /\ n - 1 \in P
  BY <1>2
<1> QED BY <1>2, <1>3

\* The turn of one service, when all are visited and when every open wait is
\* cut short, and the states after each turn.
Turned(x, e, s, visits) ==
    IF visits THEN IF x.d.coord THEN Visit(x, e, s) ELSE x
    ELSE IF x.d.coord /\ x.conn[s].phase = "waiting" THEN Cancel(x, e, s) ELSE x

Turns(f, n, w, e, visits) ==
    f = [s \in 0..n |-> IF s = 0 THEN w ELSE Turned(f[s - 1], e, s, visits)]

LEMMA TurnsExist ==
    ASSUME NEW w, NEW e, NEW visits, NEW N \in Nat
    PROVE  \E f : Turns(f, N, w, e, visits)
PROOF
<1> DEFINE P == {n \in Nat : \E f : Turns(f, n, w, e, visits)}
<1>1. 0 \in P
  <2> DEFINE f == [s \in 0..0 |-> w]
  <2>1. f = [s \in 0..0 |-> IF s = 0 THEN w ELSE Turned(f[s - 1], e, s, visits)]
    OBVIOUS
  <2> QED BY <2>1 DEF Turns
<1>2. ASSUME NEW n \in Nat, n \in P
      PROVE  n + 1 \in P
  <2>1. PICK f : f = [s \in 0..n |-> IF s = 0 THEN w ELSE Turned(f[s - 1], e, s, visits)]
    BY <1>2 DEF Turns
  <2> DEFINE g == [s \in 0..(n + 1) |->
                     IF s = n + 1 THEN Turned(f[n], e, s, visits) ELSE f[s]]
  <2>2. \A s \in 0..(n + 1) : g[s] = IF s = 0 THEN w ELSE Turned(g[s - 1], e, s, visits)
    <3> TAKE s \in 0..(n + 1)
    <3>1. CASE s = n + 1
      <4>1. s # 0 /\ s - 1 = n /\ n \in 0..(n + 1) /\ n # n + 1
        BY <3>1
      <4>2. g[n] = f[n] /\ g[s] = Turned(f[n], e, s, visits)
        BY <3>1, <4>1
      <4> QED BY <4>1, <4>2
    <3>2. CASE s # n + 1 /\ s # 0
      <4>1. s \in 0..n /\ s - 1 \in 0..(n + 1) /\ s - 1 # n + 1
        BY <3>2
      <4>2. g[s] = f[s] /\ g[s - 1] = f[s - 1] /\ f[s] = Turned(f[s - 1], e, s, visits)
        BY <2>1, <3>2, <4>1
      <4> QED BY <3>2, <4>2
    <3>3. CASE s = 0
      <4>1. s \in 0..n /\ s # n + 1
        BY <3>3
      <4> QED BY <2>1, <3>3, <4>1
    <3> QED BY <3>1, <3>2, <3>3
  <2>3. Turns(g, n + 1, w, e, visits)
    BY <2>2 DEF Turns
  <2> QED BY <2>3
<1> HIDE DEF P
<1>3. Nat \subseteq P
  BY <1>1, <1>2, SetInduction
<1> QED BY <1>3 DEF P

LEMMA VisitAllFacts ==
    ASSUME NEW w, Good(w), w.d.coord, Open(w) = {}, NEW e
    PROVE  LET x == VisitAll(w, e)
           IN  Good(x) /\ Steady(w, x)
PROOF
<1> DEFINE Body(g) ==
               [s \in 0..NServices |->
                  IF s = 0 THEN w
                  ELSE IF g[s - 1].d.coord THEN Visit(g[s - 1], e, s) ELSE g[s - 1]]
           f == CHOOSE g : g = Body(g)
           Fine(n) == Good(f[n]) /\ Steady(w, f[n]) /\ Open(f[n]) \subseteq 1..n
           P == {n \in Nat : n <= NServices => Fine(n)}
<1>1. NServices \in Nat
  BY GameLaunchAssumption
<1>2. f = [s \in 0..NServices |-> IF s = 0 THEN w ELSE Turned(f[s - 1], e, s, TRUE)]
  <2>1. PICK g : Turns(g, NServices, w, e, TRUE)
    BY <1>1, TurnsExist
  <2>2. g = Body(g)
    BY <2>1 DEF Turns, Turned
  <2>3. f = Body(f)
    BY <2>2
  <2> HIDE DEF f
  <2> QED BY <2>3 DEF Turned
<1>3. VisitAll(w, e) = f[NServices]
  BY DEF VisitAll
<1> HIDE DEF f
<1>4. 0 \in P
  BY <1>2, <1>1 DEF Steady, SameRest, SameRecord
<1>5. ASSUME NEW n \in Nat, n \in P
      PROVE  n + 1 \in P
  <2> SUFFICES ASSUME n + 1 <= NServices
               PROVE  Fine(n + 1)
    OBVIOUS
  <2>1. n + 1 \in Service /\ n + 1 \in 0..NServices /\ n + 1 # 0 /\ (n + 1) - 1 = n
    BY <1>1 DEF Service
  <2>2. f[n + 1] = Turned(f[n], e, n + 1, TRUE)
    BY <1>2, <2>1
  <2>3. Fine(n)
    BY <1>1, <1>5
  <2>4. ~Asking(f[n], n + 1)
    BY <2>1, <2>3 DEF Open, Asking
  <2>5. CASE ~f[n].d.coord
    BY <2>2, <2>3, <2>5 DEF Turned
  <2>6. CASE f[n].d.coord
    <3> DEFINE y == Visit(f[n], e, n + 1)
    <3>1. Good(y) /\ Steady(f[n], y) /\ Open(y) \subseteq Open(f[n]) \cup {n + 1}
      BY <2>1, <2>3, <2>4, <2>6, VisitFacts
    <3>2. f[n + 1] = y
      BY <2>2, <2>6 DEF Turned
    <3> HIDE DEF y
    <3>3. Steady(w, y)
      BY <2>3, <3>1, SteadyThen DEF Good
    <3> QED BY <2>3, <3>1, <3>2, <3>3
  <2> QED BY <2>5, <2>6
<1> HIDE DEF P
<1>6. NServices \in P
  BY <1>1, <1>4, <1>5, SetInduction
<1> QED BY <1>1, <1>3, <1>6 DEF P

-----------------------------------------------------------------------------
(* Starting the writer *)

\* A function that may carry a launch to its end: it starts a writer or holds
\* it back for the launcher, where nobody or a launcher is in front.
Launches(w, x) ==
    /\ x.d.boot = w.d.boot /\ x.ids = w.ids /\ x.tgt = w.tgt
    /\ x.d.coord => w.d.coord
    /\ ~w.d.coord => SameRecord(w, x) /\ x.d.child = w.d.child
    /\ x.d.child # w.d.child => w.d.child = Nobody /\ x.d.child = "game"
    /\ x.d.ready /\ ~w.d.ready => w.d.child = "launcher"
    /\ Tidy(w) => Tidy(x)

LEMMA SteadyLaunches ==
    ASSUME NEW w \in Worlds, NEW x \in Worlds, Steady(w, x)
    PROVE  Launches(w, x)
PROOF
<1>1. /\ x.d.boot = w.d.boot /\ x.ids = w.ids /\ x.tgt = w.tgt
      /\ x.d.child = w.d.child /\ (x.d.coord => w.d.coord) /\ (Tidy(w) => Tidy(x))
  BY DEF Steady, SameRest
<1>2. ~w.d.coord => SameRecord(w, x)
  BY DEF Steady
<1>3. ~(x.d.ready /\ ~w.d.ready)
  BY DEF Steady, SameRecord, Ended
<1> QED BY <1>1, <1>2, <1>3 DEF Launches

LEMMA SteadyThenLaunches ==
    ASSUME NEW w, Good(w), NEW x, Good(x), NEW y, Good(y),
           Steady(w, x), Launches(x, y)
    PROVE  Launches(w, y)
PROOF
<1>1. /\ y.d.boot = w.d.boot /\ y.ids = w.ids /\ y.tgt = w.tgt
      /\ (y.d.coord => w.d.coord) /\ (Tidy(w) => Tidy(y))
      /\ (y.d.child # w.d.child => w.d.child = Nobody /\ y.d.child = "game")
  BY DEF Steady, SameRest, Launches
<1>2. ASSUME ~w.d.coord
      PROVE  SameRecord(w, y) /\ y.d.child = w.d.child
  BY <1>2 DEF Steady, SameRest, SameRecord, Launches
<1>3. ASSUME y.d.ready /\ ~w.d.ready
      PROVE  w.d.child = "launcher"
  <2>1. ~x.d.ready
    BY <1>3 DEF Steady, SameRecord, Ended
  <2> QED BY <1>3, <2>1 DEF Launches, Steady, SameRest
<1> QED BY <1>1, <1>2, <1>3 DEF Launches

LEMMA LaunchIfReadyFacts ==
    ASSUME NEW w, Good(w), NEW e
    PROVE  LET x == LaunchIfReady(w, e) IN Good(x) /\ Launches(w, x)
PROOF
<1> DEFINE x == LaunchIfReady(w, e)
           a == Abort(w, e)
           held == [w.d EXCEPT !.coord = FALSE, !.ready = TRUE]
           play == [w.d EXCEPT !.coord = FALSE, !.child = "game", !.pending = FALSE,
                               !.override = FALSE, !.started = TRUE]
           h == [w EXCEPT !.d = held]
           p == [w EXCEPT !.d = play]
<1>1. w \in Worlds /\ w.d \in Loose
  BY WorldFields DEF Good
<1>2. Launches(w, w)
  BY <1>1, SteadyLaunches DEF Steady, SameRest, SameRecord
<1>3. CASE ~w.d.coord \/ w.d.exch > 0
  BY <1>2, <1>3 DEF LaunchIfReady
<1>4. CASE w.d.coord /\ ~(w.d.exch > 0)
  <2>1. Open(w) = {} /\ w.d.exch = 0
    <3>1. w.d.exch = 0
      BY <1>1, <1>4 DEF Loose
    <3> QED BY <3>1, OpenFinite, FS_EmptySet DEF Good, Counted
  <2>2. Good(a) /\ Launches(w, a)
    <3>1. a \in Worlds /\ Ended(w, a)
      BY <1>1, AbortFacts
    <3> HIDE DEF a
    <3>2. Good(a) /\ Steady(w, a)
      BY <1>4, <3>1, EndedSteady
    <3> QED BY <1>1, <3>1, <3>2, SteadyLaunches
  <2>3. CASE w.d.child = "launcher"
    <3>1. held \in Loose
      BY <1>1 DEF Loose
    <3>2. ~held.coord
      BY <1>1 DEF Loose
    <3>3. held.ready
      BY <1>1 DEF Loose
    <3>4. \A f \in {"pending", "exch", "blocked", "started", "gate", "act",
                    "uncertain", "recovered", "id", "src", "child", "boot"} :
            held[f] = w.d[f]
      BY <1>1 DEF Loose
    <3> HIDE DEF held
    <3>5. /\ h \in Worlds /\ h.d = held /\ h.conn = w.conn
          /\ h.disk = w.disk /\ h.ids = w.ids /\ h.tgt = w.tgt
      BY <1>1, <3>1, WithD
    <3>6. x \in {a, h}
      <4>1. [[w EXCEPT !.d.coord = FALSE] EXCEPT !.d.ready = TRUE] = h
        BY <1>1 DEF held, Worlds
      <4> HIDE DEF h
      <4> QED BY <1>4, <2>3, <4>1 DEF LaunchIfReady
    <3> HIDE DEF h
    <3>7. Open(h) = {} /\ Counted(h)
      BY <2>1, <3>2, <3>4, <3>5, FS_EmptySet DEF Open, Counted
    <3>8. Kept(h)
      BY <1>4, <2>3, <3>2, <3>3, <3>4, <3>5 DEF Good, Kept
    <3>9. Launches(w, h)
      <4>1. Tidy(w) => Tidy(h)
        BY <1>4, <3>2, <3>3, <3>4, <3>5 DEF Tidy
      <4> QED BY <1>4, <2>3, <3>2, <3>4, <3>5, <4>1 DEF Launches
    <3> QED BY <2>2, <3>5, <3>6, <3>7, <3>8, <3>9 DEF Good
  <2>4. CASE w.d.child # "launcher"
    <3>1. play \in Loose
      BY <1>1 DEF Loose
    <3>2. ~play.coord /\ ~play.pending
      BY <1>1 DEF Loose
    <3>3. play.started
      BY <1>1 DEF Loose
    <3>4. play.child = "game"
      BY <1>1 DEF Loose
    <3>5. \A f \in {"ready", "exch", "blocked", "gate", "act",
                    "uncertain", "recovered", "id", "src", "boot"} :
            play[f] = w.d[f]
      BY <1>1 DEF Loose
    <3> HIDE DEF play
    <3>6. /\ p \in Worlds /\ p.d = play /\ p.conn = w.conn
          /\ p.disk = w.disk /\ p.ids = w.ids /\ p.tgt = w.tgt
      BY <1>1, <3>1, WithD
    <3>7. x \in {a, p}
      <4>1. StartWriter([w EXCEPT !.d.coord = FALSE]) = p
        BY <1>1 DEF StartWriter, play, Worlds
      <4> HIDE DEF p
      <4> QED BY <1>4, <2>4, <4>1 DEF LaunchIfReady
    <3> HIDE DEF p
    <3>8. Open(p) = {} /\ Counted(p)
      BY <2>1, <3>2, <3>5, <3>6, FS_EmptySet DEF Open, Counted
    <3>9. Kept(p)
      BY <1>4, <3>2, <3>3, <3>4, <3>5, <3>6 DEF Good, Kept
    <3>10. Launches(w, p)
      <4>1. Tidy(w) => Tidy(p)
        BY <1>4, <3>2, <3>3, <3>5, <3>6 DEF Tidy, Good, Kept
      <4>2. w.d.child = Nobody
        BY <1>1, <1>4, <2>4 DEF Loose, Good, Kept
      <4> QED BY <1>4, <3>2, <3>4, <3>5, <3>6, <4>1, <4>2 DEF Launches
    <3> QED BY <2>2, <3>6, <3>7, <3>8, <3>9, <3>10 DEF Good
  <2> QED BY <2>3, <2>4
<1> QED BY <1>3, <1>4

-----------------------------------------------------------------------------
(* A launch from its request on *)

LEMMA RefuseFacts ==
    ASSUME NEW w, Good(w), ~w.d.coord, ~w.d.ready
    PROVE  LET x == Refuse(w)
           IN  /\ Good(x)
               /\ x.disk = w.disk /\ x.ids = w.ids /\ x.tgt = w.tgt
               /\ x.conn = w.conn /\ ~x.d.pending
               /\ x.d.exch = w.d.exch
               /\ \A f \in {"coord", "ready", "blocked", "started", "gate", "act",
                            "uncertain", "recovered", "id", "src", "child", "boot"} :
                     x.d[f] = w.d[f]
               /\ Tidy(w) => Tidy(x)
PROOF
<1> DEFINE c == [w.d EXCEPT !.pending = FALSE, !.override = FALSE]
           x == [w EXCEPT !.d = c]
<1>1. w \in Worlds /\ w.d \in Loose
  BY WorldFields DEF Good
<1>2. Refuse(w) = x
  BY <1>1 DEF Refuse, Worlds
<1>3. c \in Loose
  BY <1>1 DEF Loose
<1>4. ~c.pending
  BY <1>1 DEF Loose
<1>5. /\ c.exch = w.d.exch
      /\ \A f \in {"coord", "ready", "blocked", "started", "gate", "act",
                   "uncertain", "recovered", "id", "src", "child", "boot"} :
            c[f] = w.d[f]
  BY <1>1 DEF Loose
<1> HIDE DEF c
<1>6. /\ x \in Worlds /\ x.d = c /\ x.conn = w.conn
      /\ x.disk = w.disk /\ x.ids = w.ids /\ x.tgt = w.tgt
  BY <1>1, <1>3, WithD
<1> HIDE DEF x
<1>7. Counted(x)
  BY <1>5, <1>6 DEF Good, Counted, Open
<1>8. Kept(x)
  BY <1>4, <1>5, <1>6 DEF Good, Kept
<1>9. Tidy(w) => Tidy(x)
  BY <1>4, <1>5, <1>6 DEF Tidy
<1> QED BY <1>2, <1>4, <1>5, <1>6, <1>7, <1>8, <1>9 DEF Good

LEMMA CommitFacts ==
    ASSUME NEW w, Good(w), w.d.pending, ~w.d.act, w.d.child = Nobody, NEW e
    PROVE  LET x == Commit(w, e)
           IN  /\ Good(x) /\ x.d.coord /\ Open(x) = {}
               /\ x.d.child = Nobody /\ x.d.boot = w.d.boot /\ ~x.d.ready
               /\ x.tgt = w.tgt /\ x.conn = w.conn /\ x.svc = w.svc
               /\ \A f \in {"override", "skip", "verified", "decision",
                            "blocked"} : x.d[f] = w.d[f]
               /\ Tidy(w) => Tidy(x)
PROOF
<1> DEFINE n == w.ids + 1
           y == [w EXCEPT !.ids = n, !.disk = n]
           c1 == [y.d EXCEPT !.act = TRUE, !.uncertain = FALSE, !.recovered = FALSE,
                             !.id = n, !.src = w.tgt]
           c == [c1 EXCEPT !.started = FALSE, !.coord = TRUE, !.ready = FALSE,
                           !.exch = 0, !.gate = TRUE]
           x == [y EXCEPT !.d = c]
<1>1. w \in Worlds /\ w.d \in Loose /\ w.tgt \in Sources \cup {NoSource}
  BY WorldFields DEF Good
<1>2. n \in 1..MaxLaunches /\ n \in 0..MaxLaunches
  <2>1. w.ids \in 0..MaxLaunches /\ w.ids < MaxLaunches
    BY <1>1, WorldFields DEF Good, Kept
  <2> QED BY <2>1, GameLaunchAssumption
<1>3. /\ y \in Worlds /\ y.d = w.d /\ y.disk = n /\ y.tgt = w.tgt
      /\ y.conn = w.conn /\ y.svc = w.svc
  BY <1>1, <1>2 DEF Worlds
<1>4. Commit(w, e) = x
  <2>1. Commit(w, e) = [y EXCEPT
              !.d.act = TRUE, !.d.uncertain = FALSE, !.d.recovered = FALSE,
              !.d.id = n, !.d.src = w.tgt,
              !.d.started = FALSE, !.d.coord = TRUE, !.d.ready = FALSE,
              !.d.exch = 0, !.d.gate = TRUE]
    BY <1>1 DEF Commit, Worlds
  <2> HIDE DEF n, y
  <2> QED BY <1>3, <2>1, ZenonT(60) DEF Worlds
<1> HIDE DEF n, y
<1>5. c \in Loose
  <2>1. y.d \in Loose /\ n \in 0..MaxLaunches
        /\ w.tgt \in Sources \cup {NoSource}
    BY <1>1, <1>2, <1>3
  <2> DEFINE s == w.tgt
  <2> HIDE DEF s, y, n
  <2>2. c1 \in Loose
    BY <2>1, ZenonT(60) DEF Loose, s
  <2> HIDE DEF c1
  <2> QED BY <2>2, ZenonT(60) DEF Loose
<1>6. c.coord /\ c.act /\ c.gate
  BY <1>1, <1>3 DEF Loose
<1>7. ~c.uncertain /\ ~c.ready /\ ~c.started
  BY <1>1, <1>3 DEF Loose
<1>8. c.exch = 0 /\ c.id = n
  BY <1>1, <1>3 DEF Loose
<1>9. /\ c.child = w.d.child /\ c.boot = w.d.boot /\ c.pending = w.d.pending
      /\ c.blocked = w.d.blocked /\ c.override = w.d.override
      /\ c.skip = w.d.skip /\ c.verified = w.d.verified
      /\ c.decision = w.d.decision
  BY <1>1, <1>3 DEF Loose
<1> HIDE DEF c, c1
<1>10. /\ x \in Worlds /\ x.d = c /\ x.disk = n /\ x.tgt = w.tgt
       /\ x.conn = w.conn /\ x.svc = w.svc
  BY <1>5, <1>3, WithD
<1> HIDE DEF x
<1>11. Open(x) = {}
  BY <1>10 DEF Good, Counted, Kept, Open
<1>12. Counted(x)
  BY <1>6, <1>8, <1>10, <1>11, FS_EmptySet DEF Counted
<1>13. Kept(x)
  BY <1>2, <1>6, <1>7, <1>8, <1>9, <1>10 DEF Kept, Nobody
<1>14. Tidy(w) => Tidy(x)
  BY <1>6, <1>9, <1>10 DEF Tidy
<1> QED BY <1>4, <1>6, <1>7, <1>9, <1>10, <1>11, <1>12, <1>13, <1>14 DEF Good

LEMMA CoordinateFacts ==
    ASSUME NEW w, Good(w), w.d.coord, Open(w) = {}, NEW e
    PROVE  LET x == Coordinate(w, e) IN Good(x) /\ Launches(w, x)
PROOF
<1> DEFINE b == Block(w, e, FALSE, FALSE)
           v == VisitAll(w, e)
           p == Block(v, e, FALSE, TRUE)
           l == LaunchIfReady(v, e)
<1>1. w \in Worlds /\ Good(w) /\ Steady(w, w)
  BY DEF Good, Steady, SameRest, SameRecord
<1>2. Good(b) /\ Steady(w, b)
  BY <1>1, BlockAfter
<1>3. Good(v) /\ Steady(w, v)
  BY VisitAllFacts
<1> HIDE DEF v
<1>4. Good(p) /\ Steady(w, p)
  BY <1>3, BlockAfter
<1>5. Good(l) /\ Launches(w, l)
  BY <1>3, LaunchIfReadyFacts, SteadyThenLaunches
<1>6. Coordinate(w, e) \in {b, p, l}
  BY DEF Coordinate, CheckProxy, v
<1> HIDE DEF b, p, l
<1> QED BY <1>1, <1>2, <1>4, <1>5, <1>6, SteadyLaunches DEF Good

\* What a request leads to with nobody in front: nothing, a refusal, or the
\* launch and its end.  An active launch is left alone.
LEMMA SpawnPendingFacts ==
    ASSUME NEW w, Good(w), w.d.child = Nobody,
           w.d.pending => ~w.d.coord /\ ~w.d.ready, NEW e
    PROVE  LET x == SpawnPending(w, e)
           IN  /\ Good(x)
               /\ x.d.boot = w.d.boot /\ x.tgt = w.tgt
               /\ x.d.child \in {Nobody, "game"}
               /\ x.d.ready => w.d.ready
               /\ w.d.act => /\ x.d.act /\ x.disk = w.disk /\ x.d.child = Nobody
                             /\ x.d.coord = w.d.coord /\ x.d.ready = w.d.ready
               /\ Tidy(w) => Tidy(x)
PROOF
<1> DEFINE x == SpawnPending(w, e)
           r == Refuse(w)
           c == Commit(w, e)
<1>1. CASE ~w.d.pending
  BY <1>1 DEF SpawnPending
<1>2. CASE w.d.pending
  <2>1. /\ Good(r) /\ r.d.child = Nobody /\ r.d.boot = w.d.boot
        /\ r.tgt = w.tgt /\ r.ids = w.ids /\ r.disk = w.disk /\ r.conn = w.conn
        /\ ~r.d.pending /\ ~r.d.coord /\ ~r.d.ready /\ r.d.act = w.d.act
        /\ r.d.started = w.d.started
        /\ r.d.coord = w.d.coord /\ r.d.ready = w.d.ready
        /\ (Tidy(w) => Tidy(r))
    BY <1>2, RefuseFacts
  <2> HIDE DEF r
  <2>2. CASE w.d.act \/ w.tgt = NoSource
    <3>1. x = r
      BY <1>2, <2>2 DEF SpawnPending, r
    <3> QED BY <1>2, <2>1, <3>1
  <2>3. CASE ~w.d.act /\ w.tgt # NoSource /\ e.persist # "ok"
    <3> DEFINE n == w.ids + 1
               i == IF e.persist = "left" THEN n ELSE r.disk
    <3>1. w.ids \in 0..MaxLaunches /\ w.ids < MaxLaunches /\ w.disk \in 0..MaxLaunches
      BY <1>2, <2>3, WorldFields DEF Good, Kept
    <3>2. n \in 0..MaxLaunches /\ i \in 0..MaxLaunches
      BY <2>1, <3>1, GameLaunchAssumption
    <3>3. x = [[r EXCEPT !.ids = n] EXCEPT !.disk = i]
      BY <1>2, <2>1, <2>3 DEF SpawnPending, r, Good, Worlds
    <3> HIDE DEF n, i, x
    <3>4. x \in Worlds /\ x.d = r.d /\ x.conn = r.conn /\ x.tgt = r.tgt
      BY <2>1, <3>2, <3>3 DEF Good, Worlds
    <3>5. Counted(x)
      BY <2>1, <3>4 DEF Good, Counted, Open
    <3>6. ~w.d.started
      BY <2>3 DEF Good, Kept
    <3>7. Kept(x)
      BY <2>1, <2>3, <3>4, <3>6 DEF Good, Kept, Nobody
    <3>8. Tidy(w) => Tidy(x)
      BY <2>1, <3>4 DEF Tidy
    <3> QED BY <2>1, <2>3, <3>4, <3>5, <3>7, <3>8 DEF Good, x
  <2>4. CASE ~w.d.act /\ w.tgt # NoSource /\ e.persist = "ok"
    <3>1. /\ Good(c) /\ c.d.coord /\ Open(c) = {}
          /\ c.d.child = Nobody /\ c.d.boot = w.d.boot /\ ~c.d.ready
          /\ c.tgt = w.tgt /\ (Tidy(w) => Tidy(c))
      BY <1>2, <2>4, CommitFacts
    <3>2. x = Coordinate(c, e)
      BY <1>2, <2>4 DEF SpawnPending
    <3> HIDE DEF c, x
    <3>3. Good(x) /\ Launches(c, x)
      BY <3>1, <3>2, CoordinateFacts
    <3>4. x.d.child \in {Nobody, "game"} /\ ~x.d.ready
      BY <3>1, <3>3 DEF Launches, Nobody
    <3>5. x.d.boot = w.d.boot /\ x.tgt = w.tgt /\ (Tidy(w) => Tidy(x))
      BY <3>1, <3>3 DEF Launches
    <3> QED BY <2>4, <3>3, <3>4, <3>5 DEF x
  <2> QED BY <2>2, <2>3, <2>4
<1> QED BY <1>1, <1>2

-----------------------------------------------------------------------------
(* What the requests and the connections change *)

\* A connection and its service are updated, no exchange opened or closed.
LEMMA TouchFacts ==
    ASSUME NEW w, Good(w), NEW s \in Service, NEW c \in Conns, NEW v \in Svcs,
           c.phase = w.conn[s].phase, c.phase # "none" => c.sub
    PROVE  LET x == [w EXCEPT !.svc[s] = v, !.conn[s] = c]
           IN  Good(x) /\ Steady(w, x) /\ x.d = w.d
PROOF
<1> DEFINE C == [w.conn EXCEPT ![s] = c]
           S == [w.svc EXCEPT ![s] = v]
           y == [w EXCEPT !.svc = S]
           x == [y EXCEPT !.conn = C]
<1>1. w \in Worlds
  BY DEF Good
<1>2. [w EXCEPT !.svc[s] = v, !.conn[s] = c] = x
  BY <1>1 DEF Worlds
<1>3. /\ C \in [Service -> Conns] /\ S \in [Service -> Svcs]
      /\ C[s] = c /\ \A t \in Service \ {s} : C[t] = w.conn[t]
  BY <1>1, WorldFields
<1> HIDE DEF C, S
<1>4. /\ y \in Worlds /\ y.d = w.d
      /\ y.disk = w.disk /\ y.ids = w.ids /\ y.tgt = w.tgt
  BY <1>1, <1>3 DEF Worlds
<1> HIDE DEF y
<1>5. /\ x \in Worlds /\ x.d = w.d /\ x.conn = C
      /\ x.disk = w.disk /\ x.ids = w.ids /\ x.tgt = w.tgt
  BY <1>3, <1>4, WithConn
<1> HIDE DEF x
<1>6. Open(x) = Open(w)
  BY <1>3, <1>5 DEF Open
<1>7. \A t \in Open(x) : x.conn[t].sub
  BY <1>3, <1>5, <1>6 DEF Good, Counted, Open
<1>8. SameRest(w, x) /\ SameRecord(w, x) /\ Counted(x)
  BY <1>5, <1>6, <1>7 DEF SameRest, SameRecord, Counted, Good
<1>9. Good(x) /\ Steady(w, x)
  BY <1>5, <1>8, SteadyRecord DEF Good, Kept
<1> QED BY <1>2, <1>5, <1>9

\* A decision is asked for or taken back.
LEMMA DecisionFacts ==
    ASSUME NEW w, Good(w), NEW b \in BOOLEAN
    PROVE  LET x == [w EXCEPT !.d.decision = b]
           IN  /\ Good(x) /\ Steady(w, x) /\ Open(x) = Open(w)
               /\ x.d.coord = w.d.coord
PROOF
<1> DEFINE c == [w.d EXCEPT !.decision = b]
           x == [w EXCEPT !.d = c]
<1>1. w \in Worlds /\ w.d \in Loose
  BY WorldFields DEF Good
<1>2. [w EXCEPT !.d.decision = b] = x
  BY <1>1 DEF Worlds
<1>3. c \in Loose
  BY <1>1 DEF Loose
<1>4. \A f \in {"pending", "coord", "ready", "exch", "blocked", "started", "gate",
                "act", "uncertain", "recovered", "id", "src", "child", "boot"} :
          c[f] = w.d[f]
  BY <1>1 DEF Loose
<1> HIDE DEF c
<1>5. /\ x \in Worlds /\ x.d = c /\ x.conn = w.conn
      /\ x.disk = w.disk /\ x.ids = w.ids /\ x.tgt = w.tgt
  BY <1>1, <1>3, WithD
<1> HIDE DEF x
<1>6. SameRest(w, x) /\ SameRecord(w, x) /\ Open(x) = Open(w)
  BY <1>4, <1>5 DEF SameRest, SameRecord, Open
<1>7. Counted(x)
  BY <1>4, <1>5, <1>6 DEF Good, Counted, Open
<1>8. Good(x) /\ Steady(w, x)
  BY <1>4, <1>5, <1>6, <1>7, SteadyRecord DEF Good, Kept
<1> QED BY <1>2, <1>4, <1>5, <1>6, <1>8

\* A launch is asked for, refused, or dismissed: the flags that only say what
\* was asked change with it.
LEMMA AskedFacts ==
    ASSUME NEW w, Good(w), NEW p \in BOOLEAN, NEW r \in BOOLEAN, NEW c \in Loose,
           c.pending = p, c.ready = r, r => w.d.ready,
           p /\ (~w.d.act \/ w.d.child = "game") => w.ids < MaxLaunches,
           \A f \in {"coord", "exch", "started", "gate", "act", "uncertain",
                     "recovered", "id", "src", "child", "boot"} : c[f] = w.d[f]
    PROVE  LET x == [w EXCEPT !.d = c]
           IN  /\ Good(x) /\ x.d = c /\ x.conn = w.conn
               /\ x.disk = w.disk /\ x.ids = w.ids /\ x.tgt = w.tgt
PROOF
<1> DEFINE x == [w EXCEPT !.d = c]
<1>1. /\ x \in Worlds /\ x.d = c /\ x.conn = w.conn
      /\ x.disk = w.disk /\ x.ids = w.ids /\ x.tgt = w.tgt
  BY WithD DEF Good
<1> HIDE DEF x
<1>2. Counted(x)
  BY <1>1 DEF Good, Counted, Open
<1>3. Kept(x)
  BY <1>1 DEF Good, Kept
<1> QED BY <1>1, <1>2, <1>3 DEF Good, x

\* Who is in front, and the phase of a boot resume.
Front(w, k, b) == [w EXCEPT !.d.child = k, !.d.boot = b]

LEMMA FrontFacts ==
    ASSUME NEW w, Good(w), NEW k \in {Nobody, "launcher", "game"},
           k = "game" => w.d.child = "game",
           NEW b \in {"no", "waiting", "launching"}
    PROVE  LET x == Front(w, k, b)
           IN  /\ Good(x) /\ x.d.child = k /\ x.d.boot = b
               /\ SameRecord(w, x) /\ x.d.coord = w.d.coord
               /\ x.ids = w.ids /\ x.tgt = w.tgt
               /\ Open(x) = Open(w)
               /\ Tidy(w) => Tidy(x)
PROOF
<1> DEFINE c == [w.d EXCEPT !.child = k, !.boot = b]
           x == [w EXCEPT !.d = c]
<1>1. w \in Worlds /\ w.d \in Loose
  BY WorldFields DEF Good
<1>2. Front(w, k, b) = x
  BY <1>1 DEF Front, Worlds
<1>3. c \in Loose
  BY <1>1 DEF Loose
<1>4. \A f \in {"pending", "coord", "ready", "exch", "blocked", "started", "gate",
                "act", "uncertain", "recovered", "id", "src"} : c[f] = w.d[f]
  BY <1>1 DEF Loose
<1>5. c.child = k /\ c.boot = b
  BY <1>1 DEF Loose
<1> HIDE DEF c
<1>6. /\ x \in Worlds /\ x.d = c /\ x.conn = w.conn
      /\ x.disk = w.disk /\ x.ids = w.ids /\ x.tgt = w.tgt
  BY <1>1, <1>3, WithD
<1> HIDE DEF x
<1>7. Counted(x) /\ Open(x) = Open(w)
  BY <1>4, <1>6 DEF Good, Counted, Open
<1>8. x.d.child = "game" => w.d.child = "game"
  BY <1>5, <1>6
<1>9. Kept(x)
  BY <1>4, <1>6, <1>8 DEF Good, Kept
<1>10. Tidy(w) => Tidy(x)
  BY <1>4, <1>6, <1>8 DEF Tidy
<1> QED BY <1>2, <1>4, <1>5, <1>6, <1>7, <1>9, <1>10 DEF Good, SameRecord

LEMMA LauncherFacts ==
    ASSUME NEW w, Good(w)
    PROVE  LET x == Launcher(w)
           IN  /\ Good(x) /\ x.d.child = "launcher" /\ x.d.boot = w.d.boot
               /\ SameRecord(w, x) /\ x.d.coord = w.d.coord
               /\ x.ids = w.ids /\ x.tgt = w.tgt
               /\ Tidy(w) => Tidy(x)
PROOF
<1>1. w \in Worlds /\ w.d \in Loose /\ w.d.boot \in {"no", "waiting", "launching"}
  BY WorldFields DEF Good, Loose
<1>2. Launcher(w) = Front(w, "launcher", w.d.boot)
  BY <1>1 DEF Launcher, Front, Worlds, Loose
<1> QED BY <1>1, <1>2, FrontFacts

\* Only what was asked for has changed.
SameLaunch(w, x) ==
    /\ x.d.coord = w.d.coord /\ x.d.started = w.d.started
    /\ x.d.act = w.d.act /\ x.d.uncertain = w.d.uncertain
    /\ x.d.recovered = w.d.recovered
    /\ x.d.child = w.d.child /\ x.d.boot = w.d.boot
    /\ x.disk = w.disk /\ x.ids = w.ids /\ x.tgt = w.tgt

LEMMA RequestFacts ==
    ASSUME NEW w, Good(w), w.ids < MaxLaunches
    PROVE  LET x == Request(w)
           IN  Good(x) /\ SameLaunch(w, x) /\ x.d.pending /\ ~x.d.blocked /\ ~x.d.ready
PROOF
<1> DEFINE c == [w.d EXCEPT
              !.blocked = FALSE, !.verified = FALSE, !.retry = FALSE,
              !.override = FALSE, !.skip = FALSE, !.ready = FALSE,
              !.decision = FALSE, !.pending = TRUE]
           x == [w EXCEPT !.d = c]
<1>1. w \in Worlds /\ w.d \in Loose
  BY WorldFields DEF Good
<1>2. Request(w) = x
  BY <1>1 DEF Request, Worlds
<1>3. c \in Loose
  BY <1>1, ZenonT(60) DEF Loose
<1>4. \A f \in {"coord", "exch", "started", "gate", "act", "uncertain",
                "recovered", "id", "src", "child", "boot"} : c[f] = w.d[f]
  BY <1>1 DEF Loose
<1>5. c.pending = TRUE /\ c.ready = FALSE /\ c.blocked = FALSE
  BY <1>1 DEF Loose
<1> HIDE DEF c
<1>6. /\ Good(x) /\ x.d = c /\ x.conn = w.conn
      /\ x.disk = w.disk /\ x.ids = w.ids /\ x.tgt = w.tgt
  BY <1>3, <1>4, <1>5, AskedFacts
<1> HIDE DEF x
<1> QED BY <1>2, <1>4, <1>5, <1>6 DEF SameLaunch

LEMMA DismissedFacts ==
    ASSUME NEW w, Good(w)
    PROVE  LET x == Dismissed(w)
           IN  /\ Good(x) /\ SameLaunch(w, x)
               /\ ~x.d.pending /\ ~x.d.blocked /\ x.d.ready = w.d.ready
PROOF
<1> DEFINE c == [w.d EXCEPT
              !.blocked = FALSE, !.override = FALSE, !.skip = FALSE,
              !.verified = FALSE, !.retry = FALSE, !.pending = FALSE]
           x == [w EXCEPT !.d = c]
<1>1. w \in Worlds /\ w.d \in Loose
  BY WorldFields DEF Good
<1>2. Dismissed(w) = x
  BY <1>1 DEF Dismissed, Worlds
<1>3. c \in Loose
  BY <1>1, ZenonT(60) DEF Loose
<1>4. \A f \in {"coord", "exch", "started", "gate", "act", "uncertain",
                "recovered", "id", "src", "child", "boot"} : c[f] = w.d[f]
  BY <1>1 DEF Loose
<1>5. c.pending = FALSE /\ c.blocked = FALSE
  BY <1>1 DEF Loose
<1>6. c.ready = w.d.ready
  BY <1>1 DEF Loose
<1>7. w.d.ready \in BOOLEAN
  BY <1>1 DEF Loose
<1> HIDE DEF c
<1>8. /\ Good(x) /\ x.d = c /\ x.conn = w.conn
      /\ x.disk = w.disk /\ x.ids = w.ids /\ x.tgt = w.tgt
  BY <1>3, <1>4, <1>5, <1>6, <1>7, AskedFacts
<1> HIDE DEF x
<1> QED BY <1>2, <1>4, <1>5, <1>6, <1>8 DEF SameLaunch

LEMMA CheckCancelledFacts ==
    ASSUME NEW w, Good(w), w.d.coord, NEW e
    PROVE  LET x == CheckCancelled(w, e) IN Good(x) /\ Steady(w, x) /\ ~x.d.coord
PROOF
<1> DEFINE a == Abort(w, e)
           c == [a.d EXCEPT !.blocked = FALSE]
           x == [a EXCEPT !.d = c]
<1>1. a \in Worlds /\ Ended(w, a)
  BY AbortFacts DEF Good
<1> HIDE DEF a
<1>2. CheckCancelled(w, e) = x
  BY <1>1 DEF CheckCancelled, a, Worlds
<1>3. a.d \in Loose
  BY <1>1, WorldFields
<1>4. c \in Loose
  BY <1>3 DEF Loose
<1>5. \A f \in {"pending", "coord", "ready", "exch", "started", "gate", "act",
                "uncertain", "child", "boot"} : c[f] = a.d[f]
  BY <1>3 DEF Loose
<1> HIDE DEF c
<1>6. x \in Worlds /\ x.d = c /\ x.conn = a.conn /\ x.ids = a.ids /\ x.tgt = a.tgt
  BY <1>1, <1>4, WithD
<1> HIDE DEF x
<1>7. Ended(w, x)
  BY <1>1, <1>5, <1>6 DEF Ended, SameRest, Open
<1> QED BY <1>2, <1>6, <1>7, EndedSteady DEF Ended

LEMMA StopCheckedFacts ==
    ASSUME NEW w, Good(w), NEW e, NEW s \in Service, Asking(w, s)
    PROVE  LET x == StopChecked(w, e, s)
           IN  /\ Good(x) /\ Launches(w, x)
               /\ ~StopVerified(w, e, s) => ~x.d.ready
PROOF
<1> DEFINE v == EndExchange(w, s)
           c == [v EXCEPT !.d.decision = FALSE]
           y == Stop(c, e, s)
           l == LaunchIfReady(y, e)
           b == Block(y, e, TRUE, FALSE)
<1>1. w \in Worlds
  BY DEF Good
<1>2. Good(v) /\ Steady(w, v) /\ w.d.coord
  BY EndExchangeFacts
<1>3. v.svc = w.svc
  BY <1>1 DEF EndExchange, Worlds
<1> HIDE DEF v
<1>4. Good(c) /\ Steady(v, c)
  BY <1>2, DecisionFacts
<1>5. c.svc = w.svc
  BY <1>2, <1>3 DEF Good, Worlds
<1> HIDE DEF c
<1>6. Good(y) /\ Steady(c, y)
  BY <1>4, StopFacts
<1>7. StopChecked(w, e, s) = IF StopVerified(w, e, s) THEN l ELSE b
  BY <1>5 DEF StopChecked, StopVerified, c, v, y
<1> HIDE DEF y
<1>8. Steady(w, y)
  BY <1>1, <1>2, <1>4, <1>6, SteadyThen DEF Good
<1>9. Good(l) /\ Launches(w, l)
  BY <1>6, <1>8, LaunchIfReadyFacts, SteadyThenLaunches
<1>10. Good(b) /\ Steady(w, b)
  BY <1>2, <1>6, <1>8, BlockAfter
<1>11. ~b.d.ready
  BY <1>6, BlockFacts DEF Good, Ended
<1> HIDE DEF l, b
<1>12. Launches(w, b)
  BY <1>1, <1>10, SteadyLaunches DEF Good
<1> QED BY <1>7, <1>9, <1>10, <1>11, <1>12

LEMMA SteadyItself ==
    ASSUME NEW w, Good(w)
    PROVE  Steady(w, w) /\ Launches(w, w)
PROOF
<1>1. Steady(w, w)
  BY DEF Steady, SameRest, SameRecord
<1> QED BY <1>1, SteadyLaunches DEF Good

LEMMA NotifyStatusFacts ==
    ASSUME NEW w, Good(w), NEW e, NEW s \in Service, Asking(w, s),
           NEW kind \in Kinds, NEW id \in w.svc[s].told
    PROVE  LET x == NotifyStatus(w, e, s, kind, id) IN Good(x) /\ Steady(w, x)
PROOF
<1> DEFINE x == NotifyStatus(w, e, s, kind, id)
<1>1. w \in Worlds
  BY DEF Good
<1>2. CASE kind = "ready"
  <2> DEFINE v == EndExchange(w, s)
             a == [v.svc[s] EXCEPT !.said = id]
             c == v.conn[s]
  <2>1. Good(v) /\ Steady(w, v)
    BY EndExchangeFacts
  <2>2. v.svc = w.svc
    BY <1>1 DEF EndExchange, Worlds
  <2>3. v \in Worlds
    BY <2>1 DEF Good
  <2>4. x = [v EXCEPT !.svc[s].said = id]
    BY <1>2 DEF NotifyStatus
  <2> HIDE DEF v, x
  <2>5. a \in Svcs
    <3>1. w.svc[s] \in Svcs
      BY <1>1, WorldFields
    <3>2. id \in 0..MaxLaunches
      BY <3>1, GameLaunchAssumption DEF Svcs
    <3> QED BY <2>2, <3>1, <3>2 DEF Svcs
  <2>6. c \in Conns /\ (c.phase # "none" => c.sub)
    BY <2>1, <2>3, WorldFields DEF Good, Counted, Open
  <2>7. x = [v EXCEPT !.svc[s] = a, !.conn[s] = c]
    BY <2>3, <2>4 DEF Worlds
  <2> HIDE DEF a, c
  <2>8. c.phase = v.conn[s].phase
    BY DEF c
  <2>9. Good(x) /\ Steady(v, x)
    BY <2>1, <2>5, <2>6, <2>7, <2>8, TouchFacts
  <2> QED BY <1>1, <2>1, <2>9, SteadyThen DEF x
<1>3. CASE kind \in {"stop", "malformed", "error"}
  BY <1>3, DropFacts DEF NotifyStatus
<1>4. CASE kind \in {"waiting", "stalled"}
  <2> DEFINE p == [w EXCEPT !.conn[s].phase = "waiting"]
             c == Cancel(w, e, s)
  <2>1. Good(p) /\ Steady(w, p)
    <3>1. "waiting" \in Phases \ {"none"}
      BY DEF Phases
    <3> QED BY <3>1, PhaseFacts
  <2>2. Good(c) /\ Steady(w, c)
    BY CancelFacts
  <2>3. x \in {w, c, p}
    BY <1>4 DEF NotifyStatus
  <2> HIDE DEF p, c, x
  <2> QED BY <2>1, <2>2, <2>3, SteadyItself DEF x
<1> QED BY <1>2, <1>3, <1>4 DEF Kinds

LEMMA CheckStatusFacts ==
    ASSUME NEW w, Good(w), NEW e, NEW s \in Service, Asking(w, s), NEW kind
    PROVE  LET x == CheckStatus(w, e, s, kind) IN Good(x) /\ Launches(w, x)
PROOF
<1> DEFINE x == CheckStatus(w, e, s, kind)
           moved == kind \in {"waiting", "stalled"} /\ w.conn[s].phase # "ack"
<1>1. w \in Worlds
  BY DEF Good
<1>2. CASE kind = "stop"
  BY <1>2, StopCheckedFacts DEF CheckStatus
<1>3. CASE kind # "stop" /\ moved
  <2> DEFINE p == IF w.conn[s].phase = "awaiting" THEN "decision" ELSE w.conn[s].phase
             b == p = "decision"
             v == [w EXCEPT !.conn[s].phase = p]
             y == [v EXCEPT !.d.decision = b]
  <2>1. p \in Phases \ {"none"}
    <3>1. w.conn[s].phase \in Phases
      BY <1>1, WorldFields DEF Conns
    <3> QED BY <3>1 DEF Asking, Phases
  <2>2. x = y
    BY <1>3 DEF CheckStatus
  <2> HIDE DEF p
  <2>3. Good(v) /\ Steady(w, v)
    BY <2>1, PhaseFacts
  <2> HIDE DEF v
  <2>4. Good(y) /\ Steady(v, y)
    BY <2>3, DecisionFacts
  <2> HIDE DEF y, x
  <2>5. Steady(w, y)
    BY <1>1, <2>3, <2>4, SteadyThen
  <2> QED BY <1>1, <2>2, <2>4, <2>5, SteadyLaunches DEF Good, x
<1>4. CASE kind # "stop" /\ ~moved
  <2>1. x = Drop(w, e, s)
    BY <1>4 DEF CheckStatus
  <2> HIDE DEF x
  <2> QED BY <1>1, <2>1, DropFacts, SteadyLaunches DEF Good, x
<1> QED BY <1>2, <1>3, <1>4

LEMMA AnsweredFacts ==
    ASSUME NEW w, Good(w), NEW e, NEW s \in Service,
           NEW kind \in Kinds, NEW id \in w.svc[s].told
    PROVE  LET x == Answered(w, e, s, kind, id) IN Good(x) /\ Launches(w, x)
PROOF
<1> DEFINE x == Answered(w, e, s, kind, id)
           n == NotifyStatus(w, e, s, kind, id)
           c == CheckStatus(w, e, s, kind)
           f == Send(w, e, s)
           r == Drop(w, e, s)
<1>1. /\ Good(f) /\ Launches(w, f)
      /\ Good(r) /\ Launches(w, r)
      /\ Good(w) /\ Launches(w, w)
  BY SendFacts, DropFacts, SteadyLaunches, SteadyItself DEF Good
<1>2. Asking(w, s) => /\ Good(n) /\ Launches(w, n)
                      /\ Good(c) /\ Launches(w, c)
  BY NotifyStatusFacts, CheckStatusFacts, SteadyLaunches DEF Good
<1>3. \/ x \in {f, r, w}
      \/ Asking(w, s) /\ x \in {n, c}
  BY DEF Answered
<1> HIDE DEF x, n, c, f, r
<1>4. Good(x) /\ Launches(w, x)
  BY <1>1, <1>2, <1>3
<1> QED BY <1>4 DEF x

LEMMA ExpiredFacts ==
    ASSUME NEW w, Good(w), w.d.coord, NEW e, NEW s \in Service, Asking(w, s)
    PROVE  LET x == Expired(w, e, s) IN Good(x) /\ Steady(w, x)
PROOF
<1> DEFINE x == Expired(w, e, s)
           b == Block(w, e, TRUE, FALSE)
           c == Cancel(w, e, s)
           r == Drop(w, e, s)
<1>1. Good(b) /\ Steady(w, b)
  BY SteadyItself, BlockAfter
<1>2. Good(c) /\ Steady(w, c) /\ Good(r) /\ Steady(w, r)
  BY CancelFacts, DropFacts
<1>3. Good(w) /\ Steady(w, w)
  BY SteadyItself
<1>4. x \in {b, c, r, w}
  BY DEF Expired
<1> HIDE DEF x, b, c, r
<1>5. Good(x) /\ Steady(w, x)
  BY <1>1, <1>2, <1>3, <1>4
<1> QED BY <1>5 DEF x

LEMMA FinishFacts ==
    ASSUME NEW w, Good(w), w.d.child = Nobody, ~w.d.coord, ~w.d.ready, NEW e,
           w.d.pending => w.ids < MaxLaunches
    PROVE  LET x == Finish(w, e)
           IN  /\ Good(x) /\ x.d.child = Nobody /\ x.d.boot = w.d.boot
               /\ x.tgt = w.tgt /\ ~x.d.coord /\ ~x.d.ready
               /\ Tidy(w) => Tidy(x)
PROOF
<1> DEFINE c == [w.d EXCEPT !.started = FALSE]
           v == [w EXCEPT !.d = c]
           o == ClearRecord(v, e)
           b == Broadcast(o, e)
           x == Finish(w, e)
<1>1. w \in Worlds /\ w.d \in Loose
  BY WorldFields DEF Good
<1>2. CASE ~w.d.act \/ ~w.d.started
  BY <1>2 DEF Finish
<1>3. CASE w.d.act /\ w.d.started
  <2>1. c \in Loose
    BY <1>1 DEF Loose
  <2>2. ~c.started
    BY <1>1 DEF Loose
  <2>3. \A f \in {"pending", "coord", "ready", "exch", "blocked", "child", "boot"} :
          c[f] = w.d[f]
    BY <1>1 DEF Loose
  <2>4. x = IF e.clear = "ok" THEN b ELSE o
    <3>1. [w EXCEPT !.d.started = FALSE] = v
      BY <1>1 DEF Worlds
    <3> HIDE DEF v
    <3> QED BY <1>3, <3>1 DEF Finish
  <2> HIDE DEF c
  <2>5. /\ v \in Worlds /\ v.d = c /\ v.conn = w.conn
        /\ v.ids = w.ids /\ v.tgt = w.tgt
    BY <1>1, <2>1, WithD
  <2> HIDE DEF v
  <2>6. /\ o \in Worlds /\ o.conn = w.conn /\ o.ids = w.ids /\ o.tgt = w.tgt
        /\ o.d.child = c.child /\ o.d.boot = c.boot
        /\ o.d.exch = c.exch /\ o.d.coord = c.coord
        /\ o.d.ready = c.ready /\ o.d.pending = c.pending
        /\ o.d.started = c.started /\ o.d.blocked = c.blocked
        /\ (o.d.act => o.d.uncertain /\ o.d.gate)
    BY <2>5, ClearFacts
  <2> HIDE DEF o
  <2>7. Open(w) = {} /\ w.d.exch = 0
    BY FS_EmptySet DEF Good, Counted
  <2>8. Open(o) = {}
    BY <2>6, <2>7 DEF Open
  <2>9. /\ b \in Worlds /\ b.d = o.d /\ Open(b) = {}
        /\ b.ids = o.ids /\ b.tgt = o.tgt
    BY <2>6, <2>8, BroadcastFacts
  <2> HIDE DEF b, x
  <2>10. /\ x \in Worlds /\ x.d = o.d /\ Open(x) = {}
         /\ x.ids = w.ids /\ x.tgt = w.tgt
    BY <2>4, <2>6, <2>8, <2>9
  <2>11. Counted(x)
    BY <2>3, <2>6, <2>7, <2>10, FS_EmptySet DEF Counted
  <2>12. Kept(x)
    BY <2>2, <2>3, <2>6, <2>10 DEF Kept, Nobody
  <2>13. Tidy(w) => Tidy(x)
    BY <2>2, <2>3, <2>6, <2>10 DEF Tidy
  <2> QED BY <2>3, <2>6, <2>10, <2>11, <2>12, <2>13 DEF Good, x
<1> QED BY <1>2, <1>3

\* With nobody in front, what follows is a launcher, unless a launch goes on.
LEMMA OrLauncherFacts ==
    ASSUME NEW w, Good(w), w.d.child \in {Nobody, "game"}
    PROVE  LET x == OrLauncher(w)
           IN  /\ Good(x) /\ SameRecord(w, x) /\ x.d.coord = w.d.coord
               /\ x.d.boot = w.d.boot /\ x.ids = w.ids /\ x.tgt = w.tgt
               /\ x.d.child = "game" <=> w.d.child = "game"
               /\ Tidy(w) => Tidy(x)
PROOF
<1> DEFINE x == OrLauncher(w)
           l == Launcher(w)
<1>1. CASE NotLaunched(w)
  <2>1. x = l /\ w.d.child = Nobody
    BY <1>1 DEF OrLauncher, NotLaunched
  <2>2. /\ Good(l) /\ l.d.child = "launcher" /\ l.d.boot = w.d.boot
        /\ SameRecord(w, l) /\ l.d.coord = w.d.coord
        /\ l.ids = w.ids /\ l.tgt = w.tgt
        /\ (Tidy(w) => Tidy(l))
    BY LauncherFacts
  <2> HIDE DEF l, x
  <2> QED BY <2>1, <2>2 DEF x, Nobody
<1>2. CASE ~NotLaunched(w)
  <2>1. x = w
    BY <1>2 DEF OrLauncher
  <2> HIDE DEF x
  <2> QED BY <2>1 DEF x, SameRecord
<1> QED BY <1>1, <1>2

LEMMA AfterLauncherFacts ==
    ASSUME NEW w, Good(w), w.d.child = Nobody, NEW e
    PROVE  LET x == AfterLauncher(w, e)
           IN  /\ Good(x) /\ x.d.boot = w.d.boot /\ x.tgt = w.tgt
               /\ w.d.act /\ ~w.d.coord /\ ~w.d.ready =>
                     /\ x.disk = w.disk /\ x.d.act /\ ~x.d.coord /\ ~x.d.ready
                     /\ x.d.child # "game"
               /\ Tidy(w) => Tidy(x) /\ ~x.d.ready
PROOF
<1> DEFINE x == AfterLauncher(w, e)
<1>1. w \in Worlds /\ w.d \in Loose
  BY WorldFields DEF Good
<1>2. CASE w.d.pending /\ w.d.ready
  <2> DEFINE c == [w.d EXCEPT !.ready = FALSE]
             v == [w EXCEPT !.d = c]
             a == Abort(v, e)
             l == Launcher(a)
             play == [v.d EXCEPT !.child = "game", !.pending = FALSE,
                                 !.override = FALSE, !.started = TRUE]
             p == [v EXCEPT !.d = play]
  <2>1. c \in Loose
    BY <1>1 DEF Loose
  <2>2. ~c.ready
    BY <1>1 DEF Loose
  <2>3. \A f \in {"pending", "coord", "exch", "blocked", "started", "gate", "act",
                  "uncertain", "recovered", "id", "src", "child", "boot"} :
           c[f] = w.d[f]
    BY <1>1 DEF Loose
  <2>4. [w EXCEPT !.d.ready = FALSE] = v
    BY <1>1 DEF Worlds
  <2> HIDE DEF c
  <2>5. /\ v \in Worlds /\ v.d = c /\ v.conn = w.conn
        /\ v.disk = w.disk /\ v.ids = w.ids /\ v.tgt = w.tgt
    BY <1>1, <2>1, WithD
  <2>6. x \in {l, StartWriter(v)}
    <3> HIDE DEF v
    <3> QED BY <1>2, <2>4 DEF AfterLauncher
  <2> HIDE DEF v
  <2>7. /\ Good(l) /\ Tidy(l) /\ l.d.boot = w.d.boot /\ l.tgt = w.tgt /\ ~l.d.ready
    <3>1. a \in Worlds /\ Ended(v, a)
      BY <2>5, AbortFacts
    <3> HIDE DEF a
    <3>2. v.d.child # "game"
      BY <2>3, <2>5 DEF Nobody
    <3>3. Good(a) /\ Tidy(a)
      BY <3>1, <3>2, EndedGood
    <3>4. a.d.boot = w.d.boot /\ a.tgt = w.tgt /\ ~a.d.ready
      BY <2>3, <2>5, <3>1 DEF Ended, SameRest
    <3> QED BY <3>3, <3>4, LauncherFacts DEF SameRecord
  <2>8. StartWriter(v) = p
    BY <2>5 DEF StartWriter, Worlds
  <2>9. /\ Good(p) /\ p.d.boot = w.d.boot /\ p.tgt = w.tgt /\ ~p.d.ready
        /\ (Tidy(w) => Tidy(p))
    <3>1. play \in Loose
      BY <2>1, <2>5, ZenonT(60) DEF Loose
    <3>2. ~play.pending
      BY <2>1, <2>5 DEF Loose
    <3>3. play.started
      BY <2>1, <2>5 DEF Loose
    <3>4. play.child = "game"
      BY <2>1, <2>5 DEF Loose
    <3>5. \A f \in {"ready", "coord", "exch", "blocked", "gate", "act",
                    "uncertain", "recovered", "id", "src", "boot"} :
            play[f] = c[f]
      BY <2>1, <2>5 DEF Loose
    <3> HIDE DEF play
    <3>6. /\ p \in Worlds /\ p.d = play /\ p.conn = w.conn
          /\ p.disk = w.disk /\ p.ids = w.ids /\ p.tgt = w.tgt
      BY <2>5, <3>1, WithD
    <3> HIDE DEF p
    <3>7. Counted(p)
      BY <2>3, <3>5, <3>6 DEF Good, Counted, Open
    <3>8. w.d.act /\ w.disk # 0 /\ ~w.d.coord
      BY <1>2 DEF Good, Kept
    <3>9. Kept(p)
      BY <2>2, <2>3, <3>2, <3>3, <3>4, <3>5, <3>6, <3>8 DEF Good, Kept
    <3>10. Tidy(w) => Tidy(p)
      BY <1>2, <2>2, <2>3, <3>2, <3>3, <3>5, <3>6, <3>8 DEF Tidy
    <3> QED BY <2>2, <2>3, <3>5, <3>6, <3>7, <3>9, <3>10 DEF Good
  <2> HIDE DEF l, p, x
  <2> QED BY <1>2, <2>6, <2>7, <2>8, <2>9 DEF x
<1>3. CASE w.d.pending /\ ~w.d.ready /\ w.d.coord
  <2>1. x = w
    BY <1>3 DEF AfterLauncher
  <2> HIDE DEF x
  <2> QED BY <1>3, <2>1 DEF x
<1>4. CASE w.d.pending => ~w.d.ready /\ ~w.d.coord
  <2> DEFINE y == SpawnPending(w, e)
             z == OrLauncher(y)
  <2>1. /\ Good(y) /\ y.d.boot = w.d.boot /\ y.tgt = w.tgt
        /\ y.d.child \in {Nobody, "game"}
        /\ (y.d.ready => w.d.ready)
        /\ (w.d.act => /\ y.d.act /\ y.disk = w.disk /\ y.d.child = Nobody
                       /\ y.d.coord = w.d.coord /\ y.d.ready = w.d.ready)
        /\ (Tidy(w) => Tidy(y))
    BY <1>4, SpawnPendingFacts
  <2>2. x = z
    BY <1>4 DEF AfterLauncher
  <2> HIDE DEF y
  <2>3. /\ Good(z) /\ SameRecord(y, z) /\ z.d.coord = y.d.coord
        /\ z.d.boot = y.d.boot /\ z.tgt = y.tgt
        /\ (z.d.child = "game" <=> y.d.child = "game")
        /\ (Tidy(y) => Tidy(z))
    BY <2>1, OrLauncherFacts
  <2> HIDE DEF z, x
  <2>4. Tidy(w) => ~w.d.ready
    BY <1>4 DEF Tidy
  <2> QED BY <2>1, <2>2, <2>3, <2>4 DEF x, SameRecord, Nobody
<1> QED BY <1>2, <1>3, <1>4

-----------------------------------------------------------------------------
(* The invariant of the system *)

Leaders  == {"none", "live", "zombie"}
Screens  == {"gone", "starting", "browsing", "check", "blocked", "proxy",
             "notice", "leaving", "sending"}

\* The launcher is told the truth, in time.
Calm == "race" \notin Features /\ "reply" \notin Faults

\* The launcher and the daemon.
UiInv ==
    /\ ui # "gone" => d.child = "launcher"
    /\ d.boot # "no" => d.child = Nobody
    /\ d.boot = "waiting" => ~d.act /\ ids < MaxLaunches
    /\ ~up => d = IdleDaemon

\* The writer and the daemon.
GameInv ==
    /\ game.leader = "zombie" => d.child = "game"
    /\ d.child = "game" => game.leader # "none"
    /\ Writing(game) => disk # 0 /\ (up => d.act /\ ~d.coord /\ ~d.ready)

\* What a launcher that is told the truth adds.
CalmInv ==
    /\ Tidy(World)
    /\ d.ready => ui = "leaving"
    /\ ui \in {"blocked", "proxy"} => ~d.coord /\ ~d.ready

IInv ==
    /\ Good(World)
    /\ game \in [leader : Leaders, kids : BOOLEAN]
    /\ ui \in Screens /\ up \in BOOLEAN /\ consent \in BOOLEAN
    /\ UiInv /\ GameInv
    /\ Calm => CalmInv

Owed(w) ==
    w.disk # 0 /\ w.d.act /\ ~w.d.coord /\ ~w.d.ready

-----------------------------------------------------------------------------
(* What the daemon's steps have in common *)

LEMMA BecomeFacts ==
    ASSUME NEW w, Good(w), Become(w), target' \in Sources \cup {NoSource}
    PROVE  /\ Good(World')
           /\ Tidy(w) => Tidy(World')
           /\ d'.boot = IF w.d.child = "game" THEN "no" ELSE w.d.boot
           /\ d'.child = w.d.child /\ d'.act = w.d.act
           /\ d'.coord = w.d.coord /\ d'.ready = w.d.ready
           /\ disk' = w.disk /\ ids' = w.ids
PROOF
<1> DEFINE b == IF w.d.child = "game" THEN "no" ELSE w.d.boot
           c == [w.d EXCEPT !.boot = b]
           x == World'
<1>1. w \in Worlds /\ w.d \in Loose
  BY WorldFields DEF Good
<1>2. x = [d |-> d', conn |-> w.conn, svc |-> w.svc, disk |-> w.disk,
           ids |-> w.ids, tgt |-> target']
  BY DEF World, Become
<1>3. d' = c
  BY DEF Become
<1>4. c \in Loose
  BY <1>1 DEF Loose
<1>5. \A f \in {"pending", "coord", "ready", "exch", "blocked", "started", "gate", "act",
                "uncertain", "recovered", "id", "src", "child"} : c[f] = w.d[f]
  BY <1>1 DEF Loose
<1>6. c.boot = b
  BY <1>1 DEF Loose
<1> HIDE DEF c, b, x
<1>7. x \in Worlds
  BY <1>1, <1>2, <1>3, <1>4, WorldFields DEF Worlds
<1>8. /\ x.d = c /\ x.conn = w.conn /\ x.disk = w.disk
      /\ x.ids = w.ids /\ x.tgt = target'
  BY <1>2, <1>3
<1>9. Counted(x)
  BY <1>5, <1>8 DEF Good, Counted, Open
<1>10. Kept(x)
  BY <1>5, <1>8 DEF Good, Kept
<1>11. Tidy(w) => Tidy(x)
  BY <1>5, <1>8 DEF Tidy
<1>12. disk' = w.disk /\ ids' = w.ids
  BY DEF Become
<1> QED BY <1>3, <1>5, <1>6, <1>7, <1>9, <1>10, <1>11, <1>12 DEF Good, x, b

\* A step of the daemon's that becomes w.
LEMMA StepKeeps ==
    ASSUME IInv, up, up' = up, NEW w, Good(w), Become(w),
           target' \in Sources \cup {NoSource}, ui' \in Screens, consent' \in BOOLEAN,
           ui' # "gone" => w.d.child = "launcher",
           w.d.boot # "no" => w.d.child \in {Nobody, "game"},
           w.d.boot = "waiting" /\ w.d.child # "game" => ~w.d.act /\ w.ids < MaxLaunches,
           d.child = "game" => w.d.child = "game",
           Writing(game) => Owed(w) /\ (w.d.child = "game" => d.child = "game"),
           Calm => /\ Tidy(w)
                   /\ w.d.ready => ui' = "leaving"
                   /\ ui' \in {"blocked", "proxy"} => ~w.d.coord /\ ~w.d.ready
    PROVE  IInv' /\ (WriterStarts => ~Writing(game))
PROOF
<1>1. /\ Good(World')
      /\ Tidy(w) => Tidy(World')
      /\ d'.boot = IF w.d.child = "game" THEN "no" ELSE w.d.boot
      /\ d'.child = w.d.child /\ d'.act = w.d.act
      /\ d'.coord = w.d.coord /\ d'.ready = w.d.ready
      /\ disk' = w.disk /\ ids' = w.ids
  BY BecomeFacts
<1>2. game' = IF w.d.child = "game" /\ d.child # "game"
              THEN [leader |-> "live", kids |-> FALSE] ELSE game
  BY DEF Become
<1>3. game \in [leader : Leaders, kids : BOOLEAN] /\ GameInv /\ UiInv
  BY DEF IInv
<1>4. w.d.child = "game" => Owed(w)
  BY DEF Good, Kept, Owed
<1>5. UiInv'
  BY <1>1 DEF UiInv, Nobody
<1>6. GameInv'
  <2>1. CASE w.d.child = "game" /\ d.child # "game"
    <3>1. game' = [leader |-> "live", kids |-> FALSE]
      BY <1>2, <2>1
    <3> QED BY <1>1, <1>4, <2>1, <3>1 DEF GameInv, Owed
  <2>2. CASE ~(w.d.child = "game" /\ d.child # "game")
    <3>1. game' = game
      BY <1>2, <2>2
    <3> QED BY <1>1, <1>3, <2>2, <3>1 DEF GameInv, Owed, Writing
  <2> QED BY <2>1, <2>2
<1>7. game' \in [leader : Leaders, kids : BOOLEAN]
  BY <1>2, <1>3 DEF Leaders
<1>8. Calm => CalmInv'
  BY <1>1 DEF CalmInv
<1>9. WriterStarts => ~Writing(game)
  BY <1>1 DEF WriterStarts
<1>10. ui' \in Screens /\ up' \in BOOLEAN /\ consent' \in BOOLEAN
  BY DEF IInv
<1> QED BY <1>1, <1>5, <1>6, <1>7, <1>8, <1>9, <1>10 DEF IInv, Calm

\* A step keeps the invariant, and starts no writer beside another one.
Safe == IInv' /\ (WriterStarts => ~Writing(game))

LEMMA WorldIs ==
    ASSUME IInv
    PROVE  /\ World.d = d /\ World.conn = conn /\ World.svc = svc
           /\ World.disk = disk /\ World.ids = ids /\ World.tgt = target
           /\ Good(World) /\ World \in Worlds
           /\ target \in Sources \cup {NoSource}
           /\ d \in Loose
PROOF
<1>1. /\ World.d = d /\ World.conn = conn /\ World.svc = svc
      /\ World.disk = disk /\ World.ids = ids /\ World.tgt = target
  BY DEF World
<1>2. Good(World) /\ World \in Worlds
  BY DEF IInv, Good
<1> QED BY <1>1, <1>2, WorldFields

\* What a function that may start a writer owes to one that is there, and to
\* a boot resume.
LEMMA LaunchesOwes ==
    ASSUME IInv, up, NEW w, Good(w), Launches(World, w)
    PROVE  /\ w.d.boot # "no" => w.d.child \in {Nobody, "game"}
           /\ w.d.boot = "waiting" /\ w.d.child # "game" => ~w.d.act /\ w.ids < MaxLaunches
           /\ d.child = "game" => w.d.child = "game"
           /\ Writing(game) => Owed(w) /\ (w.d.child = "game" => d.child = "game")
           /\ d.child = "launcher" => w.d.child = "launcher"
PROOF
<1>1. World.d = d /\ World.disk = disk /\ World.ids = ids
  BY WorldIs
<1>2. ~d.act => ~d.coord
  BY <1>1 DEF IInv, Good, Kept
<1>3. d.child = "game" => ~d.coord
  BY <1>1 DEF IInv, Good, Kept
<1>4. UiInv /\ GameInv
  BY DEF IInv
<1>5. ~d.coord => /\ w.d.act = d.act /\ w.disk = disk /\ w.d.ready = d.ready
                  /\ w.d.child = d.child
  BY <1>1 DEF Launches, SameRecord
<1>6. /\ w.d.boot = d.boot /\ w.ids = ids
      /\ (w.d.coord => d.coord)
      /\ (w.d.child # d.child => d.child = Nobody /\ w.d.child = "game")
  BY <1>1 DEF Launches
<1>7. w.d.boot # "no" => w.d.child \in {Nobody, "game"}
  BY <1>4, <1>6 DEF UiInv
<1>8. w.d.boot = "waiting" /\ w.d.child # "game" => ~w.d.act /\ w.ids < MaxLaunches
  BY <1>2, <1>4, <1>5, <1>6 DEF UiInv
<1>9. d.child = "game" => w.d.child = "game"
  BY <1>3, <1>5
<1>10. Writing(game) => Owed(w) /\ (w.d.child = "game" => d.child = "game")
  BY <1>4, <1>5, <1>6 DEF GameInv, Owed
<1>11. d.child = "launcher" => w.d.child = "launcher"
  BY <1>6 DEF Nobody
<1> QED BY <1>7, <1>8, <1>9, <1>10, <1>11

LEMMA LaunchesStep ==
    ASSUME IInv, NEW s, NEW w, Good(w), Launches(World, w), StepOn(s, w)
    PROVE  Safe
PROOF
<1>1. World.d = d /\ target \in Sources \cup {NoSource}
  BY WorldIs
<1>2. /\ up /\ up' = up /\ target' = target /\ Become(w)
      /\ ui' \in Shown(w) /\ consent' = (consent /\ ~Spent(w))
  BY DEF StepOn
<1>3. consent' \in BOOLEAN
  BY <1>2 DEF IInv
<1>4. /\ w.d.boot # "no" => w.d.child \in {Nobody, "game"}
      /\ w.d.boot = "waiting" /\ w.d.child # "game" => ~w.d.act /\ w.ids < MaxLaunches
      /\ d.child = "game" => w.d.child = "game"
      /\ Writing(game) => Owed(w) /\ (w.d.child = "game" => d.child = "game")
  BY <1>2, LaunchesOwes
<1>5. ui' \in Screens /\ (ui' # "gone" => w.d.child = "launcher")
  <2>1. ui \in Screens /\ UiInv
    BY DEF IInv
  <2> QED BY <1>2, <2>1 DEF Shown, Screens, UiInv
<1>6. ASSUME Calm
      PROVE  /\ Tidy(w)
             /\ w.d.ready => ui' = "leaving"
             /\ ui' \in {"blocked", "proxy"} => ~w.d.coord /\ ~w.d.ready
  <2>1. CalmInv /\ UiInv
    BY <1>6 DEF IInv
  <2>2. Tidy(w) /\ (w.d.coord => d.coord) /\ (w.d.ready /\ ~d.ready => d.child = "launcher")
    BY <1>1, <2>1 DEF CalmInv, Launches
  <2>3. d.child = "launcher" => w.d.child = "launcher"
    BY <1>2, LaunchesOwes
  <2>4. CASE w.d.ready /\ ~d.ready
    BY <1>2, <1>6, <2>2, <2>3, <2>4 DEF Shown, Calm
  <2>5. CASE w.d.ready /\ d.ready
    <3>1. ui = "leaving" /\ d.child = "launcher"
      BY <2>1, <2>5 DEF CalmInv, UiInv
    <3>2. ui' = ui
      BY <1>2, <2>3, <2>5, <3>1 DEF Shown
    <3> QED BY <2>2, <3>1, <3>2
  <2>6. CASE ~w.d.ready
    <3>1. ui' \in {"gone", "starting", ui}
      BY <1>2, <2>6 DEF Shown
    <3> QED BY <2>1, <2>2, <2>6, <3>1 DEF CalmInv
  <2> QED BY <2>2, <2>4, <2>5, <2>6
<1> QED BY <1>1, <1>2, <1>3, <1>4, <1>5, <1>6, StepKeeps DEF Safe

LEMMA SteadyStep ==
    ASSUME IInv, NEW s, NEW w, Good(w), Steady(World, w), StepOn(s, w)
    PROVE  Safe
PROOF BY WorldIs, SteadyLaunches, LaunchesStep DEF Good

\* A launcher that asked is answered.
LEMMA AnswerStep ==
    ASSUME IInv, NEW w, Good(w), NEW next \in {"browsing", "leaving"}, Answer(w, next),
           consent' \in BOOLEAN, ui # "gone",
           \/ Launches(World, w)
           \/ ~d.act /\ ~w.d.act /\ w.d.child = d.child /\ w.d.boot = d.boot,
           Calm => Tidy(w) /\ (w.d.ready => next = "leaving")
    PROVE  Safe
PROOF
<1>1. World.d = d /\ World.disk = disk /\ target \in Sources \cup {NoSource}
  BY WorldIs
<1>2. /\ up /\ up' = up /\ target' = target /\ Become(w)
      /\ ui' \in {next} \cup (IF "reply" \in Faults THEN {"browsing"} ELSE {})
  BY DEF Answer
<1>3. d.child = "launcher" /\ d.boot = "no"
  BY DEF IInv, UiInv, Nobody
<1>4. w.d.child = "launcher" /\ w.d.boot = "no"
  BY <1>1, <1>2, <1>3, LaunchesOwes DEF Launches
<1>5. Writing(game) => Owed(w)
  <2>1. Writing(game) => d.act
    BY <1>2 DEF IInv, GameInv
  <2> QED BY <1>2, <2>1, LaunchesOwes
<1>6. ui' \in {"browsing", "leaving"} /\ (Calm => ui' = next)
  BY <1>2 DEF Calm
<1> QED BY <1>1, <1>2, <1>3, <1>4, <1>5, <1>6, StepKeeps DEF Safe, Screens

-----------------------------------------------------------------------------
(* The launcher's requests *)

LEMMA LaunchGameSafe ==
    ASSUME IInv, NEW t \in Sources, LaunchGame(t)
    PROVE  Safe
PROOF
<1> DEFINE w == Request(World)
<1>1. /\ World.d = d /\ World.disk = disk /\ World.ids = ids /\ Good(World)
  BY WorldIs
<1>2. /\ up /\ up' = up /\ ui \in {"browsing", "sending"} /\ ids < MaxLaunches
      /\ Become(w) /\ ui' = "leaving" /\ target' = t /\ consent' = FALSE
  BY DEF LaunchGame
<1>3. Good(w) /\ SameLaunch(World, w) /\ w.d.pending /\ ~w.d.blocked /\ ~w.d.ready
  BY <1>1, <1>2, RequestFacts
<1> HIDE DEF w
<1>4. d.child = "launcher" /\ d.boot = "no"
  BY <1>2 DEF IInv, UiInv, Nobody
<1>5. w.d.child = "launcher" /\ w.d.boot = "no"
  BY <1>1, <1>3, <1>4 DEF SameLaunch
<1>6. Writing(game) => Owed(w)
  BY <1>1, <1>2, <1>3 DEF IInv, GameInv, Owed, SameLaunch
<1>7. Calm => Tidy(w)
  <2>1. Calm => Tidy(World) /\ ~d.ready
    BY <1>2 DEF IInv, CalmInv
  <2> QED BY <1>1, <1>3, <1>5, <2>1 DEF Tidy, SameLaunch
<1> QED BY <1>2, <1>3, <1>4, <1>5, <1>6, <1>7, StepKeeps DEF Safe, Screens

\* A step that leaves the daemon alone.
LEMMA IdleSafe ==
    ASSUME IInv, UNCHANGED <<world, up, consent>>,
           target' \in Sources \cup {NoSource},
           ui' \in Screens, ui' # "gone" => d.child = "launcher",
           game' \in [leader : Leaders, kids : BOOLEAN],
           Writing(game') => Writing(game),
           game'.leader = "zombie" => d.child = "game",
           d.child = "game" => game'.leader # "none",
           Calm => /\ d.ready => ui' = "leaving"
                   /\ ui' \in {"blocked", "proxy"} => ~d.coord /\ ~d.ready
    PROVE  Safe
PROOF
<1>1. d' = d /\ conn' = conn /\ svc' = svc /\ disk' = disk /\ ids' = ids
  BY DEF world
<1>2. /\ World.d = d /\ World.disk = disk /\ World.ids = ids /\ World.conn = conn
      /\ World.svc = svc /\ Good(World) /\ World \in Worlds
  BY WorldIs
<1> DEFINE x == World'
<1>3. x = [d |-> d, conn |-> conn, svc |-> svc, disk |-> disk, ids |-> ids, tgt |-> target']
  BY <1>1 DEF World
<1> HIDE DEF x
<1>4. /\ x.d = d /\ x.conn = conn /\ x.svc = svc /\ x.disk = disk
      /\ x.ids = ids /\ x.tgt = target'
  BY <1>3
<1>5. x \in Worlds
  BY <1>2, <1>3, WorldFields DEF Worlds
<1>6. Counted(x) /\ Kept(x)
  BY <1>2, <1>4 DEF Good, Counted, Kept, Open
<1>7. Tidy(World) => Tidy(x)
  BY <1>2, <1>4 DEF Tidy
<1>8. Good(World')
  BY <1>5, <1>6 DEF Good, x
<1>9. UiInv' /\ GameInv'
  BY <1>1 DEF IInv, UiInv, GameInv
<1>10. Calm => CalmInv'
  BY <1>1, <1>7 DEF IInv, CalmInv, x
<1>11. ~WriterStarts
  BY <1>1 DEF WriterStarts
<1> QED BY <1>8, <1>9, <1>10, <1>11 DEF IInv, Calm, Safe

LEMMA AskStatusSafe ==
    ASSUME IInv, AskStatus
    PROVE  Safe
PROOF
<1>1. /\ ui = "starting" /\ UNCHANGED <<world, target, game, up, consent>>
  BY DEF AskStatus
<1>2. ui' \in {"check", "notice", "proxy", "blocked", "browsing"}
  BY DEF AskStatus
<1>3. d.child = "launcher" /\ (Calm => ~d.ready)
  BY <1>1 DEF IInv, UiInv, CalmInv
<1>4. ASSUME Calm, ui' \in {"blocked", "proxy"}
      PROVE  ~d.coord
  <2>1. d.blocked
    BY <1>4 DEF AskStatus
  <2>2. Tidy(World) /\ World.d = d
    BY <1>4, WorldIs DEF IInv, CalmInv
  <2> QED BY <2>1, <2>2 DEF Tidy
<1>5. /\ game \in [leader : Leaders, kids : BOOLEAN]
      /\ game.leader = "zombie" => d.child = "game"
      /\ d.child = "game" => game.leader # "none"
  BY DEF IInv, GameInv
<1> QED BY <1>1, <1>2, <1>3, <1>4, <1>5, WorldIs, IdleSafe DEF Screens

LEMMA FirstCheckFacts ==
    ASSUME IInv, Checks # {}
    PROVE  /\ FirstCheck \in Service /\ Asking(World, FirstCheck)
           /\ d.coord
PROOF
<1>1. Checks \subseteq Service
  BY DEF Checks
<1>2. Checks \subseteq Nat
  BY <1>1, GameLaunchAssumption DEF Service
<1>3. \E s \in Checks : \A t \in Checks : s <= t
  BY <1>2, LeastNatural
<1>4. FirstCheck \in Checks
  BY <1>3 DEF FirstCheck
<1>5. World.conn = conn /\ World.d = d /\ Good(World)
  BY WorldIs
<1>6. conn[FirstCheck].phase # "none"
  BY <1>4 DEF Checks, Checking
<1>7. Asking(World, FirstCheck)
  BY <1>5, <1>6 DEF Asking
<1> QED BY <1>1, <1>4, <1>5, <1>7, EndExchangeFacts

\* The launcher asks in vain.
LEMMA BrowsingSafe ==
    ASSUME IInv, Answer(World, "browsing"), consent' \in BOOLEAN,
           ui \notin {"gone", "leaving"}
    PROVE  Safe
PROOF
<1>1. Good(World) /\ Launches(World, World)
  BY WorldIs, SteadyItself
<1>2. Calm => Tidy(World) /\ ~World.d.ready
  BY WorldIs DEF IInv, CalmInv
<1> QED BY <1>1, <1>2, AnswerStep

LEMMA CheckWaitSafe ==
    ASSUME IInv, CheckWait
    PROVE  Safe
PROOF
<1> DEFINE s == FirstCheck
           v == [World EXCEPT !.conn[s].phase = "waiting"]
           w == [v EXCEPT !.d.decision = FALSE]
<1>1. ui = "check" /\ consent' \in BOOLEAN
  BY DEF CheckWait, IInv
<1>2. CASE Answer(World, "browsing")
  BY <1>1, <1>2, BrowsingSafe
<1>3. CASE Checks # {} /\ Answer(w, "leaving")
  <2>1. s \in Service /\ Asking(World, s) /\ Good(World) /\ World \in Worlds
    BY <1>3, FirstCheckFacts, WorldIs
  <2> HIDE DEF s
  <2>2. "waiting" \in Phases \ {"none"}
    BY DEF Phases
  <2>3. Good(v) /\ Steady(World, v)
    BY <2>1, <2>2, PhaseFacts
  <2> HIDE DEF v
  <2>4. Good(w) /\ Steady(v, w)
    BY <2>3, DecisionFacts
  <2> HIDE DEF w
  <2>5. Steady(World, w)
    BY <2>1, <2>3, <2>4, SteadyThen
  <2>6. Launches(World, w)
    BY <2>1, <2>4, <2>5, SteadyLaunches DEF Good
  <2>7. Calm => Tidy(w)
    BY <2>6 DEF IInv, CalmInv, Launches
  <2> QED BY <1>1, <1>3, <2>4, <2>6, <2>7, AnswerStep
<1> QED BY <1>2, <1>3 DEF CheckWait

LEMMA CheckPlayAnywaySafe ==
    ASSUME IInv, CheckPlayAnyway
    PROVE  Safe
PROOF
<1>1. ui = "check" /\ (Calm => Tidy(World) /\ ~d.ready) /\ consent \in BOOLEAN
  BY DEF CheckPlayAnyway, IInv, CalmInv
<1>2. CASE ~d.coord \/ Checks = {}
  <2>1. Answer(World, "browsing") /\ consent' = consent
    BY <1>2 DEF CheckPlayAnyway
  <2> QED BY <1>1, <2>1, BrowsingSafe
<1>3. CASE d.coord /\ Checks # {}
  <2> DEFINE s == FirstCheck
             v(e) == Cancel(World, e, s)
             w(e) == IF s \in e.full THEN v(e) ELSE StopChecked(v(e), e, s)
             accepted(e) == s \notin e.full /\ StopVerified(World, e, s)
  <2>1. PICK e \in Events :
          /\ Answer(w(e), IF accepted(e) THEN "leaving" ELSE "browsing")
          /\ consent' = (consent /\ ~Spent(w(e)))
    BY <1>3 DEF CheckPlayAnyway
  <2>2. /\ s \in Service /\ Asking(World, s) /\ Good(World) /\ World \in Worlds
        /\ World.d = d
    BY <1>3, FirstCheckFacts, WorldIs
  <2> HIDE DEF s
  <2>3. /\ Good(v(e)) /\ Steady(World, v(e))
        /\ s \notin e.full => Asking(v(e), s)
    BY <2>2, CancelFacts
  <2>4. s \notin e.full => v(e).svc = World.svc
    BY <2>2 DEF Cancel, Send, Worlds
  <2> HIDE DEF v
  <2>5. Good(w(e)) /\ Launches(World, w(e)) /\ (w(e).d.ready => d.ready \/ accepted(e))
    <3>1. CASE s \in e.full
      <4>1. v(e).d.ready => d.ready
        BY <2>2, <2>3 DEF Steady, SameRecord, Ended
      <4> QED BY <2>2, <2>3, <3>1, <4>1, SteadyLaunches DEF Good
    <3>2. CASE s \notin e.full
      <4> DEFINE x == StopChecked(v(e), e, s)
      <4>1. /\ Good(x) /\ Launches(v(e), x)
            /\ (~StopVerified(v(e), e, s) => ~x.d.ready)
        BY <2>2, <2>3, <3>2, StopCheckedFacts
      <4>2. w(e) = x
        BY <3>2
      <4> HIDE DEF x, w
      <4>3. Launches(World, x)
        BY <2>2, <2>3, <4>1, SteadyThenLaunches
      <4>4. StopVerified(v(e), e, s) => accepted(e)
        BY <2>4, <3>2 DEF StopVerified
      <4> QED BY <4>1, <4>2, <4>3, <4>4
    <3> QED BY <3>1, <3>2
  <2> DEFINE next == IF accepted(e) THEN "leaving" ELSE "browsing"
  <2>6. /\ next \in {"browsing", "leaving"} /\ Answer(w(e), next)
        /\ accepted(e) => next = "leaving"
    BY <2>1
  <2> HIDE DEF w, accepted, next
  <2>7. consent' \in BOOLEAN
    BY <1>1, <2>1
  <2>8. Calm => Tidy(w(e)) /\ (w(e).d.ready => next = "leaving")
    BY <1>1, <2>5, <2>6 DEF Launches
  <2> QED BY <1>1, <2>5, <2>6, <2>7, <2>8, AnswerStep
<1> QED BY <1>2, <1>3

LEMMA CheckCancelSafe ==
    ASSUME IInv, CheckCancel
    PROVE  Safe
PROOF
<1>1. ui = "check" /\ consent' \in BOOLEAN /\ (Calm => Tidy(World) /\ ~d.ready)
  BY DEF CheckCancel, IInv, CalmInv
<1>2. PICK e \in Events :
        Answer(IF d.coord /\ Checks # {} THEN CheckCancelled(World, e) ELSE World,
               "browsing")
  BY DEF CheckCancel
<1>3. CASE ~(d.coord /\ Checks # {})
  BY <1>1, <1>2, <1>3, BrowsingSafe
<1>4. CASE d.coord /\ Checks # {}
  <2> DEFINE w == CheckCancelled(World, e)
  <2>1. Answer(w, "browsing")
    BY <1>2, <1>4
  <2>2. Good(World) /\ World \in Worlds /\ World.d = d
    BY WorldIs
  <2>3. Good(w) /\ Steady(World, w)
    BY <1>4, <2>2, CheckCancelledFacts
  <2> HIDE DEF w
  <2>4. Launches(World, w) /\ (w.d.ready => d.ready)
    BY <2>2, <2>3, SteadyLaunches DEF Good, Steady, SameRecord, Ended
  <2>5. Calm => Tidy(w) /\ (w.d.ready => "browsing" = "leaving")
    BY <1>1, <2>4 DEF Launches
  <2> QED BY <1>1, <2>1, <2>3, <2>4, <2>5, AnswerStep
<1> QED BY <1>3, <1>4

\* Before a launch there is nothing but the request.
LEMMA NoLaunch ==
    ASSUME IInv, ~d.act
    PROVE  /\ ~d.coord /\ ~d.ready /\ ~d.started /\ d.child # "game"
           /\ up => ~Writing(game)
PROOF
<1>1. World.d = d /\ Kept(World)
  BY WorldIs DEF Good
<1>2. up => ~Writing(game)
  BY DEF IInv, GameInv
<1> QED BY <1>1, <1>2 DEF Kept

\* Play Anyway and Retry ask for the launch again.
LEMMA AskAgainSafe ==
    ASSUME IInv, ids < MaxLaunches, ~d.act, ui # "gone", consent' \in BOOLEAN,
           NEW c \in Loose, c.pending = TRUE, c.blocked = FALSE,
           \A f \in {"ready", "coord", "exch", "started", "gate", "act", "uncertain",
                     "recovered", "id", "src", "child", "boot"} : c[f] = d[f],
           NEW w, w = [World EXCEPT !.d = c], Answer(w, "leaving")
    PROVE  Safe
PROOF
<1>1. Good(World) /\ World.d = d /\ World.ids = ids
  BY WorldIs
<1>2. c.ready \in BOOLEAN
  BY DEF Loose
<1> DEFINE x == [World EXCEPT !.d = c]
<1>3. Good(x) /\ x.d = c
  <2>1. \A f \in {"coord", "exch", "started", "gate", "act", "uncertain",
                  "recovered", "id", "src", "child", "boot"} : c[f] = World.d[f]
    BY <1>1
  <2>2. c.ready => World.d.ready
    BY <1>1
  <2> QED BY <1>1, <1>2, <2>1, <2>2, AskedFacts, ZenonT(60)
<1> HIDE DEF x
<1>4. Good(w) /\ w.d = c
  BY <1>3 DEF x
<1>5. ~d.coord /\ ~d.ready /\ ~d.started /\ d.child # "game"
  BY NoLaunch
<1>6. Tidy(w)
  BY <1>4, <1>5 DEF Tidy
<1>7. ~w.d.act /\ w.d.child = d.child /\ w.d.boot = d.boot
  BY <1>4
<1> QED BY <1>4, <1>6, <1>7, AnswerStep

LEMMA LaunchOverrideSafe ==
    ASSUME IInv, LaunchOverride
    PROVE  Safe
PROOF
<1>1. ui \in {"blocked", "proxy"} /\ ids < MaxLaunches
  BY DEF LaunchOverride
<1>2. CASE d.blocked /\ ~d.act
  <2> DEFINE k == d.verified
             n == ~d.verified
             c == [d EXCEPT !.pending = TRUE, !.skip = k,
                            !.override = n, !.blocked = FALSE,
                            !.verified = FALSE, !.retry = FALSE]
             w == [World EXCEPT !.d = c]
  <2>1. World \in Worlds /\ World.d = d /\ d \in Loose
    BY WorldIs
  <2>2. Answer(w, "leaving") /\ consent' = TRUE
    <3>1. [World EXCEPT !.d.pending = TRUE, !.d.skip = d.verified,
                        !.d.override = ~d.verified, !.d.blocked = FALSE,
                        !.d.verified = FALSE, !.d.retry = FALSE] = w
      BY <2>1 DEF Worlds
    <3> HIDE DEF w
    <3> QED BY <1>2, <3>1 DEF LaunchOverride
  <2>3. d \in Loose
    BY <2>1
  <2>4. k \in BOOLEAN /\ n \in BOOLEAN
    BY <2>3 DEF Loose
  <2> HIDE DEF k, n
  <2>5. c \in Loose
    BY <2>3, <2>4 DEF Loose
  <2>6. c.pending = TRUE /\ c.blocked = FALSE
    BY <2>1 DEF Loose
  <2>7. \A f \in {"ready", "coord", "exch", "started", "gate", "act", "uncertain",
                  "recovered", "id", "src", "child", "boot"} : c[f] = d[f]
    BY <2>1 DEF Loose
  <2> HIDE DEF c
  <2> QED BY <1>1, <1>2, <2>2, <2>5, <2>6, <2>7, AskAgainSafe
<1>3. CASE ~(d.blocked /\ ~d.act)
  <2>1. Answer(World, "browsing") /\ consent' = consent
    BY <1>3 DEF LaunchOverride
  <2> QED BY <1>1, <2>1, BrowsingSafe DEF IInv
<1> QED BY <1>2, <1>3

LEMMA LaunchRetrySafe ==
    ASSUME IInv, LaunchRetry
    PROVE  Safe
PROOF
<1> DEFINE asks == d.blocked /\ ~d.decision /\ ~d.verified /\ d.retry /\ ~d.act
<1>1. ui = "proxy" /\ ids < MaxLaunches /\ consent' \in BOOLEAN
  BY DEF LaunchRetry, IInv
<1>2. CASE asks
  <2> DEFINE c == [d EXCEPT !.pending = TRUE, !.skip = FALSE,
                            !.override = FALSE, !.blocked = FALSE, !.retry = FALSE]
             w == [World EXCEPT !.d = c]
  <2>1. World \in Worlds /\ World.d = d /\ d \in Loose
    BY WorldIs
  <2>2. Answer(w, "leaving")
    <3>1. [World EXCEPT !.d.pending = TRUE, !.d.skip = FALSE,
                        !.d.override = FALSE, !.d.blocked = FALSE,
                        !.d.retry = FALSE] = w
      BY <2>1 DEF Worlds
    <3> HIDE DEF w
    <3> QED BY <1>2, <3>1 DEF LaunchRetry
  <2>3. d \in Loose
    BY <2>1
  <2>4. c \in Loose
    BY <2>3 DEF Loose
  <2>5. c.pending = TRUE /\ c.blocked = FALSE
    BY <2>1 DEF Loose
  <2>6. \A f \in {"ready", "coord", "exch", "started", "gate", "act", "uncertain",
                  "recovered", "id", "src", "child", "boot"} : c[f] = d[f]
    BY <2>1 DEF Loose
  <2> HIDE DEF c
  <2> QED BY <1>1, <1>2, <2>2, <2>4, <2>5, <2>6, AskAgainSafe
<1>3. CASE ~asks
  <2>1. Answer(World, "browsing")
    BY <1>3 DEF LaunchRetry
  <2> QED BY <1>1, <2>1, BrowsingSafe
<1> QED BY <1>2, <1>3

LEMMA DismissSafe ==
    ASSUME IInv, Dismiss
    PROVE  Safe
PROOF
<1> DEFINE w == Dismissed(World)
<1>1. ui \in {"blocked", "proxy"} /\ Answer(w, "browsing") /\ consent' = FALSE
  BY DEF Dismiss
<1>2. /\ Good(World) /\ World.d = d /\ World.disk = disk /\ World.ids = ids
      /\ World.tgt = target /\ d \in Loose
  BY WorldIs
<1>3. /\ Good(w) /\ SameLaunch(World, w)
      /\ ~w.d.pending /\ ~w.d.blocked /\ w.d.ready = d.ready
  BY <1>2, DismissedFacts
<1> HIDE DEF w
<1>4. /\ up /\ up' = up /\ target' = target /\ Become(w)
      /\ ui' = "browsing"
  BY <1>1 DEF Answer
<1>5. d.child = "launcher" /\ d.boot = "no" /\ GameInv
  BY <1>1 DEF IInv, UiInv, Nobody
<1>6. Writing(game) => Owed(w)
  BY <1>2, <1>3, <1>4, <1>5 DEF GameInv, Owed, SameLaunch
<1>7. Calm => Tidy(w) /\ ~w.d.ready
  <2>1. Calm => Tidy(World) /\ ~d.ready /\ ~d.coord
    BY <1>1 DEF IInv, CalmInv
  <2> QED BY <1>2, <1>3, <1>5, <2>1 DEF Tidy, SameLaunch
<1>8. w.d.child = "launcher" /\ w.d.boot = "no"
  BY <1>2, <1>3, <1>5 DEF SameLaunch
<1>9. target \in Sources \cup {NoSource} /\ consent' \in BOOLEAN
  BY <1>1, WorldIs
<1> QED BY <1>3, <1>4, <1>5, <1>6, <1>7, <1>8, <1>9, StepKeeps DEF Safe, Screens

LEMMA AcknowledgeSafe ==
    ASSUME IInv, Acknowledge
    PROVE  Safe
PROOF
<1>1. /\ ui = "notice" /\ ui' = "browsing"
      /\ UNCHANGED <<world, target, game, up, consent>>
  BY DEF Acknowledge
<1>2. /\ d.child = "launcher" /\ (Calm => ~d.ready)
      /\ game \in [leader : Leaders, kids : BOOLEAN]
      /\ (game.leader = "zombie" => d.child = "game")
      /\ (d.child = "game" => game.leader # "none")
  BY <1>1 DEF IInv, UiInv, CalmInv, GameInv
<1> QED BY <1>1, <1>2, WorldIs, IdleSafe DEF Screens

LEMMA StartNowSafe ==
    ASSUME IInv, StartNow
    PROVE  Safe
PROOF
<1> DEFINE Body(g, e) ==
               [s \in 0..NServices |->
                  IF s = 0 THEN World
                  ELSE IF g[s - 1].d.coord /\ g[s - 1].conn[s].phase = "waiting"
                  THEN Cancel(g[s - 1], e, s) ELSE g[s - 1]]
           F(e) == CHOOSE g : g = Body(g, e)
<1>1. PICK e \in Events : Step(F(e)[NServices])
  BY DEF StartNow
<1> DEFINE f == F(e)
<1>2. NServices \in Nat /\ Good(World) /\ World \in Worlds
  BY WorldIs, GameLaunchAssumption
<1>3. f = [s \in 0..NServices |->
             IF s = 0 THEN World ELSE Turned(f[s - 1], e, s, FALSE)]
  <2>1. PICK g : Turns(g, NServices, World, e, FALSE)
    BY <1>2, TurnsExist
  <2>2. g = Body(g, e)
    BY <2>1 DEF Turns, Turned
  <2>3. f = Body(f, e)
    BY <2>2
  <2> HIDE DEF f, F
  <2> QED BY <2>3 DEF Turned
<1>4. Step(f[NServices])
  BY <1>1
<1> HIDE DEF f
<1> DEFINE Fine(n) == Good(f[n]) /\ Steady(World, f[n])
           P == {n \in Nat : n <= NServices => Fine(n)}
<1>5. 0 \in P
  BY <1>2, <1>3, SteadyItself
<1>6. ASSUME NEW n \in Nat, n \in P
      PROVE  n + 1 \in P
  <2> SUFFICES ASSUME n + 1 <= NServices
               PROVE  Fine(n + 1)
    OBVIOUS
  <2>1. n + 1 \in Service /\ n + 1 \in 0..NServices /\ n + 1 # 0 /\ (n + 1) - 1 = n
    BY <1>2 DEF Service
  <2>2. f[n + 1] = Turned(f[n], e, n + 1, FALSE)
    BY <1>3, <2>1
  <2>3. Fine(n)
    BY <1>2, <1>6
  <2> DEFINE y == Cancel(f[n], e, n + 1)
  <2>4. \/ f[n + 1] = f[n]
        \/ f[n + 1] = y /\ f[n].conn[n + 1].phase = "waiting"
    BY <2>2 DEF Turned
  <2>5. ASSUME f[n].conn[n + 1].phase = "waiting"
        PROVE  Good(y) /\ Steady(f[n], y)
    BY <2>1, <2>3, <2>5, CancelFacts DEF Asking
  <2> HIDE DEF y
  <2>6. ASSUME f[n].conn[n + 1].phase = "waiting"
        PROVE  Steady(World, y)
    BY <1>2, <2>3, <2>5, <2>6, SteadyThen
  <2> QED BY <2>3, <2>4, <2>5, <2>6
<1> HIDE DEF P
<1>7. NServices \in P
  BY <1>2, <1>5, <1>6, SetInduction
<1> QED BY <1>2, <1>4, <1>7, SteadyStep DEF P, Step

-----------------------------------------------------------------------------
(* The children and the daemon's own steps *)

LEMMA FrontChild ==
    ASSUME NEW w, Good(w), NEW k
    PROVE  [w EXCEPT !.d.child = k] = Front(w, k, w.d.boot)
PROOF
<1>1. w \in Worlds /\ w.d \in Loose
  BY WorldFields DEF Good
<1> DEFINE c == [w.d EXCEPT !.child = k]
           b == [w.d EXCEPT !.child = k, !.boot = w.d.boot]
<1>2. c = b
  BY <1>1 DEF Loose
<1>3. [w EXCEPT !.d.child = k] = [w EXCEPT !.d = c]
  BY <1>1 DEF Worlds
<1>4. Front(w, k, w.d.boot) = [w EXCEPT !.d = b]
  BY <1>1 DEF Front, Worlds
<1> HIDE DEF c, b
<1> QED BY <1>2, <1>3, <1>4

LEMMA FrontBoot ==
    ASSUME NEW w, Good(w), NEW b
    PROVE  /\ [w EXCEPT !.d.boot = b] = Front(w, w.d.child, b)
           /\ [w EXCEPT !.d = [w.d EXCEPT !.boot = b]] = Front(w, w.d.child, b)
PROOF
<1>1. w \in Worlds /\ w.d \in Loose
  BY WorldFields DEF Good
<1> DEFINE c == [w.d EXCEPT !.boot = b]
           k == [w.d EXCEPT !.child = w.d.child, !.boot = b]
<1>2. c = k
  BY <1>1 DEF Loose
<1>3. [w EXCEPT !.d.boot = b] = [w EXCEPT !.d = c]
  BY <1>1 DEF Worlds
<1>4. Front(w, w.d.child, b) = [w EXCEPT !.d = k]
  BY <1>1 DEF Front, Worlds
<1>5. [w EXCEPT !.d = [w.d EXCEPT !.boot = b]] = [w EXCEPT !.d = c]
  OBVIOUS
<1> HIDE DEF c, k
<1> QED BY <1>2, <1>3, <1>4, <1>5

LEMMA LauncherExitsSafe ==
    ASSUME IInv, LauncherExits
    PROVE  Safe
PROOF
<1> DEFINE w0 == [World EXCEPT !.d.child = Nobody]
           w(e) == AfterLauncher(w0, e)
<1>1. d.child = "launcher" /\ up /\ up' = up /\ target' = target
  BY DEF LauncherExits
<1>2. PICK e \in LaunchEvents :
        /\ Become(w(e))
        /\ ui' = IF w(e).d.child = "launcher" THEN "starting" ELSE "gone"
        /\ consent' = (consent /\ ~Spent(w(e)))
  BY DEF LauncherExits
<1>3. /\ World.d = d /\ World.disk = disk /\ Good(World)
      /\ target \in Sources \cup {NoSource} /\ d \in Loose
  BY WorldIs
<1>4. d.boot \in {"no", "waiting", "launching"}
  BY <1>3 DEF Loose
<1>5. /\ Good(w0) /\ w0.d.child = Nobody /\ w0.d.boot = d.boot
      /\ SameRecord(World, w0) /\ w0.d.coord = d.coord
      /\ Tidy(World) => Tidy(w0)
  <2>1. Nobody \in {Nobody, "launcher", "game"} /\ Nobody # "game"
    BY DEF Nobody
  <2>2. w0 = Front(World, Nobody, d.boot)
    BY <1>3, FrontChild
  <2> HIDE DEF w0
  <2> QED BY <1>3, <1>4, <2>1, <2>2, FrontFacts
<1> HIDE DEF w0
<1>6. /\ Good(w(e)) /\ w(e).d.boot = d.boot
      /\ w0.d.act /\ ~w0.d.coord /\ ~w0.d.ready =>
            /\ w(e).disk = w0.disk /\ w(e).d.act /\ ~w(e).d.coord /\ ~w(e).d.ready
            /\ w(e).d.child # "game"
      /\ Tidy(w0) => Tidy(w(e)) /\ ~w(e).d.ready
  BY <1>5, AfterLauncherFacts
<1> HIDE DEF w
<1>7. d.boot = "no" /\ GameInv /\ consent \in BOOLEAN
  BY <1>1 DEF IInv, UiInv, Nobody
<1>8. Writing(game) => Owed(w(e)) /\ w(e).d.child # "game"
  BY <1>1, <1>3, <1>5, <1>6, <1>7 DEF GameInv, Owed, SameRecord
<1>9. Calm => Tidy(w(e)) /\ ~w(e).d.ready
  <2>1. Calm => Tidy(World)
    BY DEF IInv, CalmInv
  <2> QED BY <1>5, <1>6, <2>1
<1>10. ui' \in {"starting", "gone"} /\ (ui' # "gone" => w(e).d.child = "launcher")
       /\ consent' \in BOOLEAN
  BY <1>2, <1>7
<1> QED BY <1>1, <1>2, <1>3, <1>6, <1>7, <1>8, <1>9, <1>10, StepKeeps DEF Safe, Screens

LEMMA WriterForksSafe ==
    ASSUME IInv, WriterForks
    PROVE  Safe
PROOF
<1>1. /\ game.leader = "live" /\ game' = [game EXCEPT !.kids = TRUE]
      /\ UNCHANGED <<world, target, ui, up, consent>>
  BY DEF WriterForks
<1>2. game \in [leader : Leaders, kids : BOOLEAN] /\ GameInv /\ UiInv /\ ui \in Screens
  BY DEF IInv
<1>3. /\ game' \in [leader : Leaders, kids : BOOLEAN]
      /\ game'.leader = "live"
  BY <1>1, <1>2
<1>4. Calm => CalmInv
  BY DEF IInv
<1> QED BY <1>1, <1>2, <1>3, <1>4, WorldIs, IdleSafe DEF Writing, UiInv, CalmInv

LEMMA LeaderExitsSafe ==
    ASSUME IInv, LeaderExits
    PROVE  Safe
PROOF
<1> DEFINE next == IF up /\ d.child = "game" THEN "zombie" ELSE "none"
<1>1. /\ game.leader = "live" /\ game' = [game EXCEPT !.leader = next]
      /\ UNCHANGED <<world, target, ui, up, consent>>
  BY DEF LeaderExits
<1>2. game \in [leader : Leaders, kids : BOOLEAN] /\ GameInv /\ UiInv /\ ui \in Screens
  BY DEF IInv
<1>3. d.child = "game" => up
  BY <1>2 DEF UiInv, IdleDaemon, Nobody
<1>4. next \in {"zombie", "none"} /\ (next = "zombie" <=> d.child = "game")
  BY <1>3
<1> HIDE DEF next
<1>5. /\ game' \in [leader : Leaders, kids : BOOLEAN]
      /\ game'.leader = next /\ game'.kids = game.kids
  BY <1>1, <1>2, <1>4 DEF Leaders
<1>6. Writing(game') => Writing(game)
  BY <1>1, <1>5 DEF Writing
<1>7. Calm => CalmInv
  BY DEF IInv
<1> QED BY <1>1, <1>2, <1>4, <1>5, <1>6, <1>7, WorldIs, IdleSafe DEF UiInv, CalmInv

LEMMA DescendantsExitSafe ==
    ASSUME IInv, DescendantsExit
    PROVE  Safe
PROOF
<1>1. /\ game.kids /\ game' = [game EXCEPT !.kids = FALSE]
      /\ UNCHANGED <<world, target, ui, up, consent>>
  BY DEF DescendantsExit
<1>2. game \in [leader : Leaders, kids : BOOLEAN] /\ GameInv /\ UiInv /\ ui \in Screens
  BY DEF IInv
<1>3. /\ game' \in [leader : Leaders, kids : BOOLEAN]
      /\ game'.leader = game.leader
  BY <1>1, <1>2
<1>4. Writing(game)
  BY <1>1 DEF Writing
<1>5. Calm => CalmInv
  BY DEF IInv
<1> QED BY <1>1, <1>2, <1>3, <1>4, <1>5, WorldIs, IdleSafe DEF UiInv, GameInv, CalmInv

LEMMA SourceMovesSafe ==
    ASSUME IInv, NEW t \in Sources \cup {NoSource}, SourceMoves(t)
    PROVE  Safe
PROOF
<1>1. target' = t /\ UNCHANGED <<world, game, ui, up, consent>>
  BY DEF SourceMoves
<1>2. /\ game \in [leader : Leaders, kids : BOOLEAN] /\ GameInv /\ UiInv
      /\ ui \in Screens /\ (Calm => CalmInv)
  BY DEF IInv
<1> QED BY <1>1, <1>2, IdleSafe DEF UiInv, GameInv, CalmInv

LEMMA ReapWriterSafe ==
    ASSUME IInv, ReapWriter
    PROVE  Safe
PROOF
<1> DEFINE w0 == [World EXCEPT !.d.child = Nobody]
           over(e) == Finish(w0, e)
           spawned(e) == SpawnPending(over(e), e)
           next(e) == OrLauncher(spawned(e))
<1>1. /\ up /\ up' = up /\ d.child = "game" /\ target' = target
      /\ game.leader = "zombie" /\ ~game.kids
  BY DEF ReapWriter, GroupAbsent
<1>2. PICK e \in LaunchEvents :
        /\ d' = [next(e).d EXCEPT !.boot = "no"]
        /\ conn' = next(e).conn /\ svc' = next(e).svc
        /\ disk' = next(e).disk /\ ids' = next(e).ids
        /\ game' = IF next(e).d.child = "game"
                   THEN [leader |-> "live", kids |-> FALSE]
                   ELSE [game EXCEPT !.leader = "none"]
        /\ ui' = IF next(e).d.child = "launcher" THEN "starting" ELSE "gone"
        /\ consent' = (consent /\ next(e).d.child # "game")
  BY DEF ReapWriter
<1>3. /\ World.d = d /\ World.disk = disk /\ World.ids = ids /\ World.tgt = target
      /\ Good(World) /\ target \in Sources \cup {NoSource} /\ d \in Loose
  BY WorldIs
<1>4. d.boot \in {"no", "waiting", "launching"}
  BY <1>3 DEF Loose
<1>5. /\ ~d.coord /\ ~d.ready /\ (d.pending => ids < MaxLaunches)
  BY <1>1, <1>3 DEF Good, Kept
<1>6. /\ Good(w0) /\ w0.d.child = Nobody
      /\ ~w0.d.coord /\ ~w0.d.ready /\ (w0.d.pending => w0.ids < MaxLaunches)
      /\ w0.tgt = target
      /\ Tidy(World) => Tidy(w0)
  <2>1. Nobody \in {Nobody, "launcher", "game"} /\ Nobody # "game"
    BY DEF Nobody
  <2>2. w0 = Front(World, Nobody, d.boot)
    BY <1>3, FrontChild
  <2> HIDE DEF w0
  <2>3. /\ Good(w0) /\ w0.d.child = Nobody
        /\ SameRecord(World, w0) /\ w0.d.coord = World.d.coord
        /\ w0.ids = World.ids /\ w0.tgt = World.tgt
        /\ Tidy(World) => Tidy(w0)
    BY <1>3, <1>4, <2>1, <2>2, FrontFacts
  <2> QED BY <1>3, <1>5, <2>3 DEF SameRecord
<1> HIDE DEF w0
<1>7. /\ Good(over(e)) /\ over(e).d.child = Nobody
      /\ ~over(e).d.coord /\ ~over(e).d.ready /\ over(e).tgt = target
      /\ Tidy(w0) => Tidy(over(e))
  BY <1>6, FinishFacts
<1> HIDE DEF over
<1>8. /\ Good(spawned(e)) /\ spawned(e).tgt = target
      /\ spawned(e).d.child \in {Nobody, "game"} /\ ~spawned(e).d.ready
      /\ Tidy(over(e)) => Tidy(spawned(e))
  BY <1>7, SpawnPendingFacts
<1> HIDE DEF spawned
<1>9. /\ Good(next(e)) /\ next(e).tgt = target /\ ~next(e).d.ready
      /\ Tidy(spawned(e)) => Tidy(next(e))
  <2>1. /\ Good(next(e)) /\ SameRecord(spawned(e), next(e))
        /\ next(e).tgt = spawned(e).tgt
        /\ Tidy(spawned(e)) => Tidy(next(e))
    BY <1>8, OrLauncherFacts
  <2> QED BY <1>8, <2>1 DEF SameRecord
<1> HIDE DEF next
<1> DEFINE y == Front(next(e), next(e).d.child, "no")
           c == [next(e).d EXCEPT !.boot = "no"]
<1>10. next(e) \in Worlds /\ next(e).d \in Loose
  BY <1>9, WorldFields DEF Good
<1>11. /\ Good(y) /\ y.d.child = next(e).d.child /\ y.d.boot = "no"
       /\ ~y.d.ready /\ (Tidy(next(e)) => Tidy(y))
  <2>1. next(e).d.child \in {Nobody, "launcher", "game"}
    BY <1>10 DEF Loose
  <2> DEFINE k == next(e).d.child
  <2>2. /\ Good(Front(next(e), k, "no")) /\ Front(next(e), k, "no").d.child = k
        /\ Front(next(e), k, "no").d.boot = "no"
        /\ SameRecord(next(e), Front(next(e), k, "no"))
        /\ (Tidy(next(e)) => Tidy(Front(next(e), k, "no")))
    BY <1>9, <2>1, FrontFacts
  <2> QED BY <1>9, <2>2 DEF SameRecord
<1>12. World' = y
  <2>1. y = [next(e) EXCEPT !.d = c]
    BY <1>9, FrontBoot
  <2>2. World' = [d |-> c, conn |-> next(e).conn, svc |-> next(e).svc,
                  disk |-> next(e).disk, ids |-> next(e).ids, tgt |-> next(e).tgt]
    BY <1>1, <1>2, <1>9 DEF World
  <2> HIDE DEF c, y
  <2>3. [next(e) EXCEPT !.d = c] =
          [d |-> c, conn |-> next(e).conn, svc |-> next(e).svc,
           disk |-> next(e).disk, ids |-> next(e).ids, tgt |-> next(e).tgt]
    BY <1>10 DEF Worlds
  <2> QED BY <2>1, <2>2, <2>3
<1> HIDE DEF y
<1>13. y.d = d' /\ y.disk = disk'
  BY <1>12 DEF World
<1>14. d'.child = "game" => Owed(World')
  BY <1>11, <1>12, <1>13 DEF Good, Kept, Owed
<1>15. /\ game' \in [leader : Leaders, kids : BOOLEAN]
       /\ game'.leader # "zombie" /\ ~game'.kids
       /\ game'.leader = "live" <=> d'.child = "game"
  <2>1. game \in [leader : Leaders, kids : BOOLEAN]
    BY DEF IInv
  <2>2. CASE next(e).d.child = "game"
    <3>1. game' = [leader |-> "live", kids |-> FALSE]
      BY <1>2, <2>2
    <3> QED BY <1>11, <1>13, <2>2, <3>1 DEF Leaders
  <2>3. CASE next(e).d.child # "game"
    <3>1. game' = [game EXCEPT !.leader = "none"]
      BY <1>2, <2>3
    <3> QED BY <1>1, <1>11, <1>13, <2>1, <2>3, <3>1 DEF Leaders
  <2> QED BY <2>2, <2>3
<1>16. GameInv'
  BY <1>12, <1>13, <1>14, <1>15 DEF GameInv, Writing, Owed
<1>17. UiInv' /\ ui' \in Screens /\ consent' \in BOOLEAN /\ up' \in BOOLEAN
       /\ ui' \in {"starting", "gone"}
  BY <1>1, <1>2, <1>11, <1>13 DEF UiInv, Screens, IInv
<1>18. Calm => CalmInv'
  <2>1. Calm => Tidy(World)
    BY DEF IInv, CalmInv
  <2>2. Calm => Tidy(World')
    BY <1>6, <1>7, <1>8, <1>9, <1>11, <1>12, <2>1
  <2> QED BY <1>11, <1>13, <1>17, <2>2 DEF CalmInv
<1>19. ~Writing(game)
  BY <1>1 DEF Writing
<1> QED BY <1>11, <1>12, <1>15, <1>16, <1>17, <1>18, <1>19 DEF IInv, Safe, Calm

LEMMA SwitchGameSafe ==
    ASSUME IInv, NEW t \in Sources, SwitchGame(t)
    PROVE  Safe
PROOF
<1> DEFINE c == [d EXCEPT !.pending = TRUE]
           y == [World EXCEPT !.d = c]
           x == World'
<1>1. /\ up /\ up' = up /\ ui' = ui /\ d.child = "game" /\ game.leader = "live"
      /\ ids < MaxLaunches /\ conn' = conn /\ svc' = svc /\ disk' = disk /\ ids' = ids
      /\ target' = t /\ consent' = FALSE /\ d' = c
      /\ game' = [game EXCEPT !.leader = "zombie"]
  BY DEF SwitchGame
<1>2. /\ World.d = d /\ World.conn = conn /\ World.svc = svc /\ World.disk = disk
      /\ World.ids = ids /\ Good(World) /\ World \in Worlds /\ d \in Loose
  BY WorldIs
<1>3. c \in Loose
  BY <1>2 DEF Loose
<1>4. \A f \in {"coord", "exch", "started", "gate", "act", "uncertain",
                "recovered", "id", "src", "child", "boot"} : c[f] = d[f]
  BY <1>2 DEF Loose
<1>5. c.pending = TRUE /\ c.ready = d.ready /\ c.blocked = d.blocked /\ d.ready \in BOOLEAN
  BY <1>2 DEF Loose
<1>6. x = [d |-> c, conn |-> conn, svc |-> svc, disk |-> disk, ids |-> ids, tgt |-> t]
  BY <1>1 DEF World
<1> HIDE DEF c
<1>7. Good(y) /\ y.d = c /\ y.conn = conn /\ y.disk = disk /\ y.ids = ids
  <2>1. \A f \in {"coord", "exch", "started", "gate", "act", "uncertain",
                  "recovered", "id", "src", "child", "boot"} : c[f] = World.d[f]
    BY <1>2, <1>4
  <2>2. c.pending = TRUE /\ c.ready \in BOOLEAN /\ (c.ready => World.d.ready)
        /\ World.ids < MaxLaunches
    BY <1>1, <1>2, <1>5
  <2> QED BY <1>2, <1>3, <2>1, <2>2, AskedFacts, ZenonT(60)
<1> HIDE DEF y, x
<1>8. /\ x.d = c /\ x.conn = conn /\ x.svc = svc /\ x.disk = disk
      /\ x.ids = ids /\ x.tgt = t
  BY <1>6
<1>9. x \in Worlds
  BY <1>2, <1>3, <1>6, WorldFields DEF Worlds
<1>10. Counted(x) /\ Kept(x)
  BY <1>7, <1>8 DEF Good, Counted, Kept, Open
<1>11. Calm => CalmInv'
  <2>1. Calm => Tidy(World) /\ CalmInv
    BY DEF IInv, CalmInv
  <2>2. Calm => Tidy(x)
    BY <1>1, <1>2, <1>4, <1>5, <1>8, <2>1 DEF Tidy
  <2> QED BY <1>1, <1>4, <1>5, <2>1, <2>2 DEF CalmInv, x
<1>12. /\ game' \in [leader : Leaders, kids : BOOLEAN]
       /\ game'.leader = "zombie"
  <2>1. game \in [leader : Leaders, kids : BOOLEAN]
    BY DEF IInv
  <2> QED BY <1>1, <2>1 DEF Leaders
<1>13. UiInv' /\ GameInv'
  <2>1. UiInv /\ GameInv /\ Writing(game)
    BY <1>1 DEF IInv, Writing
  <2> QED BY <1>1, <1>4, <1>5, <1>12, <2>1 DEF UiInv, GameInv
<1>14. ~WriterStarts
  BY <1>1 DEF WriterStarts
<1>15. Good(World') /\ ui' \in Screens /\ up' \in BOOLEAN /\ consent' \in BOOLEAN
  BY <1>1, <1>9, <1>10 DEF IInv, Good, x
<1> QED BY <1>11, <1>12, <1>13, <1>14, <1>15 DEF IInv, Safe, Calm

LEMMA TickLaunchSafe ==
    ASSUME IInv, TickLaunch
    PROVE  Safe
PROOF
<1> DEFINE w(e) == LaunchIfReady(World, e)
<1>1. PICK e \in Events : StepOn(0, w(e))
  BY DEF TickLaunch, Step
<1>2. Good(w(e)) /\ Launches(World, w(e))
  BY WorldIs, LaunchIfReadyFacts
<1> HIDE DEF w
<1> QED BY <1>1, <1>2, LaunchesStep

\* The daemon puts a launcher, or leaves nothing, in front of a boot resume.
LEMMA ForegroundStep ==
    ASSUME IInv, d.child = Nobody, NEW w, Good(w), Step(w),
           w.d.child = "launcher" => w.d.boot = "no",
           w.d.boot # "waiting",
           Writing(game) => Owed(w) /\ w.d.child # "game",
           Calm => Tidy(w) /\ ~w.d.ready
    PROVE  Safe
PROOF
<1>1. /\ up /\ up' = up /\ target' = target /\ Become(w)
      /\ ui' \in Shown(w) /\ consent' = (consent /\ ~Spent(w))
  BY DEF Step, StepOn
<1>2. target \in Sources \cup {NoSource} /\ consent' \in BOOLEAN
  BY <1>1, WorldIs DEF IInv
<1>3. ui' = IF w.d.child = "launcher" THEN "starting" ELSE "gone"
  BY <1>1 DEF Shown, Nobody
<1>4. w.d.child \in {Nobody, "launcher", "game"}
  BY WorldFields DEF Good, Loose
<1>5. d.child # "game"
  BY DEF Nobody
<1>6. ui' \in {"starting", "gone"} /\ (ui' # "gone" => w.d.child = "launcher")
  BY <1>3
<1> QED BY <1>1, <1>2, <1>4, <1>5, <1>6, StepKeeps DEF Safe, Screens

LEMMA NobodyCalm ==
    ASSUME IInv, d.child = Nobody
    PROVE  Calm => Tidy(World) /\ ~d.ready
BY DEF IInv, CalmInv, UiInv, Nobody

LEMMA SurfaceSafe ==
    ASSUME IInv, Surface
    PROVE  Safe
PROOF
<1> DEFINE w == Launcher(World)
<1>1. d.child = Nobody /\ d.boot = "no" /\ Step(w)
  BY DEF Surface
<1>2. World.d = d /\ World.disk = disk /\ Good(World)
  BY WorldIs
<1>3. /\ Good(w) /\ w.d.child = "launcher" /\ w.d.boot = "no"
      /\ SameRecord(World, w) /\ w.d.coord = d.coord
      /\ Tidy(World) => Tidy(w)
  BY <1>1, <1>2, LauncherFacts
<1> HIDE DEF w
<1>4. Writing(game) => Owed(w)
  <2>1. up /\ GameInv
    BY <1>1 DEF IInv, Step, StepOn
  <2> QED BY <1>2, <1>3, <2>1 DEF GameInv, Owed, SameRecord
<1>5. Calm => Tidy(w) /\ ~w.d.ready
  BY <1>1, <1>2, <1>3, NobodyCalm DEF SameRecord
<1> QED BY <1>1, <1>3, <1>4, <1>5, ForegroundStep

\* A boot resume goes on with a launcher, or waits for its launch.
LEMMA BootGoesOn ==
    ASSUME NEW w, Good(w)
    PROVE  LET x == Launcher([w EXCEPT !.d.boot = "no"])
               y == [w EXCEPT !.d.boot = "launching"]
           IN  /\ Good(x) /\ x.d.child = "launcher" /\ x.d.boot = "no"
               /\ SameRecord(w, x) /\ x.d.coord = w.d.coord
               /\ Tidy(w) => Tidy(x)
               /\ Good(y) /\ y.d.child = w.d.child /\ y.d.boot = "launching"
               /\ SameRecord(w, y) /\ y.d.coord = w.d.coord
               /\ Tidy(w) => Tidy(y)
PROOF
<1> DEFINE k == w.d.child
           v(b) == Front(w, k, b)
<1>1. k \in {Nobody, "launcher", "game"}
  BY WorldFields DEF Good, Loose
<1>2. ASSUME NEW b \in {"no", "waiting", "launching"}
      PROVE  /\ Good(v(b)) /\ v(b).d.child = k /\ v(b).d.boot = b
             /\ SameRecord(w, v(b)) /\ v(b).d.coord = w.d.coord
             /\ Tidy(w) => Tidy(v(b))
  BY <1>1, FrontFacts
<1>3. ASSUME NEW b \in {"no", "waiting", "launching"}
      PROVE  [w EXCEPT !.d.boot = b] = v(b)
  BY FrontBoot
<1> HIDE DEF v
<1> DEFINE x == Launcher(v("no"))
<1>4. /\ Good(x) /\ x.d.child = "launcher" /\ x.d.boot = "no"
      /\ SameRecord(v("no"), x) /\ x.d.coord = v("no").d.coord
      /\ Tidy(v("no")) => Tidy(x)
  BY <1>2, LauncherFacts
<1>5. SameRecord(w, x) /\ x.d.coord = w.d.coord /\ (Tidy(w) => Tidy(x))
  BY <1>2, <1>4 DEF SameRecord
<1>6. /\ [w EXCEPT !.d.boot = "no"] = v("no")
      /\ [w EXCEPT !.d.boot = "launching"] = v("launching")
  BY <1>3
<1> HIDE DEF x
<1>7. Launcher([w EXCEPT !.d.boot = "no"]) = x
  BY <1>6 DEF x
<1> QED BY <1>2, <1>4, <1>5, <1>6, <1>7

LEMMA RefusedFacts ==
    ASSUME NEW w, Good(w)
    PROVE  LET z == IF w.d.blocked THEN Dismissed(w) ELSE w
           IN  Good(z) /\ SameLaunch(w, z) /\ z.d.ready = w.d.ready
               /\ (Tidy(w) => Tidy(z))
PROOF
<1> DEFINE v == Dismissed(w)
           z == IF w.d.blocked THEN v ELSE w
<1>1. /\ Good(v) /\ SameLaunch(w, v)
      /\ ~v.d.pending /\ ~v.d.blocked /\ v.d.ready = w.d.ready
  BY DismissedFacts
<1> HIDE DEF v
<1>2. w.d.blocked /\ Tidy(w) => Tidy(v)
  BY <1>1 DEF Tidy, SameLaunch
<1>3. SameLaunch(w, w)
  BY DEF SameLaunch
<1>4. Good(z) /\ SameLaunch(w, z) /\ z.d.ready = w.d.ready /\ (Tidy(w) => Tidy(z))
  BY <1>1, <1>2, <1>3
<1> HIDE DEF z
<1> QED BY <1>4 DEF z, v

LEMMA BootRequestSafe ==
    ASSUME IInv, BootRequest
    PROVE  Safe
PROOF
<1> DEFINE asked == Request(World)
           made(e) == SpawnPending(asked, e)
           z(w) == IF w.d.blocked THEN Dismissed(w) ELSE w
           x(w) == Launcher([z(w) EXCEPT !.d.boot = "no"])
           y(w) == [w EXCEPT !.d.boot = "launching"]
<1>1. PICK e \in LaunchEvents :
        \E w \in {World, made(e)} : Step(IF NotLaunched(w) THEN x(w) ELSE y(w))
  BY DEF BootRequest
<1>2. PICK w \in {World, made(e)} : Step(IF NotLaunched(w) THEN x(w) ELSE y(w))
  BY <1>1
<1>3. World.d = d /\ World.ids = ids /\ Good(World)
  BY WorldIs
<1>4. d.boot = "waiting" /\ d.child = Nobody /\ ~d.act /\ ids < MaxLaunches
  BY DEF BootRequest, IInv, UiInv
<1>5. /\ Good(asked) /\ SameLaunch(World, asked)
      /\ asked.d.pending /\ ~asked.d.blocked /\ ~asked.d.ready
  BY <1>3, <1>4, RequestFacts
<1> HIDE DEF asked
<1>6. ~d.coord /\ ~d.ready /\ ~d.started /\ (up => ~Writing(game))
  BY <1>4, NoLaunch
<1>7. /\ Good(made(e)) /\ made(e).d.child \in {Nobody, "game"} /\ ~made(e).d.ready
      /\ Tidy(asked) => Tidy(made(e))
  <2>1. asked.d.child = Nobody /\ ~asked.d.coord
    BY <1>3, <1>4, <1>5, <1>6 DEF SameLaunch
  <2> QED BY <1>5, <2>1, SpawnPendingFacts
<1>8. Tidy(asked)
  BY <1>3, <1>4, <1>5, <1>6 DEF Tidy, SameLaunch, Nobody
<1> HIDE DEF made
<1>9. /\ Good(w) /\ w.d.child \in {Nobody, "game"} /\ ~w.d.ready
      /\ Calm => Tidy(w)
  BY <1>3, <1>4, <1>6, <1>7, <1>8, NobodyCalm
<1>10. /\ Good(z(w)) /\ SameLaunch(w, z(w)) /\ z(w).d.ready = w.d.ready
       /\ Tidy(w) => Tidy(z(w))
  BY <1>9, RefusedFacts
<1> HIDE DEF z
<1>11. /\ Good(x(w)) /\ x(w).d.child = "launcher" /\ x(w).d.boot = "no"
       /\ SameRecord(z(w), x(w)) /\ (Tidy(z(w)) => Tidy(x(w)))
  BY <1>10, BootGoesOn
<1>12. /\ Good(y(w)) /\ y(w).d.child = w.d.child /\ y(w).d.boot = "launching"
       /\ SameRecord(w, y(w)) /\ (Tidy(w) => Tidy(y(w)))
  BY <1>9, BootGoesOn
<1> HIDE DEF x, y
<1> DEFINE r == IF NotLaunched(w) THEN x(w) ELSE y(w)
<1>13. /\ Good(r) /\ ~r.d.ready /\ (Calm => Tidy(r)) /\ r.d.boot # "waiting"
       /\ r.d.child = "launcher" => r.d.boot = "no"
  BY <1>9, <1>10, <1>11, <1>12 DEF SameRecord, Nobody
<1>14. Step(r)
  BY <1>2
<1> HIDE DEF r
<1>15. up
  BY <1>14 DEF Step, StepOn
<1> QED BY <1>4, <1>6, <1>13, <1>14, <1>15, ForegroundStep

LEMMA BootTickSafe ==
    ASSUME IInv, BootTick
    PROVE  Safe
PROOF
<1> DEFINE cancels == d.decision /\ d.coord /\ Checks # {}
           checked(e) == IF cancels THEN CheckCancelled(World, e) ELSE World
           w(e) == IF checked(e).d.blocked THEN Dismissed(checked(e)) ELSE checked(e)
           x(v) == Launcher([v EXCEPT !.d.boot = "no"])
<1>1. PICK e \in Events : Step(x(w(e))) \/ Step(x(World))
  BY DEF BootTick
<1>2. World.d = d /\ World.disk = disk /\ Good(World) /\ World \in Worlds
  BY WorldIs
<1>3. up /\ d.boot = "launching"
  BY <1>1 DEF BootTick, Step, StepOn
<1>4. d.child = Nobody /\ GameInv
  BY <1>3 DEF IInv, UiInv
<1>5. Calm => Tidy(World) /\ ~d.ready
  BY <1>4, NobodyCalm
<1> DEFINE Fit(v) == /\ Good(v) /\ (Writing(game) => Owed(v))
                     /\ Calm => Tidy(v) /\ ~v.d.ready
<1>6. Fit(World)
  BY <1>2, <1>3, <1>4, <1>5 DEF GameInv, Owed
<1>7. Fit(checked(e))
  <2> DEFINE v == CheckCancelled(World, e)
  <2>1. CASE cancels
    <3>1. Good(v) /\ Steady(World, v) /\ ~v.d.coord
      BY <1>2, <2>1, CheckCancelledFacts
    <3>2. checked(e) = v
      BY <2>1
    <3> HIDE DEF v
    <3>3. ~Writing(game)
      BY <1>3, <1>4, <2>1 DEF GameInv
    <3>4. Calm => Tidy(v) /\ ~v.d.ready
      BY <1>2, <1>5, <2>1, <3>1 DEF Steady, Ended
    <3> QED BY <3>1, <3>2, <3>3, <3>4
  <2>2. CASE ~cancels
    BY <1>6, <2>2
  <2> QED BY <2>1, <2>2
<1> HIDE DEF checked, cancels
<1>8. Fit(w(e))
  <2> DEFINE u == checked(e)
             v == Dismissed(u)
  <2>1. CASE u.d.blocked
    <3>1. Fit(u)
      BY <1>7
    <3> HIDE DEF u
    <3>2. /\ Good(v) /\ SameLaunch(u, v)
          /\ ~v.d.pending /\ ~v.d.blocked /\ v.d.ready = u.d.ready
      BY <3>1, DismissedFacts
    <3> HIDE DEF v
    <3>3. Writing(game) => Owed(v)
      BY <3>1, <3>2 DEF Owed, SameLaunch
    <3>4. Calm => Tidy(v) /\ ~v.d.ready
      BY <2>1, <3>1, <3>2 DEF Tidy, SameLaunch
    <3>5. w(e) = v
      BY <2>1 DEF v, u
    <3> QED BY <3>2, <3>3, <3>4, <3>5
  <2>2. CASE ~u.d.blocked
    BY <1>7, <2>2
  <2> QED BY <2>1, <2>2
<1> HIDE DEF w
<1>9. ASSUME NEW v, Fit(v), Step(x(v))
      PROVE  Safe
  <2>1. /\ Good(x(v)) /\ x(v).d.child = "launcher" /\ x(v).d.boot = "no"
        /\ SameRecord(v, x(v)) /\ x(v).d.coord = v.d.coord
        /\ Tidy(v) => Tidy(x(v))
    BY <1>9, BootGoesOn
  <2> DEFINE y == x(v)
  <2>2. Step(y)
    BY <1>9
  <2> HIDE DEF x
  <2>3. Writing(game) => Owed(y)
    BY <1>9, <2>1 DEF Owed, SameRecord
  <2>4. Calm => Tidy(y) /\ ~y.d.ready
    BY <1>9, <2>1 DEF SameRecord
  <2> QED BY <1>4, <2>1, <2>2, <2>3, <2>4, ForegroundStep
<1> HIDE DEF x, Fit
<1> QED BY <1>1, <1>6, <1>8, <1>9

-----------------------------------------------------------------------------
(* Services and their connections *)

\* No exchange is open on a connection without a subscription.
LEMMA OpenSubscribed ==
    ASSUME NEW w, Good(w), NEW s \in Service
    PROVE  w.conn[s].phase # "none" => w.conn[s].sub
BY DEF Good, Counted, Open

LEMMA TouchConn ==
    ASSUME NEW w, Good(w), NEW s \in Service, NEW c \in Conns,
           c.phase = w.conn[s].phase, c.phase # "none" => c.sub
    PROVE  LET x == [w EXCEPT !.conn[s] = c] IN Good(x) /\ Steady(w, x)
PROOF
<1> DEFINE v == w.svc[s]
           x == [w EXCEPT !.svc[s] = v, !.conn[s] = c]
<1>1. w \in Worlds
  BY DEF Good
<1>2. v \in Svcs
  BY <1>1 DEF Worlds
<1>3. [w EXCEPT !.conn[s] = c] = x
  BY <1>1 DEF Worlds
<1> HIDE DEF v
<1>4. Good(x) /\ Steady(w, x)
  BY <1>2, TouchFacts
<1> HIDE DEF x
<1> QED BY <1>3, <1>4

LEMMA RegisteredFacts ==
    ASSUME NEW w, Good(w), NEW s \in Service, NEW mode \in Modes, NEW wait \in Waits
    PROVE  LET x == Registered(w, s, mode, wait)
           IN  /\ Good(x) /\ Steady(w, x)
               /\ x.d = w.d /\ x.svc = w.svc /\ x \in Worlds
               /\ x.conn[s].phase = w.conn[s].phase /\ x.conn[s].mode = mode
               /\ \A t \in Service \ {s} : x.conn[t] = w.conn[t]
PROOF
<1> DEFINE b == Owned(w, s)
           c == [w.conn[s] EXCEPT !.sub = TRUE, !.reconciled = FALSE,
                                  !.mode = mode, !.wait = wait, !.bound = b]
           x == [w EXCEPT !.conn[s] = c]
<1>1. w \in Worlds /\ w.conn[s] \in Conns
  BY DEF Good, Worlds
<1>2. mode \in {"stop", "check", "notify"} /\ wait \in BOOLEAN
  BY GameLaunchAssumption DEF Waits
<1>3. b \in BOOLEAN
  BY DEF Owned
<1>4. Registered(w, s, mode, wait) = x
  BY <1>1 DEF Registered, Worlds
<1> HIDE DEF b
<1>5. /\ c \in Conns /\ c.sub /\ c.mode = mode /\ c.phase = w.conn[s].phase
  BY <1>1, <1>2, <1>3 DEF Conns
<1> HIDE DEF c
<1>6. Good(x) /\ Steady(w, x)
  BY <1>5, TouchConn
<1>7. /\ x.d = w.d /\ x.svc = w.svc /\ x.conn[s] = c
      /\ \A t \in Service \ {s} : x.conn[t] = w.conn[t]
  BY <1>1 DEF Worlds
<1> HIDE DEF x
<1>8. x \in Worlds
  BY <1>6 DEF Good
<1> QED BY <1>4, <1>5, <1>6, <1>7, <1>8

LEMMA SubscribeSafe ==
    ASSUME IInv, NEW s \in Service, NEW mode \in Modes, NEW wait \in Waits,
           Subscribe(s, mode, wait)
    PROVE  Safe
PROOF
<1> DEFINE g(e) == Drop(World, e, s)
           x(w) == Registered(w, s, mode, wait)
<1>1. PICK e \in Events :
        \/ StepOn(s, x(g(e))) \/ StepOn(s, x(World)) \/ StepOn(s, g(e))
  BY DEF Subscribe
<1>2. Good(World) /\ World \in Worlds /\ Steady(World, World)
  BY WorldIs, SteadyItself
<1>3. Good(g(e)) /\ Steady(World, g(e))
  BY <1>2, DropFacts
<1> HIDE DEF g
<1>4. ASSUME NEW w, Good(w), Steady(World, w)
      PROVE  Good(x(w)) /\ Steady(World, x(w))
  <2> DEFINE v == x(w)
  <2>1. Good(v) /\ Steady(w, v)
    BY <1>4, RegisteredFacts
  <2> HIDE DEF v
  <2>2. Steady(World, v)
    BY <1>2, <1>4, <2>1, SteadyThen
  <2> QED BY <2>1, <2>2 DEF v
<1> HIDE DEF x
<1> DEFINE y == g(e)
<1>5. CASE StepOn(s, y)
  <2> HIDE DEF y
  <2> QED BY <1>3, <1>5, SteadyStep DEF y
<1>6. CASE StepOn(s, x(World))
  BY <1>2, <1>4, <1>6, SteadyStep
<1>7. CASE StepOn(s, x(y))
  BY <1>3, <1>4, <1>7, SteadyStep
<1> QED BY <1>1, <1>5, <1>6, <1>7

LEMMA GameStateSafe ==
    ASSUME IInv, NEW s \in Service, GameState(s)
    PROVE  Safe
PROOF
<1> DEFINE y(e) == Drop(World, e, s)
           k == IF d.act /\ ~d.uncertain
                THEN World.svc[s].told \cup {d.id} ELSE World.svc[s].told
           v == [World.svc[s] EXCEPT !.told = k]
           n == ~d.uncertain
           b == d.act /\ ~d.uncertain /\ conn[s].mode # "notify"
           c == [World.conn[s] EXCEPT !.reconciled = n, !.stopAfterFlush = b]
           x == [World EXCEPT !.svc[s] = v, !.conn[s] = c]
<1>1. /\ Good(World) /\ World \in Worlds /\ d \in Loose
      /\ World.conn = conn /\ World.svc = svc /\ World.d = d
  BY WorldIs
<1>2. World.svc[s] \in Svcs /\ World.conn[s] \in Conns
  BY <1>1, WorldFields
<1>3. (\E e \in Events : StepOn(s, y(e))) \/ StepOn(s, x)
  <2> HIDE DEF y
  <2>1. [World EXCEPT !.svc[s].told = k, !.conn[s].reconciled = n,
                      !.conn[s].stopAfterFlush = b] = x
    <3> HIDE DEF k, n, b
    <3>1. World \in Worlds
      BY <1>1
    <3> QED BY <3>1 DEF Worlds
  <2> HIDE DEF x
  <2> QED BY <2>1 DEF GameState, y
<1>4. ASSUME NEW e, StepOn(s, y(e))
      PROVE  Safe
  <2>1. Good(y(e)) /\ Steady(World, y(e))
    BY <1>1, DropFacts
  <2> HIDE DEF y
  <2> QED BY <1>4, <2>1, SteadyStep
<1>5. ASSUME StepOn(s, x)
      PROVE  Safe
  <2>1. d.act /\ ~d.uncertain => d.id \in 1..MaxLaunches
    <3>1. d.act /\ ~d.uncertain => d.id # 0
      BY <1>1 DEF Good, Kept
    <3>2. d.id \in 0..MaxLaunches
      BY <1>1 DEF Loose
    <3> QED BY <3>1, <3>2, GameLaunchAssumption
  <2>2. k \in SUBSET (1..MaxLaunches)
    BY <1>2, <2>1 DEF Svcs
  <2>3. n \in BOOLEAN /\ b \in BOOLEAN
    BY <1>1 DEF Loose
  <2> HIDE DEF k, n, b
  <2>4. v \in Svcs
    BY <1>2, <2>2 DEF Svcs
  <2>5. c \in Conns
    BY <1>2, <2>3 DEF Conns
  <2>6. c.phase = World.conn[s].phase /\ c.sub = World.conn[s].sub
    BY <1>2 DEF Conns
  <2> HIDE DEF c, v
  <2>7. c.phase = World.conn[s].phase /\ (c.phase # "none" => c.sub)
    BY <1>1, <2>6, OpenSubscribed
  <2>8. Good(x) /\ Steady(World, x)
    BY <1>1, <2>4, <2>5, <2>7, TouchFacts
  <2> HIDE DEF x
  <2> QED BY <1>5, <2>8, SteadyStep
<1> HIDE DEF x, y
<1> QED BY <1>3, <1>4, <1>5

LEMMA StopAfterFlushSafe ==
    ASSUME IInv, NEW s \in Service, StopAfterFlush(s)
    PROVE  Safe
PROOF
<1> DEFINE y(e) == Stop(World, e, s)
           c(e) == [y(e).conn[s] EXCEPT !.stopAfterFlush = FALSE]
           z(e) == [y(e) EXCEPT !.conn[s] = c(e)]
           x(e) == Drop(z(e), e, s)
<1>1. Good(World) /\ World \in Worlds
  BY WorldIs
<1>2. ASSUME NEW e
      PROVE  Good(y(e)) /\ Steady(World, y(e))
  BY <1>1, StopFacts
<1> HIDE DEF y
<1>3. ASSUME NEW e
      PROVE  [y(e) EXCEPT !.conn[s].stopAfterFlush = FALSE] = z(e)
  <2>1. y(e) \in Worlds
    BY <1>2 DEF Good
  <2> QED BY <2>1 DEF Worlds
<1>4. ASSUME NEW e
      PROVE  Good(z(e)) /\ Steady(y(e), z(e))
  <2>1. Good(y(e)) /\ y(e).conn[s] \in Conns
    BY <1>2, WorldFields DEF Good
  <2>2. c(e) \in Conns
    BY <2>1 DEF Conns
  <2>3. c(e).phase = y(e).conn[s].phase /\ c(e).sub = y(e).conn[s].sub
    BY <2>1 DEF Conns
  <2> HIDE DEF c
  <2>4. c(e).phase # "none" => c(e).sub
    BY <2>1, <2>3, OpenSubscribed
  <2> QED BY <2>1, <2>2, <2>3, <2>4, TouchConn
<1> HIDE DEF z
<1>5. PICK e \in Events : StepOn(s, x(e))
  BY <1>3 DEF StopAfterFlush, y
<1>6. Good(x(e)) /\ Steady(z(e), x(e))
  BY <1>4, DropFacts
<1> HIDE DEF x
<1>7. Steady(World, z(e))
  BY <1>1, <1>2, <1>4, SteadyThen
<1>8. Steady(World, x(e))
  BY <1>1, <1>4, <1>6, <1>7, SteadyThen
<1> QED BY <1>5, <1>6, <1>8, SteadyStep

LEMMA DisconnectSafe ==
    ASSUME IInv, NEW s \in Service, Disconnect(s)
    PROVE  Safe
PROOF
<1> DEFINE x(e) == Drop(World, e, s)
<1>1. PICK e \in Events : StepOn(s, x(e))
  BY DEF Disconnect
<1>2. Good(x(e)) /\ Steady(World, x(e))
  BY WorldIs, DropFacts
<1> HIDE DEF x
<1> QED BY <1>1, <1>2, SteadyStep

LEMMA StatusSafe ==
    ASSUME IInv, NEW s \in Service, NEW kind \in Kinds, Status(s, kind)
    PROVE  Safe
PROOF
<1> DEFINE x(e, id) == Answered(World, e, s, kind, id)
<1>1. PICK id \in svc[s].told, e \in Events : StepOn(s, x(e, id))
  BY DEF Status
<1>2. Good(World) /\ World.svc = svc
  BY WorldIs
<1>3. Good(x(e, id)) /\ Launches(World, x(e, id))
  BY <1>2, AnsweredFacts
<1> HIDE DEF x
<1> QED BY <1>1, <1>3, LaunchesStep

LEMMA ExpireSafe ==
    ASSUME IInv, NEW s \in Service, Expire(s)
    PROVE  Safe
PROOF
<1> DEFINE y(e) == Expired(World, e, s)
           x(e) == LaunchIfReady(y(e), e)
<1>1. d.coord /\ Asking(World, s)
  BY DEF Expire
<1>2. PICK e \in Events : StepOn(0, x(e))
  BY DEF Expire, Step
<1>3. Good(World) /\ World.d = d
  BY WorldIs
<1>4. Good(y(e)) /\ Steady(World, y(e))
  BY <1>1, <1>3, ExpiredFacts
<1> HIDE DEF y
<1>5. Good(x(e)) /\ Launches(y(e), x(e))
  BY <1>4, LaunchIfReadyFacts
<1> HIDE DEF x
<1>6. Launches(World, x(e))
  BY <1>3, <1>4, <1>5, SteadyThenLaunches
<1> QED BY <1>2, <1>5, <1>6, LaunchesStep

LEMMA ServiceStartsSafe ==
    ASSUME IInv, NEW s \in Service, ServiceStarts(s)
    PROVE  Safe
PROOF
<1> DEFINE v == [svc[s] EXCEPT !.st = "live"]
           c == conn[s]
           x == [World EXCEPT !.svc[s] = v, !.conn[s] = c]
<1>1. Good(World) /\ World \in Worlds /\ World.conn = conn /\ World.svc = svc
  BY WorldIs
<1>2. svc[s] \in Svcs /\ c \in Conns
  BY <1>1, WorldFields DEF Worlds
<1>3. v \in Svcs
  BY <1>2 DEF Svcs
<1>4. [World EXCEPT !.svc[s].st = "live"] = x
  BY <1>1 DEF Worlds
<1>5. StepOn(0, x)
  BY <1>4 DEF ServiceStarts
<1>6. c.phase = World.conn[s].phase /\ (c.phase # "none" => c.sub)
  BY <1>1, OpenSubscribed
<1> HIDE DEF v, c
<1>7. Good(x) /\ Steady(World, x)
  BY <1>1, <1>2, <1>3, <1>6, TouchFacts
<1> HIDE DEF x
<1> QED BY <1>5, <1>7, SteadyStep

LEMMA ServiceEndsSafe ==
    ASSUME IInv, NEW s \in Service, ServiceEnds(s)
    PROVE  Safe
PROOF
<1> DEFINE c == [conn[s] EXCEPT !.bound = FALSE]
           x == [World EXCEPT !.svc[s] = Down, !.conn[s] = c]
<1>1. Good(World) /\ World \in Worlds /\ World.conn = conn
  BY WorldIs
<1>2. conn[s] \in Conns
  BY <1>1, WorldFields
<1>3. c \in Conns /\ c.phase = conn[s].phase /\ c.sub = conn[s].sub
  BY <1>2 DEF Conns
<1>4. Down \in Svcs
  BY GameLaunchAssumption DEF Down, Svcs
<1>5. [World EXCEPT !.svc[s] = Down, !.conn[s].bound = FALSE] = x
  BY <1>1 DEF Worlds
<1>6. StepOn(s, x)
  BY <1>5 DEF ServiceEnds
<1> HIDE DEF c
<1>7. c.phase = World.conn[s].phase /\ (c.phase # "none" => c.sub)
  BY <1>1, <1>3, OpenSubscribed
<1>8. Good(x) /\ Steady(World, x)
  BY <1>1, <1>3, <1>4, <1>7, TouchFacts
<1> HIDE DEF x
<1> QED BY <1>6, <1>8, SteadyStep

-----------------------------------------------------------------------------
(* The daemon itself *)

LEMMA IdleFacts ==
    /\ IdleDaemon \in Loose /\ NoConn \in Conns /\ Down \in Svcs
    /\ [Down EXCEPT !.st = "stale"] \in Svcs
    /\ NoConn.phase = "none"
PROOF
<1>1. 0 \in 0..MaxLaunches /\ "none" \in Phases
  BY GameLaunchAssumption DEF Phases
<1>2. IdleDaemon \in Loose
  BY <1>1 DEF IdleDaemon, Loose, NoSource, Nobody
<1>3. NoConn \in Conns /\ NoConn.phase = "none"
  BY <1>1 DEF NoConn, Conns
<1>4. Down \in Svcs
  BY <1>1 DEF Down, Svcs
<1>5. [Down EXCEPT !.st = "stale"] \in Svcs
  BY <1>4 DEF Svcs
<1> QED BY <1>2, <1>3, <1>4, <1>5

\* Between launches: no exchange, and a record only if it was recovered.
LEMMA QuietGood ==
    ASSUME NEW x \in Worlds, Open(x) = {}, x.d.exch = 0,
           ~x.d.coord, ~x.d.ready, ~x.d.started, ~x.d.pending, x.d.child # "game",
           x.d.act => x.d.gate /\ x.d.recovered /\ (~x.d.uncertain => x.d.id # 0)
    PROVE  Good(x) /\ Tidy(x)
PROOF
<1>1. Cardinality(Open(x)) = 0
  BY FS_EmptySet
<1> QED BY <1>1 DEF Good, Counted, Kept, Tidy

LEMMA DaemonCrashSafe ==
    ASSUME IInv, DaemonCrash
    PROVE  Safe
PROOF
<1> DEFINE x == World'
<1>1. /\ up /\ up' = FALSE /\ d' = IdleDaemon /\ ui' = "gone" /\ consent' = FALSE
      /\ conn' = [s \in Service |-> NoConn]
      /\ disk' = disk /\ ids' = ids /\ target' = target
      /\ game' = [game EXCEPT !.leader = IF @ = "live" THEN @ ELSE "none"]
  BY DEF DaemonCrash
<1>2. PICK left \in SUBSET {s \in Service : svc[s].st # "down"} :
        svc' = [s \in Service |->
            IF s \in left THEN [Down EXCEPT !.st = "stale"] ELSE Down]
  BY DEF DaemonCrash
<1>3. conn' \in [Service -> Conns] /\ svc' \in [Service -> Svcs]
  <2> DEFINE stale == [Down EXCEPT !.st = "stale"]
  <2>1. stale \in Svcs /\ Down \in Svcs /\ NoConn \in Conns
    BY IdleFacts
  <2>2. svc' = [s \in Service |-> IF s \in left THEN stale ELSE Down]
    BY <1>2
  <2> HIDE DEF stale
  <2> QED BY <1>1, <2>1, <2>2
<1>4. World.disk = disk /\ World.ids = ids /\ World.tgt = target /\ World \in Worlds
  BY WorldIs
<1>5. x = [d |-> IdleDaemon, conn |-> conn', svc |-> svc', disk |-> disk,
           ids |-> ids, tgt |-> target]
  BY <1>1 DEF World
<1> HIDE DEF x
<1>6. x \in Worlds /\ x.d = IdleDaemon /\ x.conn = conn'
  BY <1>3, <1>4, <1>5, IdleFacts, WorldFields DEF Worlds
<1>7. Open(x) = {}
  BY <1>1, <1>6, IdleFacts DEF Open
<1>8. Good(x) /\ Tidy(x)
  BY <1>6, <1>7, QuietGood DEF IdleDaemon, Nobody
<1>9. /\ game' \in [leader : Leaders, kids : BOOLEAN] /\ game'.leader # "zombie"
      /\ Writing(game') => Writing(game)
  <2> DEFINE l == IF game.leader = "live" THEN game.leader ELSE "none"
  <2>1. game \in [leader : Leaders, kids : BOOLEAN]
    BY DEF IInv
  <2>2. l \in Leaders /\ l # "zombie" /\ (l = "live" => game.leader = "live")
    BY DEF Leaders
  <2>3. game' = [game EXCEPT !.leader = l]
    BY <1>1, <2>1
  <2> HIDE DEF l
  <2>4. game'.leader = l /\ game'.kids = game.kids
        /\ game' \in [leader : Leaders, kids : BOOLEAN]
    BY <2>1, <2>2, <2>3
  <2> QED BY <2>2, <2>4 DEF Writing
<1>10. GameInv' /\ UiInv'
  BY <1>1, <1>9 DEF IInv, GameInv, UiInv, IdleDaemon, Nobody
<1>11. Calm => CalmInv'
  BY <1>1, <1>8 DEF CalmInv, IdleDaemon, x
<1>12. ~WriterStarts
  BY <1>1 DEF WriterStarts, IdleDaemon, Nobody
<1>13. Good(World')
  BY <1>8 DEF x
<1> QED BY <1>1, <1>9, <1>10, <1>11, <1>12, <1>13 DEF IInv, Safe, Calm, Screens

LEMMA DaemonStartsSafe ==
    ASSUME IInv, DaemonStarts
    PROVE  Safe
PROOF
<1> DEFINE x == World'
           start(u) == Recovered(u)
           next(u, resume) == IF resume THEN [start(u) EXCEPT !.boot = "waiting"]
                              ELSE [start(u) EXCEPT !.child = "launcher"]
<1>1. /\ ~up /\ up' = TRUE
      /\ UNCHANGED <<conn, svc, disk, ids, target, game, consent>>
  BY DEF DaemonStarts
<1>2. PICK u \in Chances("clear"),
           resume \in IF "boot" \in Features /\ disk = 0 /\ ids < MaxLaunches
                      THEN BOOLEAN ELSE {FALSE} :
        /\ d' = next(u, resume)
        /\ ui' = IF resume THEN "gone" ELSE "starting"
  BY DEF DaemonStarts
<1>3. u \in BOOLEAN /\ resume \in BOOLEAN /\ (resume => disk = 0 /\ ids < MaxLaunches)
  BY <1>2 DEF Chances
<1>4. /\ World \in Worlds /\ World.d = d /\ World.conn = conn /\ World.svc = svc
      /\ World.disk = disk /\ World.ids = ids /\ World.tgt = target /\ Good(World)
  BY WorldIs
<1>5. disk \in 0..MaxLaunches /\ target \in Sources \cup {NoSource}
  BY <1>4, WorldFields
<1>6. d = IdleDaemon /\ UiInv /\ GameInv
  BY <1>1 DEF IInv, UiInv
<1>7. /\ start(u) \in Loose /\ start(u).exch = 0
      /\ ~start(u).coord /\ ~start(u).ready /\ ~start(u).started /\ ~start(u).pending
      /\ start(u).child = Nobody /\ start(u).boot = "no"
      /\ start(u).act => /\ start(u).gate /\ start(u).recovered
                         /\ ~start(u).uncertain => start(u).id # 0
      /\ start(u).act <=> disk # 0
  <2>1. CASE disk = 0
    <3>1. start(u) = IdleDaemon
      BY <2>1 DEF Recovered
    <3> HIDE DEF start
    <3> QED BY <2>1, <3>1, IdleFacts DEF IdleDaemon
  <2>2. CASE disk # 0
    <3> DEFINE i == IF u THEN 0 ELSE disk
               src == IF u THEN NoSource ELSE target
               c == [IdleDaemon EXCEPT
                       !.act = TRUE, !.recovered = TRUE, !.gate = TRUE,
                       !.uncertain = u, !.id = i, !.src = src]
    <3>1. start(u) = c
      BY <2>2 DEF Recovered
    <3>2. i \in 0..MaxLaunches /\ src \in Sources \cup {NoSource} /\ (~u => i # 0)
      BY <1>3, <1>5, <2>2, GameLaunchAssumption
    <3> HIDE DEF i, src, start
    <3>3. IdleDaemon \in Loose
      BY IdleFacts
    <3>4. c \in Loose
      BY <1>3, <3>2, <3>3 DEF Loose
    <3>5. c.act = TRUE /\ c.recovered = TRUE /\ c.gate = TRUE /\ c.uncertain = u /\ c.id = i
      BY <3>3 DEF Loose
    <3>6. \A f \in {"exch", "coord", "ready", "started", "pending", "child", "boot"} :
             c[f] = IdleDaemon[f]
      BY <3>3 DEF Loose
    <3> HIDE DEF c
    <3> QED BY <2>2, <3>1, <3>2, <3>4, <3>5, <3>6 DEF IdleDaemon
  <2> QED BY <2>1, <2>2
<1> HIDE DEF start
<1>8. /\ d' \in Loose /\ d'.exch = 0
      /\ ~d'.coord /\ ~d'.ready /\ ~d'.started /\ ~d'.pending
      /\ d'.child = IF resume THEN Nobody ELSE "launcher"
      /\ d'.boot = IF resume THEN "waiting" ELSE "no"
      /\ d'.act => d'.gate /\ d'.recovered /\ (~d'.uncertain => d'.id # 0)
      /\ d'.act <=> disk # 0
  <2>1. CASE resume
    <3> DEFINE c == [start(u) EXCEPT !.boot = "waiting"]
    <3>1. d' = c
      BY <1>2, <2>1
    <3>2. c \in Loose /\ c.boot = "waiting"
      BY <1>7 DEF Loose
    <3>3. \A f \in {"exch", "coord", "ready", "started", "pending", "child", "act",
                    "gate", "recovered", "uncertain", "id"} : c[f] = start(u)[f]
      BY <1>7 DEF Loose
    <3> HIDE DEF c
    <3> QED BY <1>7, <2>1, <3>1, <3>2, <3>3
  <2>2. CASE ~resume
    <3> DEFINE c == [start(u) EXCEPT !.child = "launcher"]
    <3>1. d' = c
      BY <1>2, <2>2
    <3>2. c \in Loose /\ c.child = "launcher"
      BY <1>7 DEF Loose
    <3>3. \A f \in {"exch", "coord", "ready", "started", "pending", "boot", "act",
                    "gate", "recovered", "uncertain", "id"} : c[f] = start(u)[f]
      BY <1>7 DEF Loose
    <3> HIDE DEF c
    <3> QED BY <1>7, <2>2, <3>1, <3>2, <3>3
  <2> QED BY <2>1, <2>2
<1>9. x = [d |-> d', conn |-> conn, svc |-> svc, disk |-> disk,
           ids |-> ids, tgt |-> target]
  BY <1>1 DEF World
<1> HIDE DEF x, next
<1>10. x \in Worlds /\ x.d = d' /\ x.conn = conn
  BY <1>4, <1>8, <1>9, WorldFields DEF Worlds
<1>11. Open(x) = {}
  <2>1. ~d.coord
    BY <1>6 DEF IdleDaemon
  <2>2. Open(World) = {}
    BY <1>4, <2>1 DEF Good, Counted
  <2> QED BY <1>4, <1>10, <2>2 DEF Open
<1>12. d'.child # "game"
  BY <1>8 DEF Nobody
<1>13. Good(x) /\ Tidy(x)
  BY <1>8, <1>10, <1>11, <1>12, QuietGood
<1>14. GameInv'
  <2>1. game.leader # "zombie"
    BY <1>6 DEF GameInv, IdleDaemon, Nobody
  <2> QED BY <1>1, <1>6, <1>8, <1>12, <2>1 DEF GameInv
<1>15. UiInv'
  BY <1>1, <1>2, <1>3, <1>8 DEF UiInv
<1>16. ui' \in {"gone", "starting"}
  BY <1>2
<1>17. Calm => CalmInv'
  BY <1>8, <1>13, <1>16 DEF CalmInv, x
<1>18. ~WriterStarts
  BY <1>12 DEF WriterStarts
<1>19. Good(World')
  BY <1>13 DEF x
<1> QED BY <1>1, <1>14, <1>15, <1>16, <1>17, <1>18, <1>19 DEF IInv, Safe, Calm, Screens

-----------------------------------------------------------------------------
(* The invariant holds *)

LEMMA InitInv == Init => IInv
PROOF
<1> SUFFICES ASSUME Init
             PROVE  IInv
  OBVIOUS
<1> DEFINE x == World
<1>1. /\ d = IdleDaemon /\ disk = 0 /\ ids = 0 /\ target \in Sources
      /\ conn = [s \in Service |-> NoConn] /\ svc = [s \in Service |-> Down]
      /\ game = NoGame /\ ui = "gone" /\ up = FALSE /\ consent = FALSE
  BY DEF Init
<1>2. x = [d |-> d, conn |-> conn, svc |-> svc, disk |-> disk, ids |-> ids, tgt |-> target]
  BY DEF World
<1> HIDE DEF x
<1>3. 0 \in 0..MaxLaunches
  BY GameLaunchAssumption
<1>4. x \in Worlds /\ x.d = IdleDaemon /\ x.conn = conn
  <2>1. conn \in [Service -> Conns] /\ svc \in [Service -> Svcs] /\ d \in Loose
    BY <1>1, IdleFacts
  <2> QED BY <1>1, <1>2, <1>3, <2>1 DEF Worlds
<1>5. Open(x) = {}
  BY <1>1, <1>4, IdleFacts DEF Open
<1>6. Good(World) /\ Tidy(World)
  BY <1>4, <1>5, QuietGood DEF IdleDaemon, Nobody, x
<1>7. game \in [leader : Leaders, kids : BOOLEAN] /\ ui \in Screens
  BY <1>1 DEF NoGame, Leaders, Screens
<1>8. UiInv /\ GameInv /\ CalmInv
  BY <1>1, <1>6 DEF UiInv, GameInv, CalmInv, IdleDaemon, NoGame, Nobody, Writing
<1> QED BY <1>1, <1>6, <1>7, <1>8 DEF IInv

LEMMA LauncherNextSafe ==
    ASSUME IInv, LauncherNext
    PROVE  Safe
PROOF
<1>1. CASE \E t \in Sources : LaunchGame(t)
  BY <1>1, LaunchGameSafe
<1>2. CASE AskStatus
  BY <1>2, AskStatusSafe
<1>3. CASE CheckWait
  BY <1>3, CheckWaitSafe
<1>4. CASE CheckPlayAnyway
  BY <1>4, CheckPlayAnywaySafe
<1>5. CASE CheckCancel
  BY <1>5, CheckCancelSafe
<1>6. CASE LaunchOverride
  BY <1>6, LaunchOverrideSafe
<1>7. CASE LaunchRetry
  BY <1>7, LaunchRetrySafe
<1>8. CASE Dismiss
  BY <1>8, DismissSafe
<1>9. CASE Acknowledge
  BY <1>9, AcknowledgeSafe
<1>10. CASE StartNow
  BY <1>10, StartNowSafe
<1>11. CASE LauncherExits
  BY <1>11, LauncherExitsSafe
<1> QED BY <1>1, <1>2, <1>3, <1>4, <1>5, <1>6, <1>7, <1>8, <1>9, <1>10, <1>11
        DEF LauncherNext

LEMMA WriterNextSafe ==
    ASSUME IInv, WriterNext
    PROVE  Safe
PROOF
<1>1. CASE WriterForks
  BY <1>1, WriterForksSafe
<1>2. CASE LeaderExits
  BY <1>2, LeaderExitsSafe
<1>3. CASE DescendantsExit
  BY <1>3, DescendantsExitSafe
<1>4. CASE ReapWriter
  BY <1>4, ReapWriterSafe
<1>5. CASE \E t \in Sources : SwitchGame(t)
  BY <1>5, SwitchGameSafe
<1>6. CASE \E t \in Sources \cup {NoSource} : SourceMoves(t)
  BY <1>6, SourceMovesSafe
<1> QED BY <1>1, <1>2, <1>3, <1>4, <1>5, <1>6 DEF WriterNext

LEMMA ServiceNextSafe ==
    ASSUME IInv, NEW s \in Service, ServiceNext(s)
    PROVE  Safe
PROOF
<1>1. CASE \E mode \in Modes, wait \in Waits : Subscribe(s, mode, wait)
  BY <1>1, SubscribeSafe
<1>2. CASE GameState(s)
  BY <1>2, GameStateSafe
<1>3. CASE StopAfterFlush(s)
  BY <1>3, StopAfterFlushSafe
<1>4. CASE Disconnect(s)
  BY <1>4, DisconnectSafe
<1>5. CASE \E kind \in Kinds : Status(s, kind)
  BY <1>5, StatusSafe
<1>6. CASE Expire(s)
  BY <1>6, ExpireSafe
<1>7. CASE ServiceStarts(s)
  BY <1>7, ServiceStartsSafe
<1>8. CASE ServiceEnds(s)
  BY <1>8, ServiceEndsSafe
<1> QED BY <1>1, <1>2, <1>3, <1>4, <1>5, <1>6, <1>7, <1>8 DEF ServiceNext

LEMMA DaemonNextSafe ==
    ASSUME IInv, DaemonNext
    PROVE  Safe
PROOF
<1>1. CASE TickLaunch
  BY <1>1, TickLaunchSafe
<1>2. CASE Surface
  BY <1>2, SurfaceSafe
<1>3. CASE BootRequest
  BY <1>3, BootRequestSafe
<1>4. CASE BootTick
  BY <1>4, BootTickSafe
<1>5. CASE DaemonCrash
  BY <1>5, DaemonCrashSafe
<1>6. CASE DaemonStarts
  BY <1>6, DaemonStartsSafe
<1> QED BY <1>1, <1>2, <1>3, <1>4, <1>5, <1>6 DEF DaemonNext

LEMMA NextSafe ==
    ASSUME IInv, [Next]_vars
    PROVE  Safe
PROOF
<1>1. CASE LauncherNext
  BY <1>1, LauncherNextSafe
<1>2. CASE WriterNext
  BY <1>2, WriterNextSafe
<1>3. CASE DaemonNext
  BY <1>3, DaemonNextSafe
<1>4. CASE \E s \in Service : ServiceNext(s)
  BY <1>4, ServiceNextSafe
<1>5. CASE UNCHANGED vars
  <2>1. UNCHANGED <<world, target, game, ui, up, consent>>
    BY <1>5 DEF vars
  <2>2. /\ game \in [leader : Leaders, kids : BOOLEAN] /\ GameInv /\ UiInv
        /\ ui \in Screens /\ (Calm => CalmInv)
    BY DEF IInv
  <2> QED BY <2>1, <2>2, WorldIs, IdleSafe DEF UiInv, GameInv, CalmInv
<1> QED BY <1>1, <1>2, <1>3, <1>4, <1>5 DEF Next

\* The invariant that ties the daemon's launch state to its connections, to
\* the record on the card, to the writer and to the launcher holds in every
\* state (cmd/jawakad/main.c:16410-18484).
THEOREM LaunchInvariance == Spec => []IInv
PROOF
<1>1. IInv /\ [Next]_vars => IInv'
  BY NextSafe DEF Safe
<1> QED BY InitInv, <1>1, PTL DEF Spec

LEMMA TypeFacts == IInv => TypeOK /\ ExchangesCounted
PROOF
<1> SUFFICES ASSUME IInv
             PROVE  TypeOK /\ ExchangesCounted
  OBVIOUS
<1>1. /\ World.d = d /\ World.conn = conn /\ World.svc = svc
      /\ World.disk = disk /\ World.ids = ids /\ World.tgt = target
      /\ Good(World) /\ World \in Worlds /\ d \in Loose
  BY WorldIs
<1>2. Open(World) = {s \in Service : conn[s].phase # "none"}
  BY <1>1 DEF Open
<1>3. d.exch = Cardinality(Open(World)) /\ (~d.coord => Open(World) = {})
  BY <1>1 DEF Good, Counted
<1>4. NServices \in Nat
  BY GameLaunchAssumption
<1>5. d.exch \in 0..NServices
  <2>1. IsFiniteSet(Service) /\ Cardinality(Service) = NServices
    <3>1. IsFiniteSet(1..NServices)
          /\ Cardinality(1..NServices) = IF 1 > NServices THEN 0 ELSE NServices - 1 + 1
      BY <1>4, FS_Interval
    <3> QED BY <1>4, <3>1 DEF Service
  <2>2. Open(World) \subseteq Service
    BY DEF Open
  <2>3. /\ Cardinality(Open(World)) <= Cardinality(Service)
        /\ Cardinality(Open(World)) \in Nat
    BY <2>1, <2>2, FS_Subset, OpenFinite
  <2> QED BY <1>3, <1>4, <2>1, <2>3
<1>6. d \in Daemons
  BY <1>1, <1>5 DEF Loose, Daemons
<1>7. TypeOK
  BY <1>1, <1>6, WorldFields DEF TypeOK, IInv, Leaders, Screens
<1>8. ~d.coord => d.exch = 0
  BY <1>3, FS_EmptySet
<1> QED BY <1>2, <1>3, <1>7, <1>8 DEF ExchangesCounted

\* Every variable holds a value of its type.
THEOREM TypeCorrect == Spec => []TypeOK
PROOF BY LaunchInvariance, TypeFacts, PTL

\* The counter that holds the writer back is the number of open exchanges,
\* whatever answers, deadlines, full queues, stops and dropped connections end
\* them and however these calls nest (cmd/jawakad/main.c:16410-17012).
THEOREM ExchangesAreCounted == Spec => []ExchangesCounted
PROOF BY LaunchInvariance, TypeFacts, PTL

\* While a process of a game may be writing there is a record of a launch on
\* the card, and a running daemon keeps the gate shut
\* (cmd/jawakad/main.c:17014-17033, 18462-18484).
THEOREM WriterIsRecorded == Spec => []WriterRecorded
PROOF
<1>1. IInv => WriterRecorded
  <2> SUFFICES ASSUME IInv, Writing(game)
               PROVE  disk # 0 /\ (up => d.act /\ d.gate)
    BY DEF WriterRecorded
  <2>1. World.d = d /\ Kept(World) /\ GameInv
    BY WorldIs DEF Good, IInv
  <2> QED BY <2>1 DEF Kept, GameInv
<1> QED BY LaunchInvariance, <1>1, PTL

\* When the launcher is told the truth in time, an active record always has a
\* launch, a writer or a recovery that accounts for it
\* (cmd/jawakad/main.c:16466, 16522-16530).
THEOREM RecordIsOwned == Calm => (Spec => []RecordHasOwner)
PROOF
<1>1. ASSUME Calm
      PROVE  IInv => RecordHasOwner
  <2> SUFFICES ASSUME IInv
               PROVE  RecordHasOwner
    OBVIOUS
  <2>1. World.d = d /\ Kept(World) /\ Tidy(World)
    BY <1>1, WorldIs DEF Good, IInv, CalmInv
  <2> QED BY <2>1 DEF Kept, Tidy, RecordHasOwner
<1>2. ASSUME Calm
      PROVE  Spec => []RecordHasOwner
  <2>1. IInv => RecordHasOwner
    BY <1>1, <1>2
  <2> QED BY LaunchInvariance, <2>1, PTL
<1> QED BY <1>2

\* No writer starts while a process of another one is left, this daemon's or
\* one of a daemon that crashed (cmd/jawakad/main.c:17014-17033, 18462-18484).
THEOREM OneWriterAtATime == Spec => OneWriter
PROOF
<1>1. IInv /\ [Next]_vars => (WriterStarts => ~Writing(game))
  BY NextSafe DEF Safe
<1>2. IInv /\ [Next]_vars => [WriterStarts => ~Writing(game)]_vars
  BY <1>1
<1> QED BY LaunchInvariance, <1>2, PTL DEF Spec, OneWriter
=============================================================================
