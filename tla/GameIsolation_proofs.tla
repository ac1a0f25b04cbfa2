------------------------- MODULE GameIsolation_proofs -------------------------
(***************************************************************************)
(* A writer is alone with the card: no game starts beside a service that   *)
(* has not made itself safe for it, unless the player accepted the risk,   *)
(* and what the player accepted for one game holds for no other.           *)
(*                                                                         *)
(* GameLaunch_proofs follows the daemon's own state; this module follows   *)
(* what the services said.  Isolated(w): every service of the launch is    *)
(* down, exempt, answered for it, or still being asked.  Of a function     *)
(* that turns w into x, Guards(w, x, out) says that it keeps this but for  *)
(* the services in out, Keeps(w, x) that it takes over no choice of the    *)
(* player and starts no writer, and Releases(w, x) that a writer it starts *)
(* has every service settled, or the player's word for this launch.        *)
(***************************************************************************)
EXTENDS GameLaunch_proofs

-----------------------------------------------------------------------------
(* The writer's isolation *)

\* A service the game need not fear: it may run beside any game, it is down,
\* or it answered ready for this launch.
Settled(w, s) ==
    \/ Manifest[s] = "ignore"
    \/ w.svc[s].st = "down"
    \/ w.svc[s].said = w.d.id

\* One the launch has dealt with, or is asking.
Cleared(w, s) == Settled(w, s) \/ Asking(w, s)

\* Every service has been, unless the player overrode what they say.
Isolated(w) ==
    w.d.coord \/ w.d.ready => w.d.override \/ \A s \in Service : Cleared(w, s)

\* Nobody asked to be checked, so that no check was skipped.
CheckFree(w) ==
    ~w.d.skip /\ ~w.d.verified /\ \A s \in Service : w.conn[s].mode # "check"

\* A function that starts no writer adds nothing to what the player is asked,
\* but that a launch was blocked.
Frank(w, x) ==
    /\ x.d.coord => w.d.coord
    /\ x.d.override => w.d.override
    /\ x.d.decision => w.d.decision /\ (w.d.coord => x.d.coord)
    /\ x.d.blocked => w.d.blocked \/ (w.d.coord /\ ~x.d.coord)
    /\ \A s \in Service :
          Checking(x.conn[s]) => Checking(w.conn[s]) \/ ~x.d.override

\* It keeps what the launch has dealt with, but for the services in out, and
\* the player's choice.
Guards(w, x, out) ==
    /\ Frank(w, x)
    /\ x.d.skip => w.d.skip
    /\ CheckFree(w) => CheckFree(x)
    /\ \A s \in Service : x.svc[s].st = "stale" => w.svc[s].st = "stale"
    /\ x.d.coord \/ x.d.ready =>
          /\ w.d.coord \/ w.d.ready
          /\ x.d.override = w.d.override
          /\ w.d.override \/ \A s \in Service \ out : Cleared(w, s) => Cleared(x, s)

LEMMA GuardsItself ==
    ASSUME NEW w
    PROVE  Guards(w, w, {})
PROOF
<1>1. Frank(w, w)
  BY DEF Frank
<1> QED BY <1>1 DEF Guards

LEMMA GuardsThen ==
    ASSUME NEW w, NEW x, NEW y, NEW A, NEW B, Guards(w, x, A), Guards(x, y, B)
    PROVE  Guards(w, y, A \cup B)
PROOF
<1>1. /\ Frank(w, y)
      /\ y.d.skip => w.d.skip
      /\ CheckFree(w) => CheckFree(y)
      /\ \A s \in Service : y.svc[s].st = "stale" => w.svc[s].st = "stale"
  <2>1. Frank(w, x) /\ Frank(x, y)
    BY DEF Guards
  <2>2. \A s \in Service :
           Checking(y.conn[s]) => Checking(w.conn[s]) \/ ~y.d.override
    BY <2>1 DEF Frank
  <2>3. Frank(w, y)
    BY <2>1, <2>2 DEF Frank
  <2> QED BY <2>3 DEF Guards
<1>2. ASSUME y.d.coord \/ y.d.ready
      PROVE  /\ w.d.coord \/ w.d.ready
             /\ y.d.override = w.d.override
             /\ w.d.override \/ \A s \in Service \ (A \cup B) : Cleared(w, s) => Cleared(y, s)
  <2>1. /\ x.d.coord \/ x.d.ready
        /\ y.d.override = x.d.override
        /\ x.d.override \/ \A s \in Service \ B : Cleared(x, s) => Cleared(y, s)
    BY <1>2 DEF Guards
  <2>2. /\ w.d.coord \/ w.d.ready
        /\ x.d.override = w.d.override
        /\ w.d.override \/ \A s \in Service \ A : Cleared(w, s) => Cleared(x, s)
    BY <2>1 DEF Guards
  <2> QED BY <2>1, <2>2
<1> QED BY <1>1, <1>2 DEF Guards

LEMMA GuardsBoth ==
    ASSUME NEW w, NEW x, NEW y, Guards(w, x, {}), Guards(x, y, {})
    PROVE  Guards(w, y, {})
PROOF
<1>1. {} \cup {} = {}
  OBVIOUS
<1> QED BY <1>1, GuardsThen

Flags == {"coord", "ready", "override", "skip", "verified", "id", "decision", "blocked"}

\* A function that keeps the launch, the services and the phases.
LEMMA GuardsSame ==
    ASSUME NEW w, NEW x,
           \A f \in Flags : x.d[f] = w.d[f],
           \A s \in Service : /\ x.svc[s].st = w.svc[s].st
                             /\ x.svc[s].said = w.svc[s].said
                             /\ x.conn[s].phase = w.conn[s].phase
                             /\ x.conn[s].mode \in {w.conn[s].mode, "notify"}
    PROVE  Guards(w, x, {})
PROOF
<1>1. /\ x.d.coord = w.d.coord /\ x.d.ready = w.d.ready
      /\ x.d.override = w.d.override /\ x.d.skip = w.d.skip
      /\ x.d.verified = w.d.verified /\ x.d.id = w.d.id
      /\ x.d.decision = w.d.decision /\ x.d.blocked = w.d.blocked
  BY DEF Flags
<1>2. CheckFree(w) => CheckFree(x)
  BY <1>1 DEF CheckFree
<1>3. \A s \in Service : Cleared(w, s) => Cleared(x, s)
  BY <1>1 DEF Cleared, Settled, Asking
<1>4. Frank(w, x)
  BY <1>1 DEF Frank, Checking
<1> QED BY <1>1, <1>2, <1>3, <1>4 DEF Guards

\* A launch that is over guards nothing any more.
LEMMA GuardsEnded ==
    ASSUME NEW w, NEW x, ~x.d.coord, ~x.d.ready, ~x.d.override, ~x.d.skip,
           ~x.d.decision, x.d.blocked => w.d.blocked \/ w.d.coord,
           CheckFree(w) => ~x.d.verified,
           \A s \in Service : /\ x.svc[s].st = w.svc[s].st
                             /\ x.conn[s].mode \in {w.conn[s].mode, "notify"}
    PROVE  Guards(w, x, {})
PROOF
<1>1. CheckFree(w) => CheckFree(x)
  BY DEF CheckFree
<1> QED BY <1>1 DEF Guards, Frank

LEMMA ClearGuards ==
    ASSUME NEW w \in Worlds, NEW e
    PROVE  LET x == ClearRecord(w, e)
           IN  /\ x.svc = w.svc
               /\ \A f \in {"coord", "ready", "override", "skip", "verified", "pending",
                            "decision", "blocked"} : x.d[f] = w.d[f]
PROOF
<1> DEFINE none == [w.d EXCEPT !.act = FALSE, !.uncertain = FALSE,
                      !.recovered = FALSE, !.id = 0, !.src = NoSource, !.gate = FALSE]
           kept == [w.d EXCEPT !.act = TRUE, !.uncertain = TRUE, !.gate = TRUE]
           x == ClearRecord(w, e)
           Fields == {"coord", "ready", "override", "skip", "verified", "pending",
                      "decision", "blocked"}
<1>1. w.d \in Loose
  BY WorldFields
<1>2. \A f \in Fields : none[f] = w.d[f] /\ kept[f] = w.d[f]
  BY <1>1 DEF Loose
<1>3. x.svc = w.svc /\ x.d \in {none, kept}
  <2>1. CASE e.clear = "ok"
    BY <2>1 DEF ClearRecord, Worlds
  <2>2. CASE e.clear # "ok"
    BY <2>2 DEF ClearRecord, Worlds
  <2> QED BY <2>1, <2>2
<1> HIDE DEF none, kept, x
<1> QED BY <1>2, <1>3 DEF x

LEMMA BroadcastGuards ==
    ASSUME NEW w \in Worlds, NEW e
    PROVE  LET x == Broadcast(w, e)
           IN  /\ x.d = w.d /\ x.svc = w.svc
               /\ \A s \in Service : x.conn[s].mode \in {w.conn[s].mode, "notify"}
PROOF
<1>1. NoConn.mode = "notify"
  BY DEF NoConn
<1> QED BY <1>1 DEF Broadcast, Worlds

LEMMA AbortGuards ==
    ASSUME NEW w \in Worlds, NEW e
    PROVE  LET x == Abort(w, e)
           IN  /\ Guards(w, x, {}) /\ ~x.d.override /\ ~x.d.skip
               /\ ~x.d.decision /\ x.d.blocked = w.d.blocked
               /\ x.d.verified = w.d.verified /\ x.svc = w.svc
               /\ \A s \in Service : x.conn[s].mode \in {w.conn[s].mode, "notify"}
PROOF
<1> DEFINE C == [s \in Service |-> [w.conn[s] EXCEPT !.phase = "none"]]
           c == [w.d EXCEPT
                    !.coord = FALSE, !.ready = FALSE, !.decision = FALSE,
                    !.exch = 0, !.pending = FALSE, !.override = FALSE,
                    !.skip = FALSE, !.started = FALSE]
           quiet == [[w EXCEPT !.d = c] EXCEPT !.conn = C]
           told == TellAborted(quiet, e)
           x == ForgetLaunch(told, e)
           Fields == {"coord", "ready", "override", "skip", "verified",
                      "decision", "blocked"}
<1>1. /\ C \in [Service -> Conns]
      /\ \A s \in Service : C[s].mode = w.conn[s].mode
  BY DEF Worlds, Conns, Phases
<1>2. c \in Loose
  <2>1. w.d \in Loose
    BY WorldFields
  <2> QED BY <2>1, ZenonT(60) DEF Loose
<1>3. ~c.coord /\ ~c.ready /\ ~c.override /\ ~c.skip /\ ~c.decision
  <2>1. w.d \in Loose
    BY WorldFields
  <2> QED BY <2>1 DEF Loose
<1>4. c.verified = w.d.verified /\ c.blocked = w.d.blocked
  <2>1. w.d \in Loose
    BY WorldFields
  <2> QED BY <2>1 DEF Loose
<1>5. Abort(w, e) = x
  BY ZenonT(60) DEF Abort, Worlds
<1> HIDE DEF C, c
<1>6. quiet \in Worlds /\ quiet.d = c /\ quiet.conn = C /\ quiet.svc = w.svc
  BY <1>1, <1>2 DEF Worlds
<1>7. Open(quiet) = {}
  BY <1>5, <1>6 DEF Open, C
<1> HIDE DEF quiet
<1>8. /\ told \in Worlds /\ told.d = c /\ told.svc = w.svc
      /\ \A s \in Service : told.conn[s].mode \in {w.conn[s].mode, "notify"}
  BY <1>1, <1>6, <1>7, BroadcastFacts, BroadcastGuards DEF TellAborted
<1> HIDE DEF told
<1>9. /\ x.svc = w.svc /\ x.conn = told.conn
      /\ \A f \in Fields : x.d[f] = c[f]
  BY <1>8, ClearFacts, ClearGuards DEF ForgetLaunch
<1> HIDE DEF x
<1>10. /\ ~x.d.coord /\ ~x.d.ready /\ ~x.d.override /\ ~x.d.skip
       /\ ~x.d.decision /\ x.d.blocked = w.d.blocked
       /\ x.d.verified = w.d.verified
  BY <1>3, <1>4, <1>9
<1>11. Guards(w, x, {})
  BY <1>8, <1>9, <1>10, GuardsEnded DEF CheckFree
<1> QED BY <1>5, <1>8, <1>9, <1>10, <1>11

LEMMA BlockGuards ==
    ASSUME NEW w \in Worlds, w.d.coord, NEW e,
           NEW verified \in BOOLEAN, NEW retry \in BOOLEAN,
           CheckFree(w) => ~verified
    PROVE  Guards(w, Block(w, e, verified, retry), {})
PROOF
<1> DEFINE a == Abort(w, e)
           c == [a.d EXCEPT !.blocked = TRUE, !.verified = verified, !.retry = retry]
           x == [a EXCEPT !.d = c]
<1>1. /\ a \in Worlds /\ Ended(w, a) /\ ~a.d.override /\ ~a.d.skip
      /\ ~a.d.decision /\ a.svc = w.svc
      /\ \A s \in Service : a.conn[s].mode \in {w.conn[s].mode, "notify"}
  BY AbortFacts, AbortGuards
<1> HIDE DEF a
<1>2. Block(w, e, verified, retry) = x
  BY <1>1 DEF Block, a, Worlds
<1>3. a.d \in Loose
  BY <1>1, WorldFields
<1>4. /\ c.coord = a.d.coord /\ c.ready = a.d.ready
      /\ c.override = a.d.override /\ c.skip = a.d.skip
      /\ c.decision = a.d.decision
  BY <1>3 DEF Loose
<1>5. c.verified = verified
  BY <1>3 DEF Loose
<1> HIDE DEF c
<1>6. x.d = c /\ x.conn = a.conn /\ x.svc = a.svc
  BY <1>1 DEF Worlds
<1> HIDE DEF x
<1>7. ~x.d.coord /\ ~x.d.ready /\ ~x.d.override /\ ~x.d.skip /\ ~x.d.decision
  BY <1>1, <1>4, <1>6 DEF Ended
<1> QED BY <1>1, <1>2, <1>5, <1>6, <1>7, GuardsEnded

LEMMA StopGuards ==
    ASSUME NEW w, Good(w), NEW e, NEW s \in Service
    PROVE  LET x == Stop(w, e, s)
           IN  /\ Guards(w, x, {})
               /\ StopVerified(w, e, s) => x.svc[s].st = "down"
               /\ CheckFree(w) => CheckFree(x)
               /\ x.conn[s].mode = w.conn[s].mode
               /\ x.d.override = w.d.override /\ x.d.skip = w.d.skip
PROOF
<1> DEFINE c == [w.d EXCEPT !.gate = TRUE]
           gated == [w EXCEPT !.d = c]
           x == Stop(w, e, s)
           Same(t) == /\ x.svc[t].st = w.svc[t].st /\ x.svc[t].said = w.svc[t].said
                      /\ x.conn[t].phase = w.conn[t].phase
                      /\ x.conn[t].mode = w.conn[t].mode
<1>1. w \in Worlds /\ w.d \in Loose
  BY WorldFields DEF Good
<1>2. /\ c.coord = w.d.coord /\ c.ready = w.d.ready
      /\ c.override = w.d.override /\ c.skip = w.d.skip
      /\ c.verified = w.d.verified /\ c.id = w.d.id
      /\ c.decision = w.d.decision /\ c.blocked = w.d.blocked
  BY <1>1 DEF Loose
<1>3. [w EXCEPT !.d.gate = TRUE] = gated
  BY <1>1 DEF Worlds
<1> HIDE DEF c
<1>4. gated.d = c /\ gated.conn = w.conn /\ gated.svc = w.svc
      /\ w.conn \in [Service -> Conns] /\ w.svc \in [Service -> Svcs]
      /\ gated = [gated EXCEPT !.d = c] /\ DOMAIN gated = {"d", "conn", "svc", "disk", "ids", "tgt"}
  BY <1>1 DEF Worlds
<1> HIDE DEF gated
<1>5. /\ x.d = c
      /\ \A t \in Service \ {s} : Same(t)
      /\ x.conn[s].phase = w.conn[s].phase /\ x.conn[s].mode = w.conn[s].mode
      /\ \/ x.svc[s].st = w.svc[s].st /\ x.svc[s].said = w.svc[s].said
         \/ x.svc[s].st = "down"
         \/ /\ w.svc[s].st = "live" /\ x.svc[s].st = "stuck"
            /\ x.svc[s].said = w.svc[s].said
      /\ StopVerified(w, e, s) => x.svc[s].st = "down"
  <2>1. CASE w.svc[s].st # "live"
    BY <1>3, <1>4, <2>1 DEF Stop, StopVerified
  <2>2. CASE w.svc[s].st = "live" /\ s \in e.hang
    <3> DEFINE v == [gated.svc[s] EXCEPT !.st = "stuck"]
               S == [gated.svc EXCEPT ![s] = v]
    <3>1. v.st = "stuck" /\ v.said = w.svc[s].said
      BY <1>4 DEF Svcs
    <3>2. x = [gated EXCEPT !.svc = S]
      BY <1>3, <2>2 DEF Stop
    <3> HIDE DEF v
    <3>3. S[s] = v /\ \A t \in Service \ {s} : S[t] = w.svc[t]
      BY <1>4
    <3> HIDE DEF S, x
    <3>4. x.d = c /\ x.conn = w.conn /\ x.svc = S
      BY <1>4, <3>2
    <3> QED BY <2>2, <3>1, <3>3, <3>4 DEF StopVerified
  <2>3. CASE w.svc[s].st = "live" /\ s \notin e.hang
    <3> DEFINE v == [gated.conn[s] EXCEPT !.bound = FALSE]
               C == [gated.conn EXCEPT ![s] = v]
               S == [gated.svc EXCEPT ![s] = Down]
    <3>1. v.phase = w.conn[s].phase /\ v.mode = w.conn[s].mode
      BY <1>4 DEF Conns
    <3>2. x = [[gated EXCEPT !.svc = S] EXCEPT !.conn = C]
      BY <1>3, <1>4, <2>3 DEF Stop
    <3> HIDE DEF v
    <3>3. /\ C[s] = v /\ \A t \in Service \ {s} : C[t] = w.conn[t]
          /\ S[s].st = "down" /\ \A t \in Service \ {s} : S[t] = w.svc[t]
      BY <1>4 DEF Down
    <3> HIDE DEF S, C, x
    <3>4. x.d = c /\ x.conn = C /\ x.svc = S
      BY <1>4, <3>2
    <3> QED BY <3>1, <3>3, <3>4
  <2> QED BY <2>1, <2>2, <2>3
<1> HIDE DEF x
<1>6. CheckFree(w) => CheckFree(x)
  BY <1>2, <1>5 DEF CheckFree
<1>7. \A t \in Service : Cleared(w, t) => Cleared(x, t)
  <2>1. x.d.id = w.d.id
    BY <1>2, <1>5
  <2>2. Cleared(w, s) => Cleared(x, s)
    BY <1>5, <2>1 DEF Cleared, Settled, Asking
  <2>3. \A t \in Service \ {s} : Cleared(w, t) => Cleared(x, t)
    BY <1>5, <2>1 DEF Cleared, Settled, Asking
  <2> QED BY <2>2, <2>3
<1>8. \A t \in Service : x.svc[t].st = "stale" => w.svc[t].st = "stale"
  BY <1>5
<1>9. Frank(w, x)
  BY <1>2, <1>5 DEF Frank, Checking
<1>10. Guards(w, x, {})
  BY <1>2, <1>5, <1>6, <1>7, <1>8, <1>9 DEF Guards
<1> QED BY <1>2, <1>5, <1>6, <1>10 DEF x

LEMMA EndExchangeGuards ==
    ASSUME NEW w, Good(w), NEW s \in Service
    PROVE  LET x == EndExchange(w, s)
           IN  /\ Guards(w, x, {s}) /\ x.svc = w.svc
               /\ x.conn[s].mode = w.conn[s].mode
               /\ x.d.override = w.d.override /\ x.d.id = w.d.id
PROOF
<1> DEFINE v == [w EXCEPT !.conn[s].phase = "none"]
           n == IF w.d.exch > 0 THEN w.d.exch - 1 ELSE 0
           c == [v.d EXCEPT !.exch = n]
           x == EndExchange(w, s)
<1>1. w \in Worlds /\ w.d \in Loose
  BY WorldFields DEF Good
<1>2. x = [v EXCEPT !.d = c]
  BY <1>1 DEF EndExchange, Worlds
<1>3. /\ v.d = w.d /\ v.svc = w.svc /\ v \in Worlds
      /\ v.conn[s].mode = w.conn[s].mode /\ v.conn[s].phase = "none"
      /\ \A t \in Service \ {s} : v.conn[t] = w.conn[t]
  <2>1. /\ v.d = w.d /\ v.svc = w.svc
        /\ v.conn[s].mode = w.conn[s].mode /\ v.conn[s].phase = "none"
    BY <1>1 DEF Worlds, Conns
  <2>2. "none" \in Phases
    BY DEF Phases
  <2>3. v \in Worlds /\ \A t \in Service \ {s} : v.conn[t] = w.conn[t]
    BY <1>1, <2>2, WithPhase
  <2> QED BY <2>1, <2>3
<1> HIDE DEF v, x
<1>4. /\ c.coord = w.d.coord /\ c.ready = w.d.ready
      /\ c.override = w.d.override /\ c.skip = w.d.skip
      /\ c.verified = w.d.verified /\ c.id = w.d.id
      /\ c.decision = w.d.decision /\ c.blocked = w.d.blocked
  BY <1>1, <1>3 DEF Loose
<1> HIDE DEF c, n
<1>5. x.d = c /\ x.conn = v.conn /\ x.svc = v.svc
  BY <1>2, <1>3 DEF Worlds
<1>6. CheckFree(w) => CheckFree(x)
  BY <1>3, <1>4, <1>5 DEF CheckFree
<1>7. \A t \in Service \ {s} : Cleared(w, t) => Cleared(x, t)
  BY <1>3, <1>4, <1>5 DEF Cleared, Settled, Asking
<1>8. Frank(w, x)
  BY <1>3, <1>4, <1>5 DEF Frank, Checking
<1>9. Guards(w, x, {s})
  BY <1>3, <1>4, <1>5, <1>6, <1>7, <1>8 DEF Guards
<1> QED BY <1>3, <1>4, <1>5, <1>9 DEF x

LEMMA HangupGuards ==
    ASSUME NEW w, Good(w), NEW s \in Service, ~Asking(w, s)
    PROVE  Guards(w, Hangup(w, s), {})
PROOF
<1> DEFINE x == Hangup(w, s)
<1>1. w \in Worlds
  BY DEF Good
<1>2. /\ x.d = w.d /\ x.svc = w.svc /\ x.conn[s] = NoConn
      /\ \A t \in Service \ {s} : x.conn[t] = w.conn[t]
  BY <1>1 DEF Hangup, Worlds
<1>3. NoConn.mode = "notify" /\ NoConn.phase = "none" /\ w.conn[s].phase = "none"
  BY DEF NoConn, Asking
<1> HIDE DEF x
<1>4. Guards(w, x, {})
  BY <1>2, <1>3, GuardsSame
<1> QED BY <1>4 DEF x

\* The service out of account is down, or answered, or the launch was overridden.
LEMMA GuardsClosed ==
    ASSUME NEW w, NEW x, NEW s, Guards(w, x, {s}), w.d.override \/ Cleared(x, s)
    PROVE  Guards(w, x, {})
PROOF BY DEF Guards

LEMMA ExchangeFailedGuards ==
    ASSUME NEW w, Good(w), NEW e, NEW s \in Service, Asking(w, s)
    PROVE  Guards(w, ExchangeFailed(w, e, s), {})
PROOF
<1> DEFINE x == EndExchange(w, s)
           y == Stop(x, e, s)
           b == Block(x, e, TRUE, FALSE)
           z == Block(y, e, FALSE, FALSE)
           r == ExchangeFailed(w, e, s)
<1>1. Good(x) /\ x.d.coord
  BY EndExchangeFacts
<1>2. /\ Guards(w, x, {s}) /\ x.svc = w.svc /\ x.conn[s].mode = w.conn[s].mode
      /\ x.d.override = w.d.override
  BY EndExchangeGuards
<1>3. Good(y) /\ y.d.coord
  BY <1>1, StopFacts
<1>4. /\ Guards(x, y, {})
      /\ StopVerified(x, e, s) => y.svc[s].st = "down"
  BY <1>1, StopGuards
<1>5. \/ w.conn[s].mode = "check" /\ r = b
      \/ (StopVerified(x, e, s) \/ w.d.override) /\ r = y
      \/ r = z
  BY DEF ExchangeFailed
<1> HIDE DEF x, y, r
<1>6. Guards(w, y, {s})
  BY <1>2, <1>4, GuardsThen
<1>7. CASE w.conn[s].mode = "check" /\ r = b
  <2>1. ~CheckFree(w) /\ ~CheckFree(x)
    BY <1>2, <1>7 DEF CheckFree
  <2>2. Guards(x, b, {})
    BY <1>1, <2>1, BlockGuards DEF Good
  <2>3. ~b.d.coord /\ ~b.d.ready
    BY <1>1, BlockFacts DEF Good, Ended
  <2> HIDE DEF b
  <2>4. Guards(w, b, {s})
    BY <1>2, <2>2, GuardsThen
  <2> QED BY <1>7, <2>3, <2>4 DEF Guards, r
<1>8. CASE (StopVerified(x, e, s) \/ w.d.override) /\ r = y
  <2>1. w.d.override \/ Cleared(y, s)
    BY <1>4, <1>8 DEF Cleared, Settled
  <2> QED BY <1>6, <1>8, <2>1, GuardsClosed DEF r
<1>9. CASE r = z
  <2>1. Guards(y, z, {})
    BY <1>3, BlockGuards DEF Good
  <2>2. ~z.d.coord /\ ~z.d.ready
    BY <1>3, BlockFacts DEF Good, Ended
  <2> HIDE DEF z
  <2>3. Guards(w, z, {s})
    BY <1>6, <2>1, GuardsThen
  <2> QED BY <1>9, <2>2, <2>3 DEF Guards, r
<1> QED BY <1>5, <1>7, <1>8, <1>9

LEMMA DropGuards ==
    ASSUME NEW w, Good(w), NEW e, NEW s \in Service
    PROVE  Guards(w, Drop(w, e, s), {})
PROOF
<1> DEFINE v == IF Asking(w, s) /\ w.d.coord THEN ExchangeFailed(w, e, s) ELSE w
           x == Hangup(v, s)
<1>1. Good(v) /\ Guards(w, v, {}) /\ ~Asking(v, s)
  <2>1. CASE Asking(w, s)
    <3>1. w.d.coord
      BY <2>1, EndExchangeFacts
    <3>2. v = ExchangeFailed(w, e, s)
      BY <2>1, <3>1
    <3>3. Good(v) /\ Open(v) \subseteq Open(w) \ {s}
      BY <2>1, <3>2, ExchangeFailedFacts
    <3>4. Guards(w, v, {})
      BY <2>1, <3>2, ExchangeFailedGuards
    <3> HIDE DEF v
    <3> QED BY <3>3, <3>4 DEF Open, Asking
  <2>2. CASE ~Asking(w, s)
    BY <2>2, GuardsItself
  <2> QED BY <2>1, <2>2
<1>2. Drop(w, e, s) = x
  BY DEF Drop
<1> HIDE DEF v
<1>3. Guards(v, x, {})
  BY <1>1, HangupGuards
<1> QED BY <1>1, <1>2, <1>3, GuardsBoth

LEMMA SendGuards ==
    ASSUME NEW w, Good(w), NEW e, NEW s \in Service
    PROVE  Guards(w, Send(w, e, s), {})
PROOF BY DropGuards, GuardsItself DEF Send

LEMMA SendToldGuards ==
    ASSUME NEW w, Good(w), NEW e, NEW s \in Service
    PROVE  Guards(w, SendTold(w, e, s), {})
PROOF
<1> DEFINE x == [w EXCEPT !.svc[s].told = @ \cup {w.d.id}]
<1>1. w \in Worlds
  BY DEF Good
<1>2. /\ x.d = w.d /\ x.conn = w.conn
      /\ \A t \in Service : x.svc[t].st = w.svc[t].st /\ x.svc[t].said = w.svc[t].said
  BY <1>1 DEF Worlds, Svcs
<1> HIDE DEF x
<1>3. Guards(w, x, {})
  BY <1>2, GuardsSame
<1> QED BY <1>3, DropGuards DEF SendTold, x

\* An exchange opens or moves on.
LEMMA PhaseGuards ==
    ASSUME NEW w \in Worlds, NEW s \in Service, NEW p \in Phases \ {"none"},
           Asking(w, s) \/ w.conn[s].mode # "check" \/ ~w.d.override
    PROVE  LET x == [w EXCEPT !.conn[s].phase = p]
           IN  Guards(w, x, {}) /\ x.d = w.d /\ Asking(x, s)
PROOF
<1> DEFINE x == [w EXCEPT !.conn[s].phase = p]
<1>1. /\ x.d = w.d /\ x.svc = w.svc
      /\ x.conn[s].phase = p /\ x.conn[s].mode = w.conn[s].mode
      /\ \A t \in Service \ {s} : x.conn[t] = w.conn[t]
  BY DEF Worlds, Conns
<1> HIDE DEF x
<1>2. CheckFree(w) => CheckFree(x)
  BY <1>1 DEF CheckFree
<1>3. \A t \in Service : Cleared(w, t) => Cleared(x, t)
  BY <1>1 DEF Cleared, Settled, Asking
<1>4. Frank(w, x)
  BY <1>1 DEF Frank, Checking, Asking
<1>5. Guards(w, x, {}) /\ x.d = w.d /\ Asking(x, s)
  BY <1>1, <1>2, <1>3, <1>4 DEF Guards, Asking
<1> QED BY <1>5 DEF x

LEMMA CancelGuards ==
    ASSUME NEW w, Good(w), NEW e, NEW s \in Service, Asking(w, s)
    PROVE  Guards(w, Cancel(w, e, s), {})
PROOF
<1> DEFINE v == [w EXCEPT !.conn[s].phase = "ack"]
<1>1. "ack" \in Phases \ {"none"} /\ w \in Worlds
  BY DEF Phases, Good
<1>2. Guards(w, v, {}) /\ Good(v)
  BY <1>1, PhaseGuards, PhaseFacts
<1>3. Cancel(w, e, s) = Send(v, e, s)
  BY DEF Cancel
<1> HIDE DEF v
<1>4. Guards(v, Send(v, e, s), {})
  BY <1>2, SendGuards
<1> QED BY <1>2, <1>3, <1>4, GuardsBoth

LEMMA BeginGuards ==
    ASSUME NEW w, Good(w), w.d.coord, NEW e, NEW s \in Service,
           ~Asking(w, s), w.conn[s].sub, w.conn[s].mode # "check" \/ ~w.d.override
    PROVE  LET x == Begin(w, e, s)
           IN  /\ Guards(w, x, {})
               /\ x.d.coord => w.d.override \/ Cleared(x, s)
PROOF
<1>1. w \in Worlds /\ w.d \in Loose
  BY WorldFields DEF Good
<1>2. PICK p \in Phases \ {"none"} : Begin(w, e, s) = SendTold(Opened(w, s, p), e, s)
  BY <1>1, BeginIs
<1> DEFINE c == [w.d EXCEPT !.exch = @ + 1]
           v == [w EXCEPT !.d = c]
           o == Opened(w, s, p)
           x == SendTold(o, e, s)
<1>3. c \in Loose
  BY <1>1 DEF Loose
<1>4. \A f \in Flags : c[f] = w.d[f]
  BY <1>1 DEF Loose, Flags
<1> HIDE DEF c
<1>5. v \in Worlds /\ v.d = c /\ v.conn = w.conn /\ v.svc = w.svc
  BY <1>1, <1>3 DEF Worlds
<1>6. o = [v EXCEPT !.conn[s].phase = p]
  BY DEF Opened, c
<1> HIDE DEF v
<1>7. Guards(w, v, {})
  BY <1>4, <1>5, GuardsSame
<1>8. Good(o)
  BY OpenedFacts
<1> HIDE DEF o
<1>9. Guards(v, o, {}) /\ o.d = v.d /\ Asking(o, s)
  <2>1. v.d.override = w.d.override
    BY <1>4, <1>5 DEF Flags
  <2> QED BY <1>5, <1>6, <2>1, PhaseGuards
<1>10. Guards(w, o, {})
  BY <1>7, <1>9, GuardsBoth
<1>11. Guards(o, x, {})
  BY <1>8, SendToldGuards
<1>12. Begin(w, e, s) = x
  BY <1>2 DEF o, x
<1> HIDE DEF x
<1>13. x.d.coord => w.d.override \/ Cleared(x, s)
  <2>1. o.d.override = w.d.override
    BY <1>4, <1>5, <1>9 DEF Flags
  <2> QED BY <1>9, <1>11, <2>1 DEF Guards, Cleared
<1> QED BY <1>10, <1>11, <1>12, <1>13, GuardsBoth

-----------------------------------------------------------------------------
(* What a loop over the services keeps *)

LEMMA DropUnboundGuards ==
    ASSUME NEW w, Good(w), NEW e, NEW s \in Service
    PROVE  Guards(w, DropUnbound(w, e, s), {})
PROOF BY DropGuards, GuardsItself DEF DropUnbound

LEMMA StopOrBlockGuards ==
    ASSUME NEW w, Good(w), w.d.coord, NEW e, NEW s \in Service
    PROVE  LET y == StopOrBlock(w, e, s)
           IN  /\ Guards(w, y, {})
               /\ y.d.coord => w.d.override \/ Cleared(y, s)
PROOF
<1> DEFINE y == Stop(w, e, s)
           z == Block(y, e, w.d.skip, FALSE)
<1>1. Good(y) /\ y.d.coord
  BY StopFacts
<1>2. /\ Guards(w, y, {})
      /\ StopVerified(w, e, s) => y.svc[s].st = "down"
      /\ y.d.skip = w.d.skip
  BY StopGuards
<1>3. w.d.skip \in BOOLEAN
  <2>1. w.d \in Loose
    BY WorldFields DEF Good
  <2> QED BY <2>1 DEF Loose
<1>4. \/ (StopVerified(w, e, s) \/ w.d.override) /\ StopOrBlock(w, e, s) = y
      \/ StopOrBlock(w, e, s) = z
  BY DEF StopOrBlock
<1> HIDE DEF y
<1>5. Guards(y, z, {})
  <2>1. CheckFree(y) => ~w.d.skip
    BY <1>2 DEF CheckFree
  <2> QED BY <1>1, <1>3, <2>1, BlockGuards DEF Good
<1>6. ~z.d.coord
  BY <1>1, <1>3, BlockFacts DEF Good, Ended
<1> HIDE DEF z
<1>7. StopVerified(w, e, s) => Cleared(y, s)
  BY <1>2 DEF Cleared, Settled
<1>8. Guards(w, z, {})
  BY <1>2, <1>5, GuardsBoth
<1> QED BY <1>2, <1>4, <1>6, <1>7, <1>8

LEMMA VisitGuards ==
    ASSUME NEW w, Good(w), w.d.coord, NEW e, NEW s \in Service, ~Asking(w, s),
           w.d.override \/ s \notin Survivors(w)
    PROVE  LET x == Visit(w, e, s)
           IN  /\ Guards(w, x, {})
               /\ x.d.coord => w.d.override \/ Cleared(x, s)
PROOF
<1> DEFINE x == DropUnbound(w, e, s)
           y == StopOrBlock(x, e, s)
           z == Begin(w, e, s)
           r == Visit(w, e, s)
<1>1. Good(x) /\ x.d.coord
  <2>1. Hangup(w, s).d = w.d
    BY DEF Hangup, Good, Worlds
  <2>2. x.d = w.d
    BY <2>1 DEF DropUnbound, Drop
  <2> QED BY <2>2, DropUnboundFacts
<1>2. Guards(w, x, {})
  BY DropUnboundGuards
<1>3. Guards(x, y, {}) /\ (y.d.coord => x.d.override \/ Cleared(y, s))
  BY <1>1, StopOrBlockGuards
<1>4. Usable(w, s) /\ (w.conn[s].mode # "check" \/ ~w.d.override) =>
         /\ Guards(w, z, {})
         /\ z.d.coord => w.d.override \/ Cleared(z, s)
  BY BeginGuards DEF Usable
<1>5. \/ ~Owned(w, s) /\ r = w
      \/ ~Usable(w, s) /\ Manifest[s] = "ignore" /\ r = x
      \/ Usable(w, s) /\ (w.conn[s].mode # "check" \/ ~w.d.override) /\ r = z
      \/ r = y
  <2>1. GamePolicy(w, s) = "ignore" => ~Usable(w, s) /\ Manifest[s] = "ignore"
    BY DEF GamePolicy
  <2>2. Usable(w, s) /\ GamePolicy(w, s) = "notify" => w.conn[s].mode # "check"
    BY DEF GamePolicy
  <2> QED BY <2>1, <2>2 DEF Visit
<1> HIDE DEF x, y, z
<1>6. CASE ~Owned(w, s) /\ r = w
  <2>1. w.svc[s] \in Svcs
    BY DEF Good, Worlds
  <2>2. w.svc[s].st \in {"down", "stale"}
    BY <1>6, <2>1 DEF Owned, Svcs
  <2>3. w.d.override \/ Cleared(w, s)
    BY <2>2 DEF Survivors, Cleared, Settled
  <2> QED BY <1>6, <2>3, GuardsItself
<1>7. CASE ~Usable(w, s) /\ Manifest[s] = "ignore" /\ r = x
  <2>1. Cleared(x, s)
    BY <1>7 DEF Cleared, Settled
  <2> HIDE DEF r
  <2> QED BY <1>2, <1>7, <2>1 DEF r
<1>8. CASE Usable(w, s) /\ (w.conn[s].mode # "check" \/ ~w.d.override) /\ r = z
  BY <1>4, <1>8
<1>9. CASE r = y
  <2>1. Guards(w, y, {})
    BY <1>2, <1>3, GuardsBoth
  <2>2. x.d.override => w.d.override
    BY <1>2 DEF Guards, Frank
  <2> HIDE DEF r
  <2> QED BY <1>3, <1>9, <2>1, <2>2 DEF r
<1> QED BY <1>5, <1>6, <1>7, <1>8, <1>9

LEMMA VisitAllGuards ==
    ASSUME NEW w, Good(w), w.d.coord, Open(w) = {}, NEW e,
           w.d.override \/ Survivors(w) = {}
    PROVE  LET x == VisitAll(w, e)
           IN  /\ Guards(w, x, Service)
               /\ x.d.coord => w.d.override \/ \A s \in Service : Cleared(x, s)
PROOF
<1> DEFINE Body(g) ==
               [s \in 0..NServices |->
                  IF s = 0 THEN w
                  ELSE IF g[s - 1].d.coord THEN Visit(g[s - 1], e, s) ELSE g[s - 1]]
           f == CHOOSE g : g = Body(g)
           Seen(n) == \A s \in 1..n : Cleared(f[n], s)
           Fine(n) == /\ Good(f[n]) /\ Open(f[n]) \subseteq 1..n
                      /\ f[n].d.coord => ~f[n].d.ready
                      /\ Guards(w, f[n], Service)
                      /\ f[n].d.coord => w.d.override \/ Seen(n)
           P == {n \in Nat : n <= NServices => Fine(n)}
<1>1. NServices \in Nat
  BY GameLaunchAssumption
<1>2. f = [s \in 0..NServices |-> IF s = 0 THEN w ELSE Turned(f[s - 1], e, s, TRUE)]
  <2>1. PICK g : Turns(g, NServices, w, e, TRUE)
    BY <1>1, TurnsExist
  <2>2. g = Body(g)
    BY <2>1 DEF Turns, Turned
  <2>3. f = Body(f)
    BY <2>2
  <2> HIDE DEF f
  <2> QED BY <2>3 DEF Turned
<1>3. VisitAll(w, e) = f[NServices]
  BY DEF VisitAll
<1> HIDE DEF f
<1>4. 0 \in P
  <2>1. f[0] = w
    BY <1>1, <1>2
  <2>2. Guards(w, w, Service) /\ Seen(0)
    BY GuardsItself DEF Guards
  <2>3. w.d.coord => ~w.d.ready
    BY DEF Good, Kept
  <2> QED BY <2>1, <2>2, <2>3
<1>5. ASSUME NEW n \in Nat, n \in P
      PROVE  n + 1 \in P
  <2> SUFFICES ASSUME n + 1 <= NServices
               PROVE  Fine(n + 1)
    OBVIOUS
  <2>1. n + 1 \in Service /\ n + 1 \in 0..NServices /\ n + 1 # 0 /\ (n + 1) - 1 = n
    BY <1>1 DEF Service
  <2>2. f[n + 1] = Turned(f[n], e, n + 1, TRUE)
    BY <1>2, <2>1
  <2>3. Fine(n)
    BY <1>1, <1>5
  <2>4. ~Asking(f[n], n + 1)
    BY <2>1, <2>3 DEF Open, Asking
  <2>5. CASE ~f[n].d.coord
    <3>1. f[n + 1] = f[n]
      BY <2>2, <2>5 DEF Turned
    <3> QED BY <2>3, <2>5, <3>1
  <2>6. CASE f[n].d.coord
    <3> DEFINE v == f[n]
               y == Visit(v, e, n + 1)
    <3>1. Good(v) /\ v.d.coord /\ Guards(w, v, Service) /\ (w.d.override \/ Seen(n))
      BY <2>3, <2>6
    <3>2. v.d.override = w.d.override
      BY <3>1 DEF Guards
    <3>3. v.d.override \/ n + 1 \notin Survivors(v)
      BY <3>1, <3>2 DEF Guards, Survivors
    <3>4. f[n + 1] = y
      BY <2>2, <2>6 DEF Turned
    <3>5. Good(y) /\ Open(y) \subseteq Open(v) \cup {n + 1}
      BY <2>1, <2>4, <3>1, VisitFacts
    <3>6. /\ Guards(v, y, {})
          /\ y.d.coord => v.d.override \/ Cleared(y, n + 1)
      BY <2>1, <2>4, <3>1, <3>3, VisitGuards
    <3> HIDE DEF v, y
    <3>7. Guards(w, y, Service)
      <4>1. Service \cup {} = Service
        OBVIOUS
      <4> QED BY <3>1, <3>6, <4>1, GuardsThen
    <3>8. ASSUME y.d.coord, ~w.d.override
          PROVE  \A s \in 1..(n + 1) : Cleared(y, s)
      <4>1. \A s \in Service : Cleared(v, s) => Cleared(y, s)
        BY <3>2, <3>6, <3>8 DEF Guards
      <4>2. \A s \in 1..n : Cleared(v, s) /\ s \in Service
        BY <1>1, <2>1, <3>1, <3>8 DEF v, Service
      <4>3. Cleared(y, n + 1)
        BY <3>2, <3>6, <3>8
      <4>4. \A s \in 1..(n + 1) : s \in 1..n \/ s = n + 1
        OBVIOUS
      <4> QED BY <4>1, <4>2, <4>3, <4>4
    <3>9. y.d.coord => ~y.d.ready
      BY <3>5 DEF Good, Kept
    <3>10. Open(y) \subseteq 1..(n + 1)
      BY <2>3, <3>5 DEF v
    <3> QED BY <3>4, <3>5, <3>7, <3>8, <3>9, <3>10
  <2> QED BY <2>5, <2>6
<1> HIDE DEF P
<1>6. NServices \in P
  BY <1>1, <1>4, <1>5, SetInduction
<1> QED BY <1>1, <1>3, <1>6 DEF P, Service

-----------------------------------------------------------------------------
(* What the player chose *)

\* A game was asked for, and its writer has not started.
Asked(w) == w.d.pending \/ w.d.coord \/ w.d.ready

\* A launch is over when the player is told that it was blocked; one that the
\* player overrode asks nothing, and no launcher is alive while it goes on.
Plain(w) ==
    /\ w.d.blocked => /\ ~w.d.pending /\ ~w.d.coord /\ ~w.d.decision
                      /\ w.d.child # "game"
    /\ w.d.override => /\ ~w.d.decision /\ ~w.d.ready
                       /\ w.d.coord => w.d.child = Nobody
                       /\ \A s \in Service : ~Checking(w.conn[s])
    /\ w.d.child = "game" => ~w.d.override

\* A function that takes over no choice and starts no writer.
Keeps(w, x) ==
    /\ x.d.override => w.d.override
    /\ x.d.skip => w.d.skip
    /\ CheckFree(w) => CheckFree(x)
    /\ Asked(x) => Asked(w)
    /\ Plain(w) => Plain(x)
    /\ w.d.child # "game" => x.d.child # "game"

\* A function that may start a writer: it does so with every service settled,
\* or overridden for this very launch.
Releases(w, x) ==
    /\ x.d.override => w.d.override
    /\ x.d.skip => w.d.skip
    /\ CheckFree(w) => CheckFree(x)
    /\ Asked(x) => Asked(w)
    /\ Plain(w) => Plain(x)
    /\ Isolated(x)
    /\ x.d.child = "game" /\ w.d.child # "game" =>
          /\ ~Asked(x) /\ ~x.d.override
          /\ (Asked(w) /\ w.d.override) \/ \A s \in Service : Settled(x, s)

LEMMA KeepsReleases ==
    ASSUME NEW w, NEW x, NEW y, Keeps(w, x), Releases(x, y)
    PROVE  Releases(w, y)
PROOF BY DEF Keeps, Releases

LEMMA KeepsIsolated ==
    ASSUME NEW w, NEW x, Keeps(w, x), Isolated(x)
    PROVE  Releases(w, x)
PROOF BY DEF Keeps, Releases

LEMMA FrankPlain ==
    ASSUME NEW w, Good(w), NEW x, Frank(w, x), Steady(w, x), Plain(w)
    PROVE  Plain(x)
PROOF
<1>1. x.d.child = w.d.child /\ (x.d.coord => w.d.coord)
  BY DEF Steady, SameRest
<1>2. ASSUME x.d.blocked
      PROVE  ~x.d.pending /\ ~x.d.coord /\ ~x.d.decision /\ x.d.child # "game"
  <2>1. CASE w.d.blocked
    BY <1>1, <2>1 DEF Plain, Frank, Steady, SameRecord
  <2>2. CASE w.d.coord /\ ~x.d.coord
    BY <1>1, <2>2 DEF Frank, Steady, Ended, Good, Kept
  <2> QED BY <1>2, <2>1, <2>2 DEF Frank
<1>3. ASSUME x.d.override
      PROVE  /\ w.d.override /\ ~x.d.decision /\ ~x.d.ready
             /\ x.d.coord => x.d.child = Nobody
             /\ \A s \in Service : ~Checking(x.conn[s])
  <2>1. /\ w.d.override /\ ~w.d.decision /\ ~w.d.ready
        /\ w.d.coord => w.d.child = Nobody
        /\ \A s \in Service : ~Checking(w.conn[s])
    BY <1>3 DEF Frank, Plain
  <2>2. ~x.d.ready
    BY <2>1 DEF Steady, SameRecord, Ended
  <2> QED BY <1>1, <1>3, <2>1, <2>2 DEF Frank
<1> QED BY <1>1, <1>2, <1>3 DEF Plain

LEMMA GuardsKeeps ==
    ASSUME NEW w, Good(w), NEW x, NEW A, Guards(w, x, A), Steady(w, x)
    PROVE  Keeps(w, x)
PROOF
<1>1. Asked(x) => Asked(w)
  BY DEF Asked, Steady, SameRecord, Ended
<1>2. x.d.child = w.d.child
  BY DEF Steady, SameRest
<1>3. Frank(w, x)
  BY DEF Guards
<1>4. Plain(w) => Plain(x)
  BY <1>3, FrankPlain
<1> QED BY <1>1, <1>2, <1>3, <1>4 DEF Guards, Keeps, Frank

LEMMA GuardsIsolated ==
    ASSUME NEW w, NEW x, Guards(w, x, {}), Isolated(w)
    PROVE  Isolated(x)
PROOF BY DEF Guards, Isolated

LEMMA SteadyReleases ==
    ASSUME NEW w, Good(w), NEW x, Guards(w, x, {}), Steady(w, x), Isolated(w)
    PROVE  Releases(w, x)
PROOF BY GuardsKeeps, GuardsIsolated, KeepsIsolated

LEMMA EndedReleases ==
    ASSUME NEW w, Good(w), w.d.coord, NEW x \in Worlds, NEW A, Guards(w, x, A), Ended(w, x)
    PROVE  Releases(w, x)
PROOF
<1>1. Isolated(x)
  BY DEF Ended, Isolated
<1> QED BY <1>1, EndedSteady, GuardsKeeps, KeepsIsolated

\* Without an open exchange the services of a launch are settled.
LEMMA IsolatedSettled ==
    ASSUME NEW w, Isolated(w), w.d.coord \/ w.d.ready, Open(w) = {}
    PROVE  w.d.override \/ \A s \in Service : Settled(w, s)
PROOF BY DEF Isolated, Cleared, Asking, Open

LEMMA LaunchIfReadyReleases ==
    ASSUME NEW w, Good(w), Isolated(w), NEW e
    PROVE  Releases(w, LaunchIfReady(w, e))
PROOF
<1> DEFINE x == LaunchIfReady(w, e)
           a == Abort(w, e)
           held == [w.d EXCEPT !.coord = FALSE, !.ready = TRUE]
           play == [w.d EXCEPT !.coord = FALSE, !.child = "game", !.pending = FALSE,
                               !.override = FALSE, !.started = TRUE]
           h == [w EXCEPT !.d = held]
           p == [w EXCEPT !.d = play]
<1>1. w \in Worlds /\ w.d \in Loose
  BY WorldFields DEF Good
<1>2. CASE ~w.d.coord \/ w.d.exch > 0
  BY <1>2, GuardsItself, SteadyItself, SteadyReleases DEF LaunchIfReady
<1>3. CASE w.d.coord /\ ~(w.d.exch > 0)
  <2>1. Open(w) = {}
    <3>1. w.d.exch = 0
      BY <1>1, <1>3 DEF Loose
    <3> QED BY <3>1, OpenFinite, FS_EmptySet DEF Good, Counted
  <2>2. w.d.override \/ \A s \in Service : Settled(w, s)
    BY <1>3, <2>1, IsolatedSettled
  <2>3. Releases(w, a)
    <3>1. Guards(w, a, {}) /\ Ended(w, a) /\ a \in Worlds
      BY <1>1, AbortFacts, AbortGuards
    <3> HIDE DEF a
    <3> QED BY <1>3, <3>1, EndedReleases
  <2>4. CASE w.d.child = "launcher"
    <3>1. /\ held.override = w.d.override /\ held.skip = w.d.skip
          /\ held.verified = w.d.verified /\ held.id = w.d.id
          /\ held.child = w.d.child /\ held.blocked = w.d.blocked
          /\ held.decision = w.d.decision /\ held.pending = w.d.pending
      BY <1>1 DEF Loose
    <3>7. ~held.coord /\ held.ready
      BY <1>1 DEF Loose
    <3> HIDE DEF held
    <3>2. h.d = held /\ h.conn = w.conn /\ h.svc = w.svc
      BY <1>1 DEF Worlds
    <3>3. x \in {a, h}
      <4>1. [[w EXCEPT !.d.coord = FALSE] EXCEPT !.d.ready = TRUE] = h
        BY <1>1 DEF held, Worlds
      <4> HIDE DEF h
      <4> QED BY <1>3, <2>4, <4>1 DEF LaunchIfReady
    <3> HIDE DEF h
    <3>4. Isolated(h)
      BY <2>2, <3>1, <3>2 DEF Isolated, Cleared, Settled
    <3>8. Plain(w) => Plain(h)
      <4>1. Plain(w) => ~w.d.blocked /\ ~w.d.override
        BY <1>3, <2>4 DEF Plain, Nobody
      <4> QED BY <2>4, <3>1, <3>2, <4>1 DEF Plain
    <3>5. Keeps(w, h)
      BY <1>3, <2>4, <3>1, <3>2, <3>8 DEF Keeps, CheckFree, Asked
    <3>6. Releases(w, h)
      BY <3>4, <3>5, KeepsIsolated
    <3> HIDE DEF x, a
    <3> QED BY <2>3, <3>3, <3>6 DEF x
  <2>5. CASE w.d.child # "launcher"
    <3>1. /\ play.skip = w.d.skip /\ play.verified = w.d.verified
          /\ play.blocked = w.d.blocked
          /\ play.id = w.d.id /\ play.ready = w.d.ready
      BY <1>1 DEF Loose
    <3>2. play.override = FALSE /\ play.pending = FALSE /\ play.coord = FALSE
      BY <1>1 DEF Loose
    <3> HIDE DEF play
    <3>3. p.d = play /\ p.conn = w.conn /\ p.svc = w.svc
      BY <1>1 DEF Worlds
    <3>4. x \in {a, p}
      <4>1. StartWriter([w EXCEPT !.d.coord = FALSE]) = p
        BY <1>1 DEF StartWriter, play, Worlds
      <4> HIDE DEF p
      <4> QED BY <1>3, <2>5, <4>1 DEF LaunchIfReady
    <3> HIDE DEF p
    <3>5. ~Asked(p)
      BY <1>3, <3>1, <3>2, <3>3 DEF Asked, Good, Kept
    <3>6. w.d.override \/ \A s \in Service : Settled(p, s)
      BY <2>2, <3>1, <3>3 DEF Settled
    <3>7. Asked(w) /\ Isolated(p)
      BY <1>3, <3>5 DEF Asked, Isolated
    <3>8. CheckFree(w) => CheckFree(p)
      BY <3>1, <3>3 DEF CheckFree
    <3>9. Plain(w) => Plain(p)
      BY <1>3, <3>1, <3>2, <3>3 DEF Plain
    <3>10. Releases(w, p)
      BY <3>1, <3>2, <3>3, <3>5, <3>6, <3>7, <3>8, <3>9 DEF Releases
    <3> HIDE DEF x, a
    <3> QED BY <2>3, <3>4, <3>10 DEF x
  <2> QED BY <2>4, <2>5
<1> QED BY <1>2, <1>3

LEMMA SteadyLaunchIfReady ==
    ASSUME NEW w, Good(w), Isolated(w), NEW x, Good(x), Steady(w, x),
           Guards(w, x, {}), NEW e
    PROVE  Releases(w, LaunchIfReady(x, e))
PROOF BY GuardsKeeps, GuardsIsolated, KeepsReleases, LaunchIfReadyReleases

LEMMA CommitKeeps ==
    ASSUME NEW w, Good(w), w.d.pending, ~w.d.act, w.d.child = Nobody, NEW e
    PROVE  Keeps(w, Commit(w, e))
PROOF
<1> DEFINE x == Commit(w, e)
<1>1. /\ x.conn = w.conn /\ x.d.child = Nobody /\ ~x.d.ready
      /\ x.d.override = w.d.override /\ x.d.skip = w.d.skip
      /\ x.d.verified = w.d.verified /\ x.d.decision = w.d.decision
      /\ x.d.blocked = w.d.blocked
  BY CommitFacts
<1> HIDE DEF x
<1>2. CheckFree(w) => CheckFree(x)
  BY <1>1 DEF CheckFree
<1>3. Asked(w)
  BY DEF Asked
<1>4. Plain(w) => Plain(x)
  BY <1>1 DEF Plain, Nobody
<1>5. Keeps(w, x)
  BY <1>1, <1>2, <1>3, <1>4 DEF Keeps, Nobody
<1> QED BY <1>5 DEF x

LEMMA CoordinateReleases ==
    ASSUME NEW w, Good(w), w.d.coord, Open(w) = {}, NEW e
    PROVE  Releases(w, Coordinate(w, e))
PROOF
<1> DEFINE b == Block(w, e, FALSE, FALSE)
           v == VisitAll(w, e)
           p == Block(v, e, FALSE, TRUE)
           l == LaunchIfReady(v, e)
<1>1. w \in Worlds
  BY DEF Good
<1>2. Releases(w, b)
  <2>1. Guards(w, b, {}) /\ Ended(w, b) /\ b \in Worlds
    BY <1>1, BlockFacts, BlockGuards
  <2> HIDE DEF b
  <2> QED BY <2>1, EndedReleases
<1>3. CASE Survivors(w) # {} /\ ~w.d.override
  BY <1>2, <1>3 DEF Coordinate
<1>4. CASE w.d.override \/ Survivors(w) = {}
  <2>1. Good(v) /\ Steady(w, v)
    BY VisitAllFacts
  <2>2. /\ Guards(w, v, Service)
        /\ v.d.coord => w.d.override \/ \A s \in Service : Cleared(v, s)
    BY <1>4, VisitAllGuards
  <2>3. \/ Coordinate(w, e) = p /\ v.d.coord
        \/ Coordinate(w, e) = l
    BY <1>4 DEF Coordinate, CheckProxy
  <2> HIDE DEF v
  <2>4. v.d.coord \/ ~v.d.ready
    BY <2>1 DEF Steady, Ended
  <2>5. Isolated(v)
    BY <2>2, <2>4 DEF Guards, Isolated
  <2>6. Keeps(w, v)
    BY <2>1, <2>2, GuardsKeeps
  <2>7. v.d.coord => Releases(v, p)
    <3> SUFFICES ASSUME v.d.coord
                 PROVE  Releases(v, p)
      OBVIOUS
    <3>1. Guards(v, p, {}) /\ Ended(v, p) /\ p \in Worlds
      BY <2>1, BlockFacts, BlockGuards DEF Good
    <3> HIDE DEF p
    <3> QED BY <2>1, <3>1, EndedReleases
  <2>8. Releases(v, l)
    BY <2>1, <2>5, LaunchIfReadyReleases
  <2> HIDE DEF p, l
  <2> QED BY <2>3, <2>6, <2>7, <2>8, KeepsReleases
<1> QED BY <1>3, <1>4

LEMMA RefuseKeeps ==
    ASSUME NEW w, Good(w)
    PROVE  LET x == Refuse(w)
           IN  Keeps(w, x) /\ x.svc = w.svc
PROOF
<1> DEFINE c == [w.d EXCEPT !.pending = FALSE, !.override = FALSE]
           x == [w EXCEPT !.d = c]
<1>1. w \in Worlds /\ w.d \in Loose
  BY WorldFields DEF Good
<1>2. Refuse(w) = x
  BY <1>1 DEF Refuse, Worlds
<1>3. c.pending = FALSE /\ c.override = FALSE
  BY <1>1 DEF Loose
<1>4. /\ c.skip = w.d.skip /\ c.verified = w.d.verified /\ c.child = w.d.child
      /\ c.coord = w.d.coord /\ c.ready = w.d.ready
      /\ c.decision = w.d.decision /\ c.blocked = w.d.blocked
  BY <1>1 DEF Loose
<1> HIDE DEF c
<1>5. x.d = c /\ x.conn = w.conn /\ x.svc = w.svc
  BY <1>1 DEF Worlds
<1> HIDE DEF x
<1>6. Plain(w) => Plain(x)
  BY <1>3, <1>4, <1>5 DEF Plain
<1> QED BY <1>2, <1>3, <1>4, <1>5, <1>6 DEF Keeps, CheckFree, Asked

LEMMA SpawnPendingReleases ==
    ASSUME NEW w, Good(w), w.d.child = Nobody, Isolated(w),
           w.d.pending => ~w.d.coord /\ ~w.d.ready, NEW e
    PROVE  Releases(w, SpawnPending(w, e))
PROOF
<1> DEFINE x == SpawnPending(w, e)
           r == Refuse(w)
           c == Commit(w, e)
<1>1. CASE ~w.d.pending
  BY <1>1, GuardsItself, SteadyItself, SteadyReleases DEF SpawnPending
<1>2. CASE w.d.pending
  <2>1. Keeps(w, r) /\ r.svc = w.svc /\ r.conn = w.conn /\ ~r.d.coord /\ ~r.d.ready /\ Good(r)
    BY <1>2, RefuseFacts, RefuseKeeps
  <2> HIDE DEF r
  <2>2. CASE w.d.act \/ w.tgt = NoSource
    <3>1. x = r
      BY <1>2, <2>2 DEF SpawnPending, r
    <3>2. Isolated(r)
      BY <2>1 DEF Isolated
    <3> QED BY <2>1, <3>1, <3>2, KeepsIsolated
  <2>3. CASE ~w.d.act /\ w.tgt # NoSource /\ e.persist # "ok"
    <3>1. x.d = r.d /\ x.conn = r.conn
      BY <1>2, <2>1, <2>3 DEF SpawnPending, r, Good, Worlds
    <3> HIDE DEF x
    <3>2. Isolated(x) /\ Keeps(w, x)
      BY <2>1, <3>1 DEF Isolated, Keeps, CheckFree, Asked, Plain
    <3> QED BY <3>2, KeepsIsolated DEF x
  <2>4. CASE ~w.d.act /\ w.tgt # NoSource /\ e.persist = "ok"
    <3>1. /\ Good(c) /\ c.d.coord /\ Open(c) = {}
      BY <1>2, <2>4, CommitFacts
    <3>2. Keeps(w, c)
      BY <1>2, <2>4, CommitKeeps
    <3>3. x = Coordinate(c, e)
      BY <1>2, <2>4 DEF SpawnPending
    <3> HIDE DEF c, x
    <3> QED BY <3>1, <3>2, <3>3, CoordinateReleases, KeepsReleases DEF x
  <2> QED BY <2>2, <2>3, <2>4
<1> QED BY <1>1, <1>2

-----------------------------------------------------------------------------
(* The handlers of what a service answers *)

LEMMA SteadyDrop ==
    ASSUME NEW w, Good(w), Isolated(w), NEW e, NEW s \in Service
    PROVE  /\ Releases(w, Drop(w, e, s))
           /\ Releases(w, Send(w, e, s))
           /\ Asking(w, s) => Releases(w, Cancel(w, e, s))
PROOF
<1>1. Releases(w, Drop(w, e, s))
  BY DropFacts, DropGuards, SteadyReleases
<1>2. Releases(w, Send(w, e, s))
  BY SendFacts, SendGuards, SteadyReleases
<1>3. Asking(w, s) => Releases(w, Cancel(w, e, s))
  BY CancelFacts, CancelGuards, SteadyReleases
<1> QED BY <1>1, <1>2, <1>3

LEMMA DecisionGuards ==
    ASSUME NEW w, Good(w), NEW b \in BOOLEAN
    PROVE  LET x == [w EXCEPT !.d.decision = b]
           IN  /\ ~b => Guards(w, x, {})
               /\ Isolated(w) => Isolated(x)
               /\ Plain(w) => Plain(x) \/ (b /\ (w.d.override \/ w.d.blocked))
               /\ CheckFree(w) => CheckFree(x)
               /\ x.conn = w.conn /\ x.svc = w.svc
               /\ \A f \in {"coord", "ready", "override", "skip", "id", "child", "pending"} :
                     x.d[f] = w.d[f]
PROOF
<1> DEFINE c == [w.d EXCEPT !.decision = b]
           x == [w EXCEPT !.d = c]
<1>1. w \in Worlds /\ w.d \in Loose
  BY WorldFields DEF Good
<1>2. [w EXCEPT !.d.decision = b] = x
  BY <1>1 DEF Worlds
<1>3. /\ c.coord = w.d.coord /\ c.ready = w.d.ready
      /\ c.override = w.d.override /\ c.skip = w.d.skip
      /\ c.verified = w.d.verified /\ c.id = w.d.id
      /\ c.blocked = w.d.blocked /\ c.child = w.d.child
      /\ c.pending = w.d.pending /\ c.decision = b
  BY <1>1 DEF Loose
<1> HIDE DEF c
<1>4. x.d = c /\ x.conn = w.conn /\ x.svc = w.svc
  BY <1>1 DEF Worlds
<1> HIDE DEF x
<1>5. CheckFree(w) => CheckFree(x)
  BY <1>3, <1>4 DEF CheckFree
<1>6. \A t \in Service : Cleared(w, t) => Cleared(x, t)
  BY <1>3, <1>4 DEF Cleared, Settled, Asking
<1>7. ~b => Frank(w, x)
  BY <1>3, <1>4 DEF Frank
<1>8. ~b => Guards(w, x, {})
  BY <1>3, <1>4, <1>5, <1>6, <1>7 DEF Guards
<1>9. Isolated(w) => Isolated(x)
  BY <1>3, <1>4, <1>6 DEF Isolated
<1>10. Plain(w) => Plain(x) \/ (b /\ (w.d.override \/ w.d.blocked))
  BY <1>3, <1>4 DEF Plain
<1> QED BY <1>2, <1>3, <1>4, <1>5, <1>8, <1>9, <1>10

LEMMA StopCheckedReleases ==
    ASSUME NEW w, Good(w), NEW e, NEW s \in Service, Asking(w, s),
           w.conn[s].mode = "check", Isolated(w)
    PROVE  Releases(w, StopChecked(w, e, s))
PROOF
<1> DEFINE v == EndExchange(w, s)
           c == [v EXCEPT !.d.decision = FALSE]
           y == Stop(c, e, s)
           l == LaunchIfReady(y, e)
           b == Block(y, e, TRUE, FALSE)
<1>1. w \in Worlds
  BY DEF Good
<1>2. Good(v) /\ Steady(w, v) /\ v.d.coord
  BY EndExchangeFacts
<1>3. /\ Guards(w, v, {s}) /\ v.svc = w.svc /\ v.conn[s].mode = "check"
      /\ v.d.override = w.d.override
  BY EndExchangeGuards
<1> HIDE DEF v
<1>4. Good(c) /\ Steady(v, c) /\ c.d.coord
  BY <1>2, DecisionFacts
<1>5. Guards(v, c, {}) /\ c.svc = w.svc /\ c.conn[s].mode = "check"
  BY <1>2, <1>3, DecisionGuards
<1> HIDE DEF c
<1>6. Good(y) /\ Steady(c, y) /\ y.d.coord
  BY <1>4, StopFacts
<1>7. /\ Guards(c, y, {}) /\ y.conn[s].mode = "check"
      /\ StopVerified(c, e, s) => y.svc[s].st = "down"
  BY <1>4, <1>5, StopGuards
<1>8. StopChecked(w, e, s) = IF StopVerified(w, e, s) THEN l ELSE b
  BY <1>5 DEF StopChecked, StopVerified, c, v, y
<1>9. StopVerified(w, e, s) => y.svc[s].st = "down"
  BY <1>5, <1>7 DEF StopVerified
<1> HIDE DEF y
<1>10. Steady(w, y)
  BY <1>1, <1>2, <1>4, <1>6, SteadyThen DEF Good
<1>11. Guards(w, y, {s})
  <2>1. {s} \cup {} = {s}
    OBVIOUS
  <2> QED BY <1>3, <1>5, <1>7, <2>1, GuardsThen
<1>12. Keeps(w, y)
  BY <1>10, <1>11, GuardsKeeps
<1>13. StopVerified(w, e, s) => Releases(w, l)
  <2> SUFFICES ASSUME StopVerified(w, e, s)
               PROVE  Releases(w, l)
    OBVIOUS
  <2>1. Cleared(y, s)
    BY <1>9 DEF Cleared, Settled
  <2>2. Isolated(y)
    BY <1>11, <2>1, GuardsClosed, GuardsIsolated
  <2> QED BY <1>6, <1>12, <2>2, LaunchIfReadyReleases, KeepsReleases
<1>14. Releases(w, b)
  <2>1. ~CheckFree(y)
    BY <1>7 DEF CheckFree
  <2>2. Guards(y, b, {}) /\ Ended(y, b) /\ b \in Worlds
    BY <1>6, <2>1, BlockGuards, BlockFacts DEF Good
  <2> HIDE DEF b
  <2>3. Releases(y, b)
    BY <1>6, <2>2, EndedReleases
  <2> QED BY <1>12, <2>3, KeepsReleases
<1> QED BY <1>8, <1>13, <1>14

LEMMA CheckCancelledReleases ==
    ASSUME NEW w, Good(w), w.d.coord, Isolated(w), NEW e
    PROVE  Releases(w, CheckCancelled(w, e))
PROOF
<1> DEFINE a == Abort(w, e)
           c == [a.d EXCEPT !.blocked = FALSE]
           x == [a EXCEPT !.d = c]
<1>1. /\ a \in Worlds /\ ~a.d.override /\ ~a.d.skip /\ ~a.d.decision
      /\ a.svc = w.svc /\ a.d.verified = w.d.verified /\ Ended(w, a)
      /\ \A s \in Service : a.conn[s].mode \in {w.conn[s].mode, "notify"}
  BY AbortFacts, AbortGuards DEF Good
<1> HIDE DEF a
<1>2. CheckCancelled(w, e) = x
  BY <1>1 DEF CheckCancelled, a, Worlds
<1>3. a.d \in Loose
  BY <1>1, WorldFields
<1>4. /\ c.coord = a.d.coord /\ c.ready = a.d.ready
      /\ c.override = a.d.override /\ c.skip = a.d.skip
      /\ c.decision = a.d.decision /\ c.verified = a.d.verified
  BY <1>3 DEF Loose
<1>5. c.blocked = FALSE
  BY <1>3 DEF Loose
<1> HIDE DEF c
<1>6. x.d = c /\ x.conn = a.conn /\ x.svc = a.svc
  BY <1>1 DEF Worlds
<1> HIDE DEF x
<1>7. ~x.d.coord /\ ~x.d.ready /\ ~x.d.override /\ ~x.d.skip /\ ~x.d.decision
  BY <1>1, <1>4, <1>6 DEF Ended
<1>8. CheckFree(w) => ~x.d.verified
  BY <1>1, <1>4, <1>6 DEF CheckFree
<1>9. Guards(w, x, {})
  BY <1>1, <1>5, <1>6, <1>7, <1>8, GuardsEnded
<1> QED BY <1>2, <1>9, CheckCancelledFacts, SteadyReleases

LEMMA NotifyStatusReleases ==
    ASSUME NEW w, Good(w), NEW e, NEW s \in Service, Asking(w, s), Isolated(w),
           NEW kind \in Kinds, w.d.id \in w.svc[s].told, w.conn[s].mode # "check"
    PROVE  Releases(w, NotifyStatus(w, e, s, kind, w.d.id))
PROOF
<1> DEFINE x == NotifyStatus(w, e, s, kind, w.d.id)
<1>1. Good(x) /\ Steady(w, x)
  BY NotifyStatusFacts
<1>2. CASE kind = "ready"
  <2> DEFINE v == EndExchange(w, s)
             S == [v.svc EXCEPT ![s].said = w.d.id]
  <2>1. Good(v) /\ Guards(w, v, {s}) /\ v.d.id = w.d.id
    BY EndExchangeFacts, EndExchangeGuards
  <2>2. v \in Worlds /\ v.svc \in [Service -> Svcs]
    BY <2>1 DEF Good, Worlds
  <2>3. x = [v EXCEPT !.svc = S]
    BY <1>2, <2>2 DEF NotifyStatus, Worlds
  <2> HIDE DEF v, x
  <2>4. /\ S[s].said = w.d.id /\ S[s].st = v.svc[s].st
        /\ \A t \in Service \ {s} : S[t] = v.svc[t]
    BY <2>2 DEF Svcs
  <2> HIDE DEF S
  <2>5. x.d = v.d /\ x.conn = v.conn /\ x.svc = S
    BY <2>2, <2>3 DEF Worlds
  <2>6. CheckFree(v) => CheckFree(x)
    BY <2>5 DEF CheckFree
  <2>7. Frank(v, x)
    BY <2>5 DEF Frank
  <2>8. \A t \in Service \ {s} : Cleared(v, t) => Cleared(x, t)
    BY <2>4, <2>5 DEF Cleared, Settled, Asking
  <2>9. \A t \in Service : x.svc[t].st = "stale" => v.svc[t].st = "stale"
    BY <2>4, <2>5
  <2>10. Guards(v, x, {s})
    BY <2>5, <2>6, <2>7, <2>8, <2>9 DEF Guards
  <2>11. Guards(w, x, {s})
    <3>1. {s} \cup {s} = {s}
      OBVIOUS
    <3> QED BY <2>1, <2>10, <3>1, GuardsThen
  <2>12. Cleared(x, s)
    BY <2>1, <2>4, <2>5 DEF Cleared, Settled
  <2>13. Guards(w, x, {})
    BY <2>11, <2>12, GuardsClosed
  <2>14. Releases(w, x)
    BY <1>1, <2>13, SteadyReleases
  <2> QED BY <2>14 DEF x
<1>3. CASE kind # "ready"
  <2> DEFINE p == [w EXCEPT !.conn[s].phase = "waiting"]
  <2>1. x \in {Drop(w, e, s), w, Cancel(w, e, s), p}
    BY <1>3 DEF NotifyStatus, Kinds
  <2>2. Guards(w, p, {})
    <3>1. "waiting" \in Phases \ {"none"} /\ w \in Worlds
      BY DEF Phases, Good
    <3> QED BY <3>1, PhaseGuards
  <2>3. Guards(w, Drop(w, e, s), {}) /\ Guards(w, w, {}) /\ Guards(w, Cancel(w, e, s), {})
    BY DropGuards, GuardsItself, CancelGuards
  <2> HIDE DEF p, x
  <2>4. Guards(w, x, {})
    BY <2>1, <2>2, <2>3
  <2>5. Releases(w, x)
    BY <1>1, <2>4, SteadyReleases
  <2> QED BY <2>5 DEF x
<1> QED BY <1>2, <1>3

LEMMA ExpiredReleases ==
    ASSUME NEW w, Good(w), w.d.coord, NEW e, NEW s \in Service, Asking(w, s), Isolated(w)
    PROVE  Releases(w, LaunchIfReady(Expired(w, e, s), e))
PROOF
<1> DEFINE x == Expired(w, e, s)
           b == Block(w, e, TRUE, FALSE)
<1>1. Good(x) /\ Steady(w, x)
  BY ExpiredFacts
<1>2. \/ x = b /\ w.conn[s].mode = "check"
      \/ x \in {Drop(w, e, s), w, Cancel(w, e, s)}
  BY DEF Expired
<1>3. w.conn[s].mode = "check" => Guards(w, b, {})
  <2>1. w.conn[s].mode = "check" => ~CheckFree(w)
    BY DEF CheckFree
  <2> QED BY <2>1, BlockGuards DEF Good
<1>4. Guards(w, Drop(w, e, s), {}) /\ Guards(w, w, {}) /\ Guards(w, Cancel(w, e, s), {})
  BY DropGuards, GuardsItself, CancelGuards
<1> HIDE DEF x, b
<1>5. Guards(w, x, {})
  BY <1>2, <1>3, <1>4
<1>6. Releases(w, LaunchIfReady(x, e))
  BY <1>1, <1>5, SteadyLaunchIfReady
<1> QED BY <1>6 DEF x

LEMMA CheckStatusReleases ==
    ASSUME NEW w, Good(w), NEW e, NEW s \in Service, Asking(w, s), Isolated(w),
           w.conn[s].mode = "check", NEW kind \in Kinds
    PROVE  Releases(w, CheckStatus(w, e, s, kind))
PROOF
<1> DEFINE p == IF w.conn[s].phase = "awaiting" THEN "decision" ELSE w.conn[s].phase
           b == (p = "decision")
           v == [w EXCEPT !.conn[s].phase = p]
           x == [v EXCEPT !.d.decision = b]
           r == CheckStatus(w, e, s, kind)
<1>1. w \in Worlds /\ w.d.coord
  BY EndExchangeFacts DEF Good
<1>2. \/ r = StopChecked(w, e, s)
      \/ r = Drop(w, e, s)
      \/ r = x
  BY <1>1 DEF CheckStatus, Worlds
<1>3. Releases(w, x)
  <2>1. p \in Phases \ {"none"}
    BY <1>1, WorldFields DEF Asking, Conns, Phases
  <2>2. b \in BOOLEAN
    OBVIOUS
  <2> HIDE DEF p, b
  <2>3. /\ Good(v) /\ Steady(w, v)
    BY <2>1, PhaseFacts
  <2>4. Guards(w, v, {}) /\ v.d = w.d
    BY <1>1, <2>1, PhaseGuards
  <2> HIDE DEF v
  <2>5. Keeps(w, v) /\ Isolated(v)
    BY <2>3, <2>4, GuardsKeeps, GuardsIsolated
  <2>6. /\ Isolated(x)
        /\ Plain(v) => Plain(x) \/ (b /\ (v.d.override \/ v.d.blocked))
        /\ CheckFree(v) => CheckFree(x)
        /\ x.d.coord = v.d.coord /\ x.d.ready = v.d.ready
        /\ x.d.override = v.d.override /\ x.d.skip = v.d.skip
        /\ x.d.child = v.d.child /\ x.d.pending = v.d.pending
    BY <2>2, <2>3, <2>5, DecisionGuards
  <2> HIDE DEF x
  <2>7. Plain(w) => Plain(x)
    <3>1. Plain(w) => ~w.d.override /\ ~w.d.blocked
      BY <1>1 DEF Plain, Checking, Asking
    <3> QED BY <2>4, <2>5, <2>6, <3>1 DEF Keeps
  <2>8. Keeps(w, x)
    BY <2>5, <2>6, <2>7 DEF Keeps, Asked
  <2> QED BY <2>6, <2>8, KeepsIsolated
<1> HIDE DEF r, x
<1>4. Releases(w, r)
  BY <1>2, <1>3, StopCheckedReleases, SteadyDrop
<1> QED BY <1>4 DEF r

LEMMA AnsweredReleases ==
    ASSUME NEW w, Good(w), Isolated(w), NEW e, NEW s \in Service,
           NEW kind \in Kinds, NEW id \in w.svc[s].told
    PROVE  Releases(w, Answered(w, e, s, kind, id))
PROOF
<1> DEFINE x == Answered(w, e, s, kind, id)
           n == NotifyStatus(w, e, s, kind, id)
           c == CheckStatus(w, e, s, kind)
<1>1. Releases(w, w) /\ Releases(w, Send(w, e, s)) /\ Releases(w, Drop(w, e, s))
  BY SteadyItself, GuardsItself, SteadyReleases, SteadyDrop
<1>2. \/ x \in {w, Send(w, e, s), Drop(w, e, s)}
      \/ Asking(w, s) /\ w.conn[s].mode = "check" /\ x = c
      \/ Asking(w, s) /\ w.conn[s].mode # "check" /\ id = w.d.id /\ x = n
  BY DEF Answered
<1>3. Asking(w, s) /\ w.conn[s].mode = "check" => Releases(w, c)
  BY CheckStatusReleases
<1>4. Asking(w, s) /\ w.conn[s].mode # "check" /\ id = w.d.id => Releases(w, n)
  BY NotifyStatusReleases
<1> HIDE DEF x, n, c
<1>5. Releases(w, x)
  BY <1>1, <1>2, <1>3, <1>4
<1> QED BY <1>5 DEF x

-----------------------------------------------------------------------------
(* How a launch begins and ends *)

LEMMA RequestGuards ==
    ASSUME NEW w, Good(w), Isolated(w), w.d.override => ~w.d.coord
    PROVE  LET x == Request(w)
           IN  /\ Isolated(x) /\ Plain(x) /\ ~x.d.override /\ ~x.d.skip
               /\ CheckFree(w) => CheckFree(x)
               /\ x.d.child = w.d.child
PROOF
<1> DEFINE c == [w.d EXCEPT
              !.blocked = FALSE, !.verified = FALSE, !.retry = FALSE,
              !.override = FALSE, !.skip = FALSE, !.ready = FALSE,
              !.decision = FALSE, !.pending = TRUE]
           x == [w EXCEPT !.d = c]
<1>1. w \in Worlds /\ w.d \in Loose
  BY WorldFields DEF Good
<1>2. Request(w) = x
  BY <1>1 DEF Request, Worlds
<1>3. c.coord = w.d.coord /\ c.child = w.d.child /\ c.id = w.d.id
  BY <1>1 DEF Loose
<1>4. ~c.blocked /\ ~c.verified /\ ~c.override /\ ~c.skip /\ ~c.ready
  BY <1>1 DEF Loose
<1> HIDE DEF c
<1>5. x.d = c /\ x.conn = w.conn /\ x.svc = w.svc
  BY <1>1 DEF Worlds
<1> HIDE DEF x
<1>6. CheckFree(w) => CheckFree(x)
  BY <1>4, <1>5 DEF CheckFree
<1>7. \A s \in Service : Cleared(w, s) => Cleared(x, s)
  BY <1>3, <1>5 DEF Cleared, Settled, Asking
<1>8. Isolated(x)
  BY <1>3, <1>4, <1>5, <1>7 DEF Isolated
<1>9. Plain(x)
  BY <1>4, <1>5 DEF Plain
<1> QED BY <1>2, <1>3, <1>4, <1>5, <1>6, <1>8, <1>9

LEMMA DismissedKeeps ==
    ASSUME NEW w, Good(w), Isolated(w), w.d.override => ~w.d.coord /\ ~w.d.ready
    PROVE  LET x == Dismissed(w)
           IN  /\ Isolated(x) /\ Plain(x) /\ Keeps(w, x)
               /\ ~x.d.override /\ ~x.d.skip
PROOF
<1> DEFINE c == [w.d EXCEPT
              !.blocked = FALSE, !.override = FALSE, !.skip = FALSE,
              !.verified = FALSE, !.retry = FALSE, !.pending = FALSE]
           x == [w EXCEPT !.d = c]
<1>1. w \in Worlds /\ w.d \in Loose
  BY WorldFields DEF Good
<1>2. Dismissed(w) = x
  BY <1>1 DEF Dismissed, Worlds
<1>3. /\ c.coord = w.d.coord /\ c.child = w.d.child /\ c.id = w.d.id
      /\ c.ready = w.d.ready
  BY <1>1 DEF Loose
<1>4. ~c.blocked /\ ~c.verified /\ ~c.override /\ ~c.skip /\ ~c.pending
  BY <1>1 DEF Loose
<1> HIDE DEF c
<1>5. x.d = c /\ x.conn = w.conn /\ x.svc = w.svc
  BY <1>1 DEF Worlds
<1> HIDE DEF x
<1>6. CheckFree(w) => CheckFree(x)
  BY <1>4, <1>5 DEF CheckFree
<1>7. \A s \in Service : Cleared(w, s) => Cleared(x, s)
  BY <1>3, <1>5 DEF Cleared, Settled, Asking
<1>8. Isolated(x)
  BY <1>3, <1>4, <1>5, <1>7 DEF Isolated
<1>9. Plain(x)
  BY <1>4, <1>5 DEF Plain
<1>10. Keeps(w, x)
  BY <1>3, <1>4, <1>5, <1>6, <1>9 DEF Keeps, Asked
<1> QED BY <1>2, <1>4, <1>5, <1>8, <1>9, <1>10

LEMMA FrontKeeps ==
    ASSUME NEW w, Good(w), NEW k \in {Nobody, "launcher", "game"},
           k = "game" => w.d.child = "game",
           NEW b \in {"no", "waiting", "launching"},
           k \in {Nobody, w.d.child} \/ ~w.d.override \/ ~w.d.coord
    PROVE  LET x == Front(w, k, b)
           IN  Keeps(w, x) /\ (Isolated(w) => Isolated(x))
PROOF
<1> DEFINE c == [w.d EXCEPT !.child = k, !.boot = b]
           x == [w EXCEPT !.d = c]
<1>1. w \in Worlds /\ w.d \in Loose
  BY WorldFields DEF Good
<1>2. Front(w, k, b) = x
  BY <1>1 DEF Front, Worlds
<1>3. /\ c.coord = w.d.coord /\ c.ready = w.d.ready /\ c.pending = w.d.pending
      /\ c.override = w.d.override /\ c.skip = w.d.skip
      /\ c.verified = w.d.verified /\ c.id = w.d.id
      /\ c.blocked = w.d.blocked /\ c.decision = w.d.decision
      /\ c.child = k
  BY <1>1 DEF Loose
<1> HIDE DEF c
<1>4. x.d = c /\ x.conn = w.conn /\ x.svc = w.svc
  BY <1>1 DEF Worlds
<1> HIDE DEF x
<1>5. CheckFree(w) => CheckFree(x)
  BY <1>3, <1>4 DEF CheckFree
<1>6. \A s \in Service : Cleared(w, s) => Cleared(x, s)
  BY <1>3, <1>4 DEF Cleared, Settled, Asking
<1>7. Isolated(w) => Isolated(x)
  BY <1>3, <1>4, <1>6 DEF Isolated
<1>8. Plain(w) => Plain(x)
  BY <1>3, <1>4 DEF Plain
<1>9. Keeps(w, x)
  BY <1>3, <1>4, <1>5, <1>8 DEF Keeps, Asked
<1> QED BY <1>2, <1>7, <1>9

LEMMA LauncherKeeps ==
    ASSUME NEW w, Good(w), ~w.d.override \/ ~w.d.coord
    PROVE  LET x == Launcher(w)
           IN  Keeps(w, x) /\ (Isolated(w) => Isolated(x))
PROOF
<1>1. w \in Worlds /\ w.d \in Loose /\ w.d.boot \in {"no", "waiting", "launching"}
  BY WorldFields DEF Good, Loose
<1>2. Launcher(w) = Front(w, "launcher", w.d.boot)
  BY <1>1 DEF Launcher, Front, Worlds, Loose
<1> QED BY <1>1, <1>2, FrontKeeps

\* What a launcher follows has been released before.
LEMMA ReleasesKeeps ==
    ASSUME NEW w, NEW x, NEW y, Releases(w, x), Keeps(x, y), Isolated(y),
           x.d.child # "game"
    PROVE  Releases(w, y)
PROOF BY DEF Releases, Keeps

LEMMA OrLauncherReleases ==
    ASSUME NEW w, NEW x, Good(x), Releases(w, x)
    PROVE  Releases(w, OrLauncher(x))
PROOF
<1>1. CASE NotLaunched(x)
  <2> DEFINE l == Launcher(x)
  <2>1. OrLauncher(x) = l
    BY <1>1 DEF OrLauncher
  <2>2. Isolated(x) /\ ~x.d.coord /\ x.d.child # "game"
    BY <1>1 DEF Releases, NotLaunched, Nobody
  <2>3. Keeps(x, l) /\ Isolated(l)
    BY <2>2, LauncherKeeps
  <2> HIDE DEF l
  <2> QED BY <2>1, <2>2, <2>3, ReleasesKeeps
<1>2. CASE ~NotLaunched(x)
  BY <1>2 DEF OrLauncher
<1> QED BY <1>1, <1>2

LEMMA AfterLauncherReleases ==
    ASSUME NEW w, Good(w), Isolated(w), Plain(w), w.d.child = Nobody, NEW e
    PROVE  Releases(w, AfterLauncher(w, e))
PROOF
<1> DEFINE x == AfterLauncher(w, e)
<1>1. w \in Worlds /\ w.d \in Loose
  BY WorldFields DEF Good
<1>2. CASE w.d.pending /\ w.d.ready
  <2> DEFINE c == [w.d EXCEPT !.ready = FALSE]
             v == [w EXCEPT !.d = c]
             a == Abort(v, e)
             l == Launcher(a)
             play == [v.d EXCEPT !.child = "game", !.pending = FALSE,
                                 !.override = FALSE, !.started = TRUE]
             p == [v EXCEPT !.d = play]
  <2>1. /\ c \in Loose /\ ~c.ready
        /\ c.coord = w.d.coord /\ c.skip = w.d.skip /\ c.verified = w.d.verified
        /\ c.id = w.d.id /\ c.blocked = w.d.blocked /\ c.child = w.d.child
    <3>1. c \in Loose
      BY <1>1 DEF Loose
    <3>2. ~c.ready
      BY <1>1 DEF Loose
    <3>3. /\ c.coord = w.d.coord /\ c.skip = w.d.skip /\ c.verified = w.d.verified
          /\ c.id = w.d.id /\ c.blocked = w.d.blocked /\ c.child = w.d.child
      BY <1>1 DEF Loose
    <3> QED BY <3>1, <3>2, <3>3
  <2>2. [w EXCEPT !.d.ready = FALSE] = v
    BY <1>1 DEF Worlds
  <2> HIDE DEF c
  <2>3. v \in Worlds /\ v.d = c /\ v.conn = w.conn /\ v.svc = w.svc
    BY <1>1, <2>1, WithD
  <2>4. x \in {l, StartWriter(v)}
    <3> HIDE DEF v
    <3> QED BY <1>2, <2>2 DEF AfterLauncher
  <2> HIDE DEF v
  <2>5. ~w.d.coord /\ ~w.d.blocked /\ ~w.d.override /\ Open(w) = {}
    BY <1>2 DEF Good, Kept, Counted, Plain
  <2>6. \A s \in Service : Settled(w, s)
    BY <1>2, <2>5, IsolatedSettled
  <2>7. Releases(w, l)
    <3>1. /\ a \in Worlds /\ Ended(v, a) /\ ~a.d.override /\ ~a.d.skip
          /\ a.d.verified = w.d.verified /\ ~a.d.blocked
          /\ \A s \in Service : a.conn[s].mode \in {w.conn[s].mode, "notify"}
      BY <2>1, <2>3, <2>5, AbortFacts, AbortGuards
    <3> HIDE DEF a
    <3>2. v.d.child # "game" /\ a.d.child = w.d.child
      BY <2>1, <2>3, <3>1 DEF Ended, SameRest, Nobody
    <3>3. Good(a)
      BY <3>1, <3>2, EndedGood
    <3>4. CheckFree(w) => CheckFree(a)
      BY <3>1 DEF CheckFree
    <3>5. ~Asked(a) /\ Isolated(a)
      BY <3>1 DEF Ended, Asked, Isolated
    <3>6. Plain(a)
      BY <3>1, <3>2 DEF Plain, Nobody
    <3>7. Keeps(w, a)
      BY <3>1, <3>2, <3>4, <3>5, <3>6 DEF Keeps
    <3>8. Keeps(a, l) /\ Isolated(l)
      BY <3>1, <3>3, <3>5, LauncherKeeps
    <3> HIDE DEF l
    <3>9. Releases(a, l)
      BY <3>8, KeepsIsolated
    <3> QED BY <3>7, <3>9, KeepsReleases
  <2>8. Releases(w, p)
    <3>1. ~play.pending /\ ~play.override
      BY <2>1, <2>3 DEF Loose
    <3>2. /\ play.ready = c.ready /\ play.coord = c.coord /\ play.skip = c.skip
          /\ play.verified = c.verified /\ play.id = c.id /\ play.blocked = c.blocked
      BY <2>1, <2>3 DEF Loose
    <3> HIDE DEF play
    <3>3. p.d = play /\ p.conn = w.conn /\ p.svc = w.svc
      BY <2>3 DEF Worlds
    <3> HIDE DEF p
    <3>4. ~Asked(p)
      BY <2>1, <2>5, <3>1, <3>2, <3>3 DEF Asked
    <3>5. Isolated(p)
      BY <3>4 DEF Isolated, Asked
    <3>6. Plain(p)
      BY <2>1, <2>5, <3>1, <3>2, <3>3 DEF Plain
    <3>7. CheckFree(w) => CheckFree(p)
      BY <2>1, <3>2, <3>3 DEF CheckFree
    <3>8. \A s \in Service : Settled(p, s)
      BY <2>1, <2>6, <3>2, <3>3 DEF Settled
    <3>9. p.d.skip => w.d.skip
      BY <2>1, <3>2, <3>3
    <3> QED BY <3>1, <3>3, <3>4, <3>5, <3>6, <3>7, <3>8, <3>9 DEF Releases
  <2>9. StartWriter(v) = p
    BY <2>3 DEF StartWriter, Worlds
  <2> HIDE DEF l, p, x
  <2> QED BY <2>4, <2>7, <2>8, <2>9 DEF x
<1>3. CASE w.d.pending /\ ~w.d.ready /\ w.d.coord
  <2>1. x = w
    BY <1>3 DEF AfterLauncher
  <2> HIDE DEF x
  <2> QED BY <2>1, SteadyItself, GuardsItself, SteadyReleases DEF x
<1>4. CASE w.d.pending => ~w.d.ready /\ ~w.d.coord
  <2> DEFINE y == SpawnPending(w, e)
  <2>1. Good(y) /\ Releases(w, y)
    BY <1>4, SpawnPendingFacts, SpawnPendingReleases
  <2>2. x = OrLauncher(y)
    BY <1>4 DEF AfterLauncher
  <2> HIDE DEF y, x
  <2> QED BY <2>1, <2>2, OrLauncherReleases DEF x
<1> QED BY <1>2, <1>3, <1>4

LEMMA FinishKeeps ==
    ASSUME NEW w, Good(w), w.d.child = Nobody, ~w.d.coord, ~w.d.ready, NEW e
    PROVE  LET x == Finish(w, e) IN Keeps(w, x) /\ Isolated(x)
PROOF
<1> DEFINE c == [w.d EXCEPT !.started = FALSE]
           v == [w EXCEPT !.d = c]
           o == ClearRecord(v, e)
           b == Broadcast(o, e)
           x == Finish(w, e)
           Fields == {"coord", "ready", "override", "skip", "verified", "pending",
                      "decision", "blocked"}
<1>1. w \in Worlds /\ w.d \in Loose /\ Open(w) = {}
  BY WorldFields DEF Good, Counted
<1>2. CASE ~w.d.act \/ ~w.d.started
  <2>1. x = w
    BY <1>2 DEF Finish
  <2>2. Keeps(w, w) /\ Isolated(w)
    BY DEF Keeps, Isolated
  <2> HIDE DEF x
  <2> QED BY <2>1, <2>2 DEF x
<1>3. CASE w.d.act /\ w.d.started
  <2>1. c \in Loose
    BY <1>1 DEF Loose
  <2>2. /\ c.child = w.d.child
        /\ c.coord = w.d.coord /\ c.ready = w.d.ready /\ c.override = w.d.override
        /\ c.skip = w.d.skip /\ c.verified = w.d.verified
        /\ c.pending = w.d.pending /\ c.decision = w.d.decision
        /\ c.blocked = w.d.blocked
    BY <1>1 DEF Loose
  <2>3. x = IF e.clear = "ok" THEN b ELSE o
    <3>1. [w EXCEPT !.d.started = FALSE] = v
      BY <1>1 DEF Worlds
    <3> HIDE DEF v
    <3> QED BY <1>3, <3>1 DEF Finish
  <2> HIDE DEF c
  <2>4. v \in Worlds /\ v.d = c /\ v.conn = w.conn
    BY <1>1, <2>1, WithD
  <2> HIDE DEF v
  <2>5. /\ o \in Worlds /\ o.conn = w.conn /\ o.d.child = w.d.child
        /\ o.d.coord = w.d.coord /\ o.d.ready = w.d.ready
        /\ o.d.override = w.d.override /\ o.d.skip = w.d.skip
        /\ o.d.verified = w.d.verified /\ o.d.pending = w.d.pending
        /\ o.d.decision = w.d.decision /\ o.d.blocked = w.d.blocked
    BY <2>2, <2>4, ClearFacts, ClearGuards
  <2> HIDE DEF o
  <2>6. Open(o) = {}
    BY <1>1, <2>5 DEF Open
  <2>7. /\ b.d = o.d /\ Open(b) = {}
        /\ \A s \in Service : b.conn[s].mode \in {o.conn[s].mode, "notify"}
    BY <2>5, <2>6, BroadcastFacts, BroadcastGuards
  <2> HIDE DEF b, x
  <2>8. /\ x.d = o.d /\ Open(x) = {}
        /\ \A s \in Service : x.conn[s].mode \in {w.conn[s].mode, "notify"}
    BY <2>3, <2>5, <2>6, <2>7
  <2>9. CheckFree(w) => CheckFree(x)
    BY <2>5, <2>8 DEF CheckFree
  <2>10. \A s \in Service : ~Checking(x.conn[s])
    BY <2>8 DEF Checking, Open
  <2>11. Plain(w) => Plain(x)
    BY <2>5, <2>8, <2>10 DEF Plain
  <2>12. Isolated(x)
    BY <2>5, <2>8 DEF Isolated
  <2>13. Keeps(w, x)
    BY <2>5, <2>8, <2>9, <2>11 DEF Keeps, Asked
  <2> QED BY <2>12, <2>13 DEF x
<1> QED BY <1>2, <1>3

-----------------------------------------------------------------------------
(* The system *)

\* The launch under preparation has dealt with every service; what the player
\* chose is chosen for it, but that a switched game keeps a check skipped.
Shielded ==
    /\ Isolated(World) /\ Plain(World)
    /\ "check" \notin Modes => CheckFree(World)
    /\ Asked(World) => /\ d.override => consent
                       /\ d.skip => consent \/ "switch" \in Features

\* A step keeps this, and starts a writer only beside services it need not
\* fear.
Barred ==
    /\ Shielded'
    /\ WriterStarts =>
          \/ consent
          \/ \A s \in Service :
                Manifest[s] # "ignore" /\ svc'[s].st # "down" => svc'[s].said = d'.id

LEMMA BarredStep ==
    ASSUME IInv, NEW w \in Worlds, NEW b,
           d' = [w.d EXCEPT !.boot = b], conn' = w.conn, svc' = w.svc,
           Isolated(w), Plain(w), "check" \notin Modes => CheckFree(w),
           Asked(w) /\ w.d.override => consent',
           Asked(w) /\ w.d.skip => consent' \/ "switch" \in Features,
           w.d.child = "game" /\ d.child # "game" =>
               consent \/ \A s \in Service : Settled(w, s)
    PROVE  Barred
PROOF
<1> DEFINE c == [w.d EXCEPT !.boot = b]
           x == World'
           Fields == {"pending", "coord", "ready", "override", "skip", "verified",
                      "decision", "blocked", "id", "child"}
<1>1. w.d \in Loose
  BY WorldFields
<1>2. \A f \in Fields : c[f] = w.d[f]
  BY <1>1 DEF Loose
<1>3. x.d = d' /\ x.conn = w.conn /\ x.svc = w.svc /\ d' = c
  BY DEF World
<1> HIDE DEF c, x
<1>4. \A f \in Fields : x.d[f] = w.d[f] /\ d'[f] = w.d[f]
  BY <1>2, <1>3
<1>5. /\ x.d.pending = w.d.pending /\ x.d.coord = w.d.coord /\ x.d.ready = w.d.ready
      /\ x.d.override = w.d.override /\ x.d.skip = w.d.skip
      /\ x.d.verified = w.d.verified /\ x.d.decision = w.d.decision
      /\ x.d.blocked = w.d.blocked /\ x.d.id = w.d.id /\ x.d.child = w.d.child
      /\ d'.override = w.d.override /\ d'.skip = w.d.skip
      /\ d'.id = w.d.id /\ d'.child = w.d.child
  BY <1>4
<1>6. \A s \in Service : (Settled(x, s) <=> Settled(w, s)) /\ (Asking(x, s) <=> Asking(w, s))
  BY <1>3, <1>5 DEF Settled, Asking
<1>7. Isolated(x)
  BY <1>5, <1>6 DEF Isolated, Cleared
<1>8. Plain(x)
  BY <1>3, <1>5 DEF Plain
<1>9. "check" \notin Modes => CheckFree(x)
  BY <1>3, <1>5 DEF CheckFree
<1>10. Asked(x) <=> Asked(w)
  BY <1>5 DEF Asked
<1>11. Shielded'
  BY <1>5, <1>7, <1>8, <1>9, <1>10 DEF Shielded, x
<1>12. ASSUME WriterStarts
       PROVE  \/ consent
              \/ \A s \in Service :
                    Manifest[s] # "ignore" /\ svc'[s].st # "down" => svc'[s].said = d'.id
  <2>1. consent \/ \A s \in Service : Settled(w, s)
    BY <1>5, <1>12 DEF WriterStarts
  <2> QED BY <1>5, <2>1 DEF Settled
<1> QED BY <1>11, <1>12 DEF Barred

LEMMA BecomeIs ==
    ASSUME NEW w, Become(w)
    PROVE  \E b : d' = [w.d EXCEPT !.boot = b] /\ conn' = w.conn /\ svc' = w.svc
PROOF
<1> DEFINE b == IF w.d.child = "game" THEN "no" ELSE w.d.boot
<1>1. d' = [w.d EXCEPT !.boot = b] /\ conn' = w.conn /\ svc' = w.svc
  BY DEF Become
<1> QED BY <1>1

\* A function that releases a writer, as a step.
LEMMA ReleaseBarred ==
    ASSUME IInv, Shielded, NEW w, Good(w), Become(w), Releases(World, w),
           consent /\ ~(w.d.child = "game" /\ d.child # "game") => consent'
    PROVE  Barred
PROOF
<1>1. World.d = d /\ w \in Worlds
  BY WorldIs DEF Good
<1>2. PICK b : d' = [w.d EXCEPT !.boot = b] /\ conn' = w.conn /\ svc' = w.svc
  BY BecomeIs
<1>3. Isolated(w) /\ Plain(w) /\ ("check" \notin Modes => CheckFree(w))
  BY DEF Releases, Shielded
<1>4. Asked(w) => /\ Asked(World) /\ ~(w.d.child = "game" /\ d.child # "game")
                  /\ w.d.override => d.override
                  /\ w.d.skip => d.skip
  BY <1>1 DEF Releases
<1>5. Asked(w) /\ w.d.override => consent'
  BY <1>4 DEF Shielded
<1>6. Asked(w) /\ w.d.skip => consent' \/ "switch" \in Features
  BY <1>4 DEF Shielded
<1>7. w.d.child = "game" /\ d.child # "game" =>
          consent \/ \A s \in Service : Settled(w, s)
  BY <1>1 DEF Releases, Shielded
<1> QED BY <1>1, <1>2, <1>3, <1>5, <1>6, <1>7, BarredStep

LEMMA StepBarred ==
    ASSUME IInv, Shielded, NEW s, NEW w, Good(w), StepOn(s, w), Releases(World, w)
    PROVE  Barred
BY ReleaseBarred DEF StepOn, Spent

\* A step that leaves the daemon alone.
LEMMA IdleBarred ==
    ASSUME IInv, Shielded, d' = d, conn' = conn, svc' = svc, consent' = consent
    PROVE  Barred
PROOF
<1>1. /\ World.d = d /\ World.conn = conn /\ World.svc = svc
      /\ World \in Worlds /\ d \in Loose
  BY WorldIs
<1>2. d' = [d EXCEPT !.boot = d.boot]
  BY <1>1 DEF Loose
<1> QED BY <1>1, <1>2, BarredStep DEF Shielded

LEMMA BrowsingBarred ==
    ASSUME IInv, Shielded, Answer(World, "browsing"), consent' = consent
    PROVE  Barred
PROOF
<1>1. Good(World) /\ World.d = d /\ Steady(World, World)
  BY WorldIs, SteadyItself
<1>2. Releases(World, World)
  BY <1>1, GuardsItself, SteadyReleases DEF Shielded
<1> QED BY <1>1, <1>2, ReleaseBarred DEF Answer

-----------------------------------------------------------------------------
(* The launcher's requests *)

\* With a launcher there, nobody chose to start what is being coordinated.
LEMMA LauncherPlain ==
    ASSUME IInv, Shielded, ui # "gone"
    PROVE  d.child = "launcher" /\ (d.override => ~d.coord /\ ~d.ready)
BY WorldIs DEF IInv, UiInv, Shielded, Plain, Nobody

LEMMA LaunchGameBarred ==
    ASSUME IInv, Shielded, NEW t \in Sources, LaunchGame(t)
    PROVE  Barred
PROOF
<1> DEFINE w == Request(World)
<1>1. Good(World) /\ World.d = d /\ World.ids = ids
  BY WorldIs
<1>2. Become(w) /\ ids < MaxLaunches /\ ui # "gone"
  BY DEF LaunchGame
<1>3. d.child = "launcher" /\ (d.override => ~d.coord)
  BY <1>2, LauncherPlain
<1>4. Good(w)
  BY <1>1, <1>2, RequestFacts
<1>5. /\ Isolated(w) /\ Plain(w) /\ ~w.d.override /\ ~w.d.skip
      /\ CheckFree(World) => CheckFree(w)
      /\ w.d.child = d.child
  BY <1>1, <1>3, RequestGuards DEF Shielded
<1> HIDE DEF w
<1>6. PICK b : d' = [w.d EXCEPT !.boot = b] /\ conn' = w.conn /\ svc' = w.svc
  BY <1>2, BecomeIs
<1> QED BY <1>3, <1>4, <1>5, <1>6, BarredStep DEF Good, Shielded

LEMMA FirstCheckMode ==
    ASSUME IInv, Checks # {}
    PROVE  conn[FirstCheck].mode = "check"
PROOF
<1>1. Checks \subseteq Nat
  BY GameLaunchAssumption DEF Checks, Service
<1>2. \E s \in Checks : \A t \in Checks : s <= t
  BY <1>1, LeastNatural
<1>3. FirstCheck \in Checks
  BY <1>2 DEF FirstCheck
<1> QED BY <1>3 DEF Checks, Checking

LEMMA CheckWaitBarred ==
    ASSUME IInv, Shielded, CheckWait
    PROVE  Barred
PROOF
<1> DEFINE s == FirstCheck
           v == [World EXCEPT !.conn[s].phase = "waiting"]
           w == [v EXCEPT !.d.decision = FALSE]
<1>1. consent' = consent
  BY DEF CheckWait
<1>2. CASE Answer(World, "browsing")
  BY <1>1, <1>2, BrowsingBarred
<1>3. CASE Checks # {} /\ Answer(w, "leaving")
  <2>1. s \in Service /\ Asking(World, s) /\ Good(World) /\ World \in Worlds
    BY <1>3, FirstCheckFacts, WorldIs
  <2> HIDE DEF s
  <2>2. "waiting" \in Phases \ {"none"}
    BY DEF Phases
  <2>3. Good(v) /\ Steady(World, v)
    BY <2>1, <2>2, PhaseFacts
  <2>4. Guards(World, v, {})
    BY <2>1, <2>2, PhaseGuards
  <2> HIDE DEF v
  <2>5. Good(w) /\ Steady(v, w)
    BY <2>3, DecisionFacts
  <2>6. Guards(v, w, {})
    BY <2>3, DecisionGuards
  <2> HIDE DEF w
  <2>7. Steady(World, w) /\ Guards(World, w, {})
    BY <2>1, <2>3, <2>4, <2>5, <2>6, SteadyThen, GuardsBoth
  <2>8. Releases(World, w)
    BY <2>1, <2>7, SteadyReleases DEF Shielded
  <2> QED BY <1>1, <1>3, <2>5, <2>8, ReleaseBarred DEF Answer
<1> QED BY <1>2, <1>3 DEF CheckWait

LEMMA CheckPlayAnywayBarred ==
    ASSUME IInv, Shielded, CheckPlayAnyway
    PROVE  Barred
PROOF
<1>1. CASE ~d.coord \/ Checks = {}
  <2>1. Answer(World, "browsing") /\ consent' = consent
    BY <1>1 DEF CheckPlayAnyway
  <2> QED BY <2>1, BrowsingBarred
<1>2. CASE d.coord /\ Checks # {}
  <2> DEFINE s == FirstCheck
             v(e) == Cancel(World, e, s)
             x(e) == StopChecked(v(e), e, s)
             w(e) == IF s \in e.full THEN v(e) ELSE x(e)
  <2>1. PICK e \in Events : Become(w(e)) /\ consent' = (consent /\ ~Spent(w(e)))
    BY <1>2 DEF CheckPlayAnyway, Answer
  <2>2. /\ s \in Service /\ Asking(World, s) /\ Good(World) /\ World \in Worlds
        /\ World.conn = conn /\ conn[s].mode = "check" /\ Isolated(World)
    BY <1>2, FirstCheckFacts, FirstCheckMode, WorldIs DEF Shielded
  <2> HIDE DEF s
  <2>3. /\ Good(v(e)) /\ Steady(World, v(e)) /\ Guards(World, v(e), {})
        /\ s \notin e.full => Asking(v(e), s)
        /\ Releases(World, v(e))
    BY <2>2, CancelFacts, CancelGuards, SteadyDrop
  <2>4. ASSUME s \notin e.full
        PROVE  v(e).conn[s].mode = "check"
    <3>1. v(e) = [World EXCEPT !.conn[s].phase = "ack"]
      BY <2>4 DEF Cancel, Send
    <3>2. World.conn[s] \in Conns
      BY <2>2, WorldFields
    <3> HIDE DEF v
    <3> QED BY <2>2, <3>1, <3>2 DEF Worlds, Conns
  <2> HIDE DEF v
  <2>5. ASSUME s \notin e.full
        PROVE  Good(x(e)) /\ Releases(World, x(e))
    <3>1. Good(x(e))
      BY <2>2, <2>3, <2>5, StopCheckedFacts
    <3>2. Isolated(v(e))
      BY <2>2, <2>3, GuardsIsolated
    <3>3. Releases(v(e), x(e))
      BY <2>2, <2>3, <2>4, <2>5, <3>2, StopCheckedReleases
    <3>4. Keeps(World, v(e))
      BY <2>2, <2>3, GuardsKeeps
    <3> HIDE DEF x
    <3> QED BY <3>1, <3>3, <3>4, KeepsReleases
  <2> HIDE DEF x
  <2>6. Good(w(e)) /\ Releases(World, w(e))
    BY <2>3, <2>5
  <2> HIDE DEF w
  <2> QED BY <2>1, <2>6, ReleaseBarred DEF Spent
<1> QED BY <1>1, <1>2

LEMMA CheckCancelBarred ==
    ASSUME IInv, Shielded, CheckCancel
    PROVE  Barred
PROOF
<1>1. consent' = consent
  BY DEF CheckCancel
<1>2. PICK e \in Events :
        Answer(IF d.coord /\ Checks # {} THEN CheckCancelled(World, e) ELSE World,
               "browsing")
  BY DEF CheckCancel
<1>3. CASE ~(d.coord /\ Checks # {})
  BY <1>1, <1>2, <1>3, BrowsingBarred
<1>4. CASE d.coord /\ Checks # {}
  <2> DEFINE w == CheckCancelled(World, e)
  <2>1. Answer(w, "browsing")
    BY <1>2, <1>4
  <2>2. Good(World) /\ World.d = d
    BY WorldIs
  <2>3. Good(w) /\ Releases(World, w)
    BY <1>4, <2>2, CheckCancelledFacts, CheckCancelledReleases DEF Shielded
  <2> HIDE DEF w
  <2> QED BY <1>1, <2>1, <2>3, ReleaseBarred DEF Answer
<1> QED BY <1>3, <1>4

\* Play Anyway and Retry ask for the launch again.
LEMMA AskAgainBarred ==
    ASSUME IInv, Shielded, d.blocked, ~d.act,
           NEW c \in Loose, ~c.blocked, c.coord = d.coord, c.ready = d.ready,
           c.decision = d.decision, c.child = d.child,
           c.verified => d.verified, c.skip => d.verified,
           c.override => consent', c.skip => consent',
           NEW w, w = [World EXCEPT !.d = c], Become(w)
    PROVE  Barred
PROOF
<1>1. World \in Worlds /\ World.d = d /\ World.conn = conn /\ Good(World)
  BY WorldIs
<1>2. w \in Worlds /\ w.d = c /\ w.conn = conn
  <2>1. LET y == [World EXCEPT !.d = c]
        IN  y \in Worlds /\ y.d = c /\ y.conn = World.conn
    BY <1>1, WithD
  <2> QED BY <1>1, <2>1
<1>3. ~d.coord /\ ~d.ready /\ d.child # "game"
  BY NoLaunch
<1>4. \A s \in Service : ~Checking(conn[s])
  <2>1. Open(World) = {}
    BY <1>1, <1>3 DEF Good, Counted
  <2> QED BY <1>1, <2>1 DEF Open, Checking
<1>5. ~d.decision
  BY <1>1 DEF Shielded, Plain
<1>6. Isolated(w)
  BY <1>2, <1>3 DEF Isolated
<1>7. Plain(w)
  BY <1>2, <1>3, <1>4, <1>5 DEF Plain
<1>8. "check" \notin Modes => CheckFree(w)
  BY <1>1, <1>2 DEF Shielded, CheckFree
<1>9. Become(w)
  OBVIOUS
<1>10. PICK b : d' = [w.d EXCEPT !.boot = b] /\ conn' = w.conn /\ svc' = w.svc
  BY ONLY <1>9, BecomeIs
<1> QED BY <1>2, <1>3, <1>6, <1>7, <1>8, <1>10, BarredStep

LEMMA LaunchOverrideBarred ==
    ASSUME IInv, Shielded, LaunchOverride
    PROVE  Barred
PROOF
<1>1. CASE d.blocked /\ ~d.act
  <2> DEFINE k == d.verified
             n == ~d.verified
             c == [d EXCEPT !.pending = TRUE, !.skip = k,
                            !.override = n, !.blocked = FALSE,
                            !.verified = FALSE, !.retry = FALSE]
             w == [World EXCEPT !.d = c]
  <2>1. World \in Worlds /\ World.d = d /\ d \in Loose
    BY WorldIs
  <2>2. Become(w) /\ consent' = TRUE
    <3>1. [World EXCEPT !.d.pending = TRUE, !.d.skip = d.verified,
                        !.d.override = ~d.verified, !.d.blocked = FALSE,
                        !.d.verified = FALSE, !.d.retry = FALSE] = w
      BY <2>1 DEF Worlds
    <3> HIDE DEF w
    <3> QED BY <1>1, <3>1 DEF LaunchOverride, Answer
  <2>3. k \in BOOLEAN /\ n \in BOOLEAN
    BY <2>1 DEF Loose
  <2>4. k => d.verified
    OBVIOUS
  <2> HIDE DEF k, n
  <2>5. d \in Loose
    BY <2>1
  <2>6. c \in Loose
    BY <2>3, <2>5 DEF Loose
  <2>7. /\ c.blocked = FALSE /\ c.verified = FALSE /\ c.skip = k
        /\ c.coord = d.coord /\ c.ready = d.ready
        /\ c.decision = d.decision /\ c.child = d.child
    BY <2>1 DEF Loose
  <2> HIDE DEF c
  <2> QED BY <1>1, <2>2, <2>4, <2>6, <2>7, AskAgainBarred
<1>2. CASE ~(d.blocked /\ ~d.act)
  <2>1. Answer(World, "browsing") /\ consent' = consent
    BY <1>2 DEF LaunchOverride
  <2> QED BY <2>1, BrowsingBarred
<1> QED BY <1>1, <1>2

LEMMA LaunchRetryBarred ==
    ASSUME IInv, Shielded, LaunchRetry
    PROVE  Barred
PROOF
<1> DEFINE asks == d.blocked /\ ~d.decision /\ ~d.verified /\ d.retry /\ ~d.act
<1>1. consent' = consent
  BY DEF LaunchRetry
<1>2. CASE asks
  <2> DEFINE c == [d EXCEPT !.pending = TRUE, !.skip = FALSE,
                            !.override = FALSE, !.blocked = FALSE, !.retry = FALSE]
             w == [World EXCEPT !.d = c]
  <2>1. World \in Worlds /\ World.d = d /\ d \in Loose
    BY WorldIs
  <2>2. Become(w)
    <3>1. [World EXCEPT !.d.pending = TRUE, !.d.skip = FALSE,
                        !.d.override = FALSE, !.d.blocked = FALSE,
                        !.d.retry = FALSE] = w
      BY <2>1 DEF Worlds
    <3> HIDE DEF w
    <3> QED BY <1>2, <3>1 DEF LaunchRetry, Answer
  <2>3. d \in Loose
    BY <2>1
  <2>4. c \in Loose
    BY <2>3 DEF Loose
  <2>5. /\ c.blocked = FALSE /\ c.verified = d.verified /\ c.skip = FALSE
        /\ c.override = FALSE /\ c.coord = d.coord /\ c.ready = d.ready
        /\ c.decision = d.decision /\ c.child = d.child
    BY <2>1 DEF Loose
  <2> HIDE DEF c
  <2> QED BY <1>2, <2>2, <2>4, <2>5, AskAgainBarred
<1>3. CASE ~asks
  <2>1. Answer(World, "browsing")
    BY <1>3 DEF LaunchRetry
  <2> QED BY <1>1, <2>1, BrowsingBarred
<1> QED BY <1>2, <1>3

LEMMA DismissBarred ==
    ASSUME IInv, Shielded, Dismiss
    PROVE  Barred
PROOF
<1> DEFINE w == Dismissed(World)
<1>1. ui # "gone" /\ Become(w)
  BY DEF Dismiss, Answer
<1>2. Good(World) /\ World.d = d
  BY WorldIs
<1>3. d.child = "launcher" /\ (d.override => ~d.coord /\ ~d.ready)
  BY <1>1, LauncherPlain
<1>4. Good(w)
  BY <1>2, DismissedFacts
<1>5. /\ Isolated(w) /\ Plain(w) /\ Keeps(World, w)
      /\ ~w.d.override /\ ~w.d.skip
  BY <1>2, <1>3, DismissedKeeps DEF Shielded
<1> HIDE DEF w
<1>6. PICK b : d' = [w.d EXCEPT !.boot = b] /\ conn' = w.conn /\ svc' = w.svc
  BY <1>1, BecomeIs
<1> QED BY <1>2, <1>3, <1>4, <1>5, <1>6, BarredStep DEF Good, Keeps, Shielded

LEMMA StartNowBarred ==
    ASSUME IInv, Shielded, StartNow
    PROVE  Barred
PROOF
<1> DEFINE Body(g, e) ==
               [s \in 0..NServices |->
                  IF s = 0 THEN World
                  ELSE IF g[s - 1].d.coord /\ g[s - 1].conn[s].phase = "waiting"
                  THEN Cancel(g[s - 1], e, s) ELSE g[s - 1]]
           F(e) == CHOOSE g : g = Body(g, e)
<1>1. PICK e \in Events : Step(F(e)[NServices])
  BY DEF StartNow
<1> DEFINE f == F(e)
<1>2. NServices \in Nat /\ Good(World) /\ World \in Worlds
  BY WorldIs, GameLaunchAssumption
<1>3. f = [s \in 0..NServices |->
             IF s = 0 THEN World ELSE Turned(f[s - 1], e, s, FALSE)]
  <2>1. PICK g : Turns(g, NServices, World, e, FALSE)
    BY <1>2, TurnsExist
  <2>2. g = Body(g, e)
    BY <2>1 DEF Turns, Turned
  <2>3. f = Body(f, e)
    BY <2>2
  <2> HIDE DEF f, F
  <2> QED BY <2>3 DEF Turned
<1>4. Step(f[NServices])
  BY <1>1
<1> HIDE DEF f
<1> DEFINE Fine(n) == Good(f[n]) /\ Steady(World, f[n]) /\ Guards(World, f[n], {})
           P == {n \in Nat : n <= NServices => Fine(n)}
<1>5. 0 \in P
  BY <1>2, <1>3, SteadyItself, GuardsItself
<1>6. ASSUME NEW n \in Nat, n \in P
      PROVE  n + 1 \in P
  <2> SUFFICES ASSUME n + 1 <= NServices
               PROVE  Fine(n + 1)
    OBVIOUS
  <2>1. n + 1 \in Service /\ n + 1 \in 0..NServices /\ n + 1 # 0 /\ (n + 1) - 1 = n
    BY <1>2 DEF Service
  <2>2. f[n + 1] = Turned(f[n], e, n + 1, FALSE)
    BY <1>3, <2>1
  <2>3. Fine(n)
    BY <1>2, <1>6
  <2> DEFINE y == Cancel(f[n], e, n + 1)
  <2>4. \/ f[n + 1] = f[n]
        \/ f[n + 1] = y /\ f[n].conn[n + 1].phase = "waiting"
    BY <2>2 DEF Turned
  <2>5. ASSUME f[n].conn[n + 1].phase = "waiting"
        PROVE  Good(y) /\ Steady(f[n], y) /\ Guards(f[n], y, {})
    BY <2>1, <2>3, <2>5, CancelFacts, CancelGuards DEF Asking
  <2> HIDE DEF y
  <2>6. ASSUME f[n].conn[n + 1].phase = "waiting"
        PROVE  Steady(World, y) /\ Guards(World, y, {})
    BY <1>2, <2>3, <2>5, <2>6, SteadyThen, GuardsBoth
  <2> QED BY <2>3, <2>4, <2>5, <2>6
<1> HIDE DEF P
<1>7. NServices \in P
  BY <1>2, <1>5, <1>6, SetInduction
<1>8. Fine(NServices)
  BY <1>2, <1>7 DEF P
<1>9. Releases(World, f[NServices])
  BY <1>2, <1>8, SteadyReleases DEF Shielded
<1> QED BY <1>4, <1>8, <1>9, StepBarred DEF Step

-----------------------------------------------------------------------------
(* The children *)

\* The launcher, or the writer, is gone.
LEMMA ChildGone ==
    ASSUME IInv, Shielded
    PROVE  LET w0 == [World EXCEPT !.d.child = Nobody]
           IN  /\ Good(w0) /\ w0.d.child = Nobody
               /\ w0.d.coord = d.coord /\ w0.d.ready = d.ready
               /\ w0.d.pending = d.pending /\ w0.ids = ids
               /\ Isolated(w0) /\ Keeps(World, w0)
PROOF
<1> DEFINE w0 == [World EXCEPT !.d.child = Nobody]
<1>1. World.d = d /\ World.ids = ids /\ Good(World) /\ d \in Loose
  BY WorldIs
<1>2. d.boot \in {"no", "waiting", "launching"}
  BY <1>1 DEF Loose
<1>3. Nobody \in {Nobody, "launcher", "game"} /\ Nobody # "game"
  BY DEF Nobody
<1>4. w0 = Front(World, Nobody, d.boot)
  BY <1>1, FrontChild
<1> HIDE DEF w0
<1>5. /\ Good(w0) /\ w0.d.child = Nobody /\ SameRecord(World, w0)
      /\ w0.d.coord = World.d.coord /\ w0.ids = World.ids
  BY <1>1, <1>2, <1>3, <1>4, FrontFacts
<1>6. Keeps(World, w0) /\ Isolated(w0)
  BY <1>1, <1>2, <1>3, <1>4, FrontKeeps DEF Shielded
<1> QED BY <1>1, <1>5, <1>6 DEF w0, SameRecord

LEMMA LauncherExitsBarred ==
    ASSUME IInv, Shielded, LauncherExits
    PROVE  Barred
PROOF
<1> DEFINE w0 == [World EXCEPT !.d.child = Nobody]
           w(e) == AfterLauncher(w0, e)
<1>1. PICK e \in LaunchEvents : Become(w(e)) /\ consent' = (consent /\ ~Spent(w(e)))
  BY DEF LauncherExits
<1>2. /\ Good(w0) /\ w0.d.child = Nobody /\ Isolated(w0) /\ Keeps(World, w0)
  BY ChildGone
<1> HIDE DEF w0
<1>3. Plain(w0)
  BY <1>2 DEF Keeps, Shielded
<1>4. Good(w(e))
  BY <1>2, AfterLauncherFacts
<1>5. Releases(w0, w(e))
  BY <1>2, <1>3, AfterLauncherReleases
<1> HIDE DEF w
<1>6. Releases(World, w(e))
  BY <1>2, <1>5, KeepsReleases
<1> QED BY <1>1, <1>4, <1>6, ReleaseBarred DEF Spent

LEMMA ReapWriterBarred ==
    ASSUME IInv, Shielded, ReapWriter
    PROVE  Barred
PROOF
<1> DEFINE w0 == [World EXCEPT !.d.child = Nobody]
           over(e) == Finish(w0, e)
           spawned(e) == SpawnPending(over(e), e)
           next(e) == OrLauncher(spawned(e))
<1>1. d.child = "game"
  BY DEF ReapWriter
<1>2. PICK e \in LaunchEvents :
        /\ d' = [next(e).d EXCEPT !.boot = "no"]
        /\ conn' = next(e).conn /\ svc' = next(e).svc
        /\ consent' = (consent /\ next(e).d.child # "game")
  BY DEF ReapWriter
<1>3. World.d = d /\ World.ids = ids /\ Good(World)
  BY WorldIs
<1>4. ~d.coord /\ ~d.ready /\ (d.pending => ids < MaxLaunches)
  BY <1>1, <1>3 DEF Good, Kept
<1>5. /\ Good(w0) /\ w0.d.child = Nobody /\ ~w0.d.coord /\ ~w0.d.ready
      /\ w0.d.pending => w0.ids < MaxLaunches
      /\ Isolated(w0) /\ Keeps(World, w0)
  BY <1>4, ChildGone
<1> HIDE DEF w0
<1>6. /\ Good(over(e)) /\ over(e).d.child = Nobody
      /\ ~over(e).d.coord /\ ~over(e).d.ready
      /\ Isolated(over(e)) /\ Keeps(w0, over(e))
  BY <1>5, FinishFacts, FinishKeeps
<1> HIDE DEF over
<1>7. /\ Good(spawned(e)) /\ Releases(over(e), spawned(e))
      /\ spawned(e).d.child \in {Nobody, "game"}
  BY <1>6, SpawnPendingFacts, SpawnPendingReleases
<1> HIDE DEF spawned
<1>8. Good(next(e)) /\ Releases(over(e), next(e))
  BY <1>7, OrLauncherFacts, OrLauncherReleases
<1> HIDE DEF next
<1>9. next(e).d.child = "game" => ~Asked(next(e))
  BY <1>6, <1>8 DEF Releases, Nobody
<1>10. Releases(World, next(e))
  BY <1>5, <1>6, <1>8, KeepsReleases
<1>11. next(e) \in Worlds /\ Isolated(next(e)) /\ Plain(next(e))
       /\ ("check" \notin Modes => CheckFree(next(e)))
  BY <1>8, <1>10 DEF Good, Releases, Shielded
<1>12. ASSUME Asked(next(e))
       PROVE  /\ next(e).d.override => consent'
              /\ next(e).d.skip => consent' \/ "switch" \in Features
  <2>1. /\ Asked(World)
        /\ next(e).d.override => d.override
        /\ next(e).d.skip => d.skip
    BY <1>3, <1>10, <1>12 DEF Releases
  <2>2. consent' = consent
    BY <1>2, <1>9, <1>12 DEF IInv
  <2> QED BY <2>1, <2>2 DEF Shielded
<1> DEFINE v == next(e)
<1>13. /\ v \in Worlds /\ Isolated(v) /\ Plain(v)
       /\ "check" \notin Modes => CheckFree(v)
       /\ Asked(v) /\ v.d.override => consent'
       /\ Asked(v) /\ v.d.skip => consent' \/ "switch" \in Features
       /\ d' = [v.d EXCEPT !.boot = "no"] /\ conn' = v.conn /\ svc' = v.svc
  BY <1>2, <1>11, <1>12
<1> HIDE DEF v
<1> QED BY <1>1, <1>13, BarredStep

LEMMA SwitchGameBarred ==
    ASSUME IInv, Shielded, NEW t \in Sources, SwitchGame(t)
    PROVE  Barred
PROOF
<1> DEFINE c == [d EXCEPT !.pending = TRUE]
           y == [World EXCEPT !.d = c]
<1>1. /\ d.child = "game" /\ "switch" \in Features
      /\ conn' = conn /\ svc' = svc /\ d' = c
  BY DEF SwitchGame
<1>2. /\ World.d = d /\ World.conn = conn /\ World.svc = svc
      /\ Good(World) /\ World \in Worlds /\ d \in Loose
  BY WorldIs
<1>3. c \in Loose
  BY <1>2 DEF Loose
<1>4. /\ c = [c EXCEPT !.boot = c.boot]
      /\ \A f \in {"coord", "ready", "override", "skip", "verified", "decision",
                   "blocked", "child"} : c[f] = d[f]
  BY <1>2 DEF Loose
<1> HIDE DEF c
<1>5. y \in Worlds /\ y.d = c /\ y.conn = conn /\ y.svc = svc
  BY <1>2, <1>3, WithD
<1> HIDE DEF y
<1>6. ~d.coord /\ ~d.ready
  BY <1>1, <1>2 DEF Good, Kept
<1>7. ~d.blocked /\ ~d.override
  BY <1>1, <1>2 DEF Shielded, Plain
<1>8. Isolated(y)
  BY <1>4, <1>5, <1>6 DEF Isolated
<1>9. Plain(y)
  BY <1>4, <1>5, <1>7 DEF Plain
<1>10. "check" \notin Modes => CheckFree(y)
  BY <1>2, <1>4, <1>5 DEF Shielded, CheckFree
<1>11. d' = [y.d EXCEPT !.boot = c.boot] /\ conn' = y.conn /\ svc' = y.svc
       /\ ~y.d.override
  BY <1>1, <1>4, <1>5, <1>7
<1> QED BY <1>1, <1>5, <1>8, <1>9, <1>10, <1>11, BarredStep

-----------------------------------------------------------------------------
(* The services and their connections *)

\* A connection or a service is touched, but not what the launch asks of it.
LEMMA TouchGuards ==
    ASSUME NEW w \in Worlds, NEW s \in Service, NEW v, NEW c,
           v.st = w.svc[s].st, v.said = w.svc[s].said,
           c.phase = w.conn[s].phase, c.mode \in {w.conn[s].mode, "notify"}
    PROVE  Guards(w, [w EXCEPT !.svc[s] = v, !.conn[s] = c], {})
PROOF
<1> DEFINE x == [w EXCEPT !.svc[s] = v, !.conn[s] = c]
<1>1. x.d = w.d
  BY DEF Worlds
<1>2. ASSUME NEW t \in Service
      PROVE  /\ x.svc[t].st = w.svc[t].st /\ x.svc[t].said = w.svc[t].said
             /\ x.conn[t].phase = w.conn[t].phase
             /\ x.conn[t].mode \in {w.conn[t].mode, "notify"}
  BY DEF Worlds
<1> HIDE DEF x
<1>3. Guards(w, x, {})
  BY <1>1, <1>2, GuardsSame
<1> QED BY <1>3 DEF x

LEMMA RegisteredBarred ==
    ASSUME IInv, Shielded, NEW s \in Service, NEW mode \in Modes, NEW wait \in Waits,
           NEW w, Good(w), Steady(World, w), Releases(World, w),
           Asking(w, s) => mode = w.conn[s].mode,
           StepOn(s, Registered(w, s, mode, wait))
    PROVE  Barred
PROOF
<1> DEFINE x == Registered(w, s, mode, wait)
<1>1. StepOn(s, x)
  OBVIOUS
<1>2. Good(World) /\ World \in Worlds /\ World.conn = conn /\ World.d = d
  BY WorldIs
<1>3. /\ x.d = w.d /\ x.svc = w.svc /\ x \in Worlds
      /\ x.conn[s].phase = w.conn[s].phase /\ x.conn[s].mode = mode
      /\ \A t \in Service \ {s} : x.conn[t] = w.conn[t]
  BY RegisteredFacts
<1> HIDE DEF x
<1>4. Isolated(x)
  <2>1. ASSUME NEW t \in Service, Cleared(w, t)
        PROVE  Cleared(x, t)
    BY <1>3, <2>1 DEF Cleared, Settled, Asking
  <2> QED BY <1>3, <2>1 DEF Releases, Isolated
<1>5. Plain(x)
  <2>1. Plain(w)
    BY DEF Releases, Shielded
  <2>2. \A t \in Service : Checking(x.conn[t]) => Checking(w.conn[t])
    BY <1>3 DEF Checking, Asking
  <2> QED BY <1>3, <2>1, <2>2 DEF Plain
<1>6. "check" \notin Modes => CheckFree(x)
  <2>1. "check" \notin Modes => CheckFree(w) /\ mode # "check"
    BY DEF Releases, Shielded
  <2> QED BY <1>3, <2>1 DEF CheckFree
<1>7. x.d.child = d.child
  BY <1>2, <1>3 DEF Steady, SameRest
<1>8. Become(x) /\ consent' = (consent /\ ~Spent(x))
  BY <1>1 DEF StepOn
<1>9. consent' = consent
  BY <1>7, <1>8 DEF Spent, IInv
<1>10. Asked(x) => /\ x.d.override => consent'
                   /\ x.d.skip => consent' \/ "switch" \in Features
  <2>1. Asked(x) => Asked(World) /\ (x.d.override => d.override)
                    /\ (x.d.skip => d.skip)
    BY <1>2, <1>3 DEF Releases, Asked
  <2> QED BY <1>9, <2>1 DEF Shielded
<1>11. PICK k : d' = [x.d EXCEPT !.boot = k] /\ conn' = x.conn /\ svc' = x.svc
  BY ONLY <1>8, BecomeIs
<1> QED BY <1>3, <1>4, <1>5, <1>6, <1>7, <1>10, <1>11, BarredStep

LEMMA SubscribeBarred ==
    ASSUME IInv, Shielded, NEW s \in Service, NEW mode \in Modes, NEW wait \in Waits,
           Subscribe(s, mode, wait)
    PROVE  Barred
PROOF
<1> DEFINE g(e) == Drop(World, e, s)
           x(w) == Registered(w, s, mode, wait)
<1>1. PICK e \in Events :
        \/ StepOn(s, x(g(e))) \/ StepOn(s, g(e))
        \/ (~conn[s].sub \/ (Asking(World, s) => mode = conn[s].mode))
              /\ StepOn(s, x(World))
  BY DEF Subscribe
<1>2. /\ Good(World) /\ World.conn = conn
      /\ Steady(World, World) /\ Releases(World, World)
  BY WorldIs, SteadyItself, GuardsItself, SteadyReleases DEF Shielded
<1>3. /\ Good(g(e)) /\ Steady(World, g(e)) /\ Releases(World, g(e))
      /\ s \notin Open(g(e))
  BY <1>2, DropFacts, SteadyDrop DEF Shielded
<1> HIDE DEF g
<1>4. CASE StepOn(s, g(e))
  BY <1>3, <1>4, StepBarred
<1>5. CASE StepOn(s, x(g(e)))
  BY <1>3, <1>5, RegisteredBarred DEF Open, Asking
<1>6. CASE /\ ~conn[s].sub \/ (Asking(World, s) => mode = conn[s].mode)
           /\ StepOn(s, x(World))
  BY <1>2, <1>6, OpenSubscribed, RegisteredBarred DEF Asking
<1> QED BY <1>1, <1>4, <1>5, <1>6

LEMMA GameStateBarred ==
    ASSUME IInv, Shielded, NEW s \in Service, GameState(s)
    PROVE  Barred
PROOF
<1> DEFINE y(e) == Drop(World, e, s)
           k == IF d.act /\ ~d.uncertain
                THEN World.svc[s].told \cup {d.id} ELSE World.svc[s].told
           v == [World.svc[s] EXCEPT !.told = k]
           n == ~d.uncertain
           b == d.act /\ ~d.uncertain /\ conn[s].mode # "notify"
           c == [World.conn[s] EXCEPT !.reconciled = n, !.stopAfterFlush = b]
           x == [World EXCEPT !.svc[s] = v, !.conn[s] = c]
<1>1. /\ Good(World) /\ World \in Worlds /\ d \in Loose
      /\ World.conn = conn /\ World.svc = svc /\ World.d = d
  BY WorldIs
<1>2. World.svc[s] \in Svcs /\ World.conn[s] \in Conns
  BY <1>1, WorldFields
<1>3. (\E e \in Events : StepOn(s, y(e))) \/ StepOn(s, x)
  <2> HIDE DEF y
  <2>1. [World EXCEPT !.svc[s].told = k, !.conn[s].reconciled = n,
                      !.conn[s].stopAfterFlush = b] = x
    <3> HIDE DEF k, n, b
    <3>1. World \in Worlds
      BY <1>1
    <3> QED BY <3>1 DEF Worlds
  <2> HIDE DEF x
  <2> QED BY <2>1 DEF GameState, y
<1>4. ASSUME NEW e, StepOn(s, y(e))
      PROVE  Barred
  <2>1. Good(y(e)) /\ Releases(World, y(e))
    BY <1>1, DropFacts, SteadyDrop DEF Shielded
  <2> HIDE DEF y
  <2> QED BY <1>4, <2>1, StepBarred
<1>5. ASSUME StepOn(s, x)
      PROVE  Barred
  <2>1. d.act /\ ~d.uncertain => d.id \in 1..MaxLaunches
    <3>1. d.act /\ ~d.uncertain => d.id # 0
      BY <1>1 DEF Good, Kept
    <3>2. d.id \in 0..MaxLaunches
      BY <1>1 DEF Loose
    <3> QED BY <3>1, <3>2, GameLaunchAssumption
  <2>2. k \in SUBSET (1..MaxLaunches)
    BY <1>2, <2>1 DEF Svcs
  <2>3. n \in BOOLEAN /\ b \in BOOLEAN
    BY <1>1 DEF Loose
  <2> HIDE DEF k, n, b
  <2>4. v \in Svcs /\ v.st = World.svc[s].st /\ v.said = World.svc[s].said
    BY <1>2, <2>2 DEF Svcs
  <2>5. c \in Conns
    BY <1>2, <2>3 DEF Conns
  <2>6. /\ c.phase = World.conn[s].phase /\ c.sub = World.conn[s].sub
        /\ c.mode = World.conn[s].mode
    BY <1>2 DEF Conns
  <2> HIDE DEF c, v
  <2>7. c.phase # "none" => c.sub
    BY <1>1, <2>6, OpenSubscribed
  <2>8. Good(x) /\ Steady(World, x)
    BY <1>1, <2>4, <2>5, <2>6, <2>7, TouchFacts
  <2>9. Guards(World, x, {})
    BY <1>1, <2>4, <2>6, TouchGuards
  <2> HIDE DEF x
  <2>10. Releases(World, x)
    BY <1>1, <2>8, <2>9, SteadyReleases DEF Shielded
  <2> QED BY <1>5, <2>8, <2>10, StepBarred
<1> HIDE DEF x, y
<1> QED BY <1>3, <1>4, <1>5

LEMMA StopAfterFlushBarred ==
    ASSUME IInv, Shielded, NEW s \in Service, StopAfterFlush(s)
    PROVE  Barred
PROOF
<1> DEFINE y(e) == Stop(World, e, s)
           c(e) == [y(e).conn[s] EXCEPT !.stopAfterFlush = FALSE]
           z(e) == [y(e) EXCEPT !.conn[s] = c(e)]
           x(e) == Drop(z(e), e, s)
<1>1. Good(World) /\ World \in Worlds
  BY WorldIs
<1>2. ASSUME NEW e
      PROVE  Good(y(e)) /\ Steady(World, y(e)) /\ Guards(World, y(e), {})
  BY <1>1, StopFacts, StopGuards
<1> HIDE DEF y
<1>3. ASSUME NEW e
      PROVE  [y(e) EXCEPT !.conn[s].stopAfterFlush = FALSE] = z(e)
  <2>1. y(e) \in Worlds
    BY <1>2 DEF Good
  <2> QED BY <2>1 DEF Worlds
<1>4. ASSUME NEW e
      PROVE  Good(z(e)) /\ Steady(y(e), z(e)) /\ Guards(y(e), z(e), {})
  <2>1. Good(y(e)) /\ y(e) \in Worlds /\ y(e).conn[s] \in Conns /\ y(e).svc[s] \in Svcs
    BY <1>2, WorldFields DEF Good
  <2>2. c(e) \in Conns
    BY <2>1 DEF Conns
  <2>3. /\ c(e).phase = y(e).conn[s].phase /\ c(e).sub = y(e).conn[s].sub
        /\ c(e).mode = y(e).conn[s].mode
    BY <2>1 DEF Conns
  <2> DEFINE v == y(e).svc[s]
             k == c(e)
             u == [y(e) EXCEPT !.svc[s] = v, !.conn[s] = k]
  <2>4. z(e) = u
    BY <2>1 DEF Worlds
  <2>5. v.st = y(e).svc[s].st /\ v.said = y(e).svc[s].said /\ k = c(e)
    OBVIOUS
  <2> HIDE DEF c, v, k
  <2>6. Guards(y(e), u, {})
    BY <2>1, <2>3, <2>5, TouchGuards
  <2>7. k.phase # "none" => k.sub
    BY <2>1, <2>3, <2>5, OpenSubscribed
  <2>8. Good(u) /\ Steady(y(e), u)
    BY <2>1, <2>2, <2>3, <2>5, <2>7, TouchFacts DEF v
  <2> HIDE DEF u, z
  <2> QED BY <2>4, <2>6, <2>8
<1> HIDE DEF z
<1>5. PICK e \in Events : StepOn(s, x(e))
  BY <1>3 DEF StopAfterFlush, y
<1>6. Good(x(e)) /\ Steady(z(e), x(e)) /\ Guards(z(e), x(e), {})
  BY <1>4, DropFacts, DropGuards
<1> HIDE DEF x
<1>7. Steady(World, z(e)) /\ Guards(World, z(e), {})
  BY <1>1, <1>2, <1>4, SteadyThen, GuardsBoth
<1>8. Steady(World, x(e)) /\ Guards(World, x(e), {})
  BY <1>1, <1>4, <1>6, <1>7, SteadyThen, GuardsBoth
<1>9. Releases(World, x(e))
  BY <1>1, <1>8, SteadyReleases DEF Shielded
<1> QED BY <1>5, <1>6, <1>9, StepBarred

LEMMA DisconnectBarred ==
    ASSUME IInv, Shielded, NEW s \in Service, Disconnect(s)
    PROVE  Barred
PROOF
<1> DEFINE x(e) == Drop(World, e, s)
<1>1. PICK e \in Events : StepOn(s, x(e))
  BY DEF Disconnect
<1>2. Good(x(e)) /\ Releases(World, x(e))
  BY WorldIs, DropFacts, SteadyDrop DEF Shielded
<1> HIDE DEF x
<1> QED BY <1>1, <1>2, StepBarred

LEMMA StatusBarred ==
    ASSUME IInv, Shielded, NEW s \in Service, NEW kind \in Kinds, Status(s, kind)
    PROVE  Barred
PROOF
<1> DEFINE x(e, id) == Answered(World, e, s, kind, id)
<1>1. PICK id \in svc[s].told, e \in Events : StepOn(s, x(e, id))
  BY DEF Status
<1>2. Good(World) /\ World.svc = svc
  BY WorldIs
<1>3. Good(x(e, id)) /\ Releases(World, x(e, id))
  BY <1>2, AnsweredFacts, AnsweredReleases DEF Shielded
<1> HIDE DEF x
<1> QED BY <1>1, <1>3, StepBarred

LEMMA ExpireBarred ==
    ASSUME IInv, Shielded, NEW s \in Service, Expire(s)
    PROVE  Barred
PROOF
<1> DEFINE y(e) == Expired(World, e, s)
           x(e) == LaunchIfReady(y(e), e)
<1>1. d.coord /\ Asking(World, s)
  BY DEF Expire
<1>2. PICK e \in Events : StepOn(0, x(e))
  BY DEF Expire, Step
<1>3. Good(World) /\ World.d = d
  BY WorldIs
<1>4. Releases(World, x(e))
  BY <1>1, <1>3, ExpiredReleases DEF Shielded
<1>5. Good(y(e))
  BY <1>1, <1>3, ExpiredFacts
<1> HIDE DEF y
<1>6. Good(x(e))
  BY <1>5, LaunchIfReadyFacts
<1> HIDE DEF x
<1> QED BY <1>2, <1>4, <1>6, StepBarred

\* The start gate is shut during a launch: what starts need not be asked.
LEMMA ServiceStartsBarred ==
    ASSUME IInv, Shielded, NEW s \in Service, ServiceStarts(s)
    PROVE  Barred
PROOF
<1> DEFINE v == [svc[s] EXCEPT !.st = "live"]
           c == conn[s]
           x == [World EXCEPT !.svc[s] = v, !.conn[s] = c]
<1>1. /\ Good(World) /\ World \in Worlds /\ World.conn = conn /\ World.svc = svc
      /\ World.d = d
  BY WorldIs
<1>2. svc[s] \in Svcs /\ c \in Conns
  BY <1>1, WorldFields DEF Worlds
<1>3. v \in Svcs
  BY <1>2 DEF Svcs
<1>4. [World EXCEPT !.svc[s].st = "live"] = x
  BY <1>1 DEF Worlds
<1>5. StepOn(0, x) /\ (Manifest[s] = "ignore" \/ ~d.gate)
  BY <1>4 DEF ServiceStarts, GateOpen
<1>6. c.phase = World.conn[s].phase /\ (c.phase # "none" => c.sub)
  BY <1>1, OpenSubscribed
<1> HIDE DEF v
<1>7. /\ x.d = World.d /\ x.conn = World.conn
      /\ \A t \in Service \ {s} : x.svc[t] = World.svc[t]
  BY <1>1 DEF Worlds
<1>8. Good(x)
  BY <1>1, <1>2, <1>3, <1>6, TouchFacts
<1> HIDE DEF x, c
<1>9. Keeps(World, x)
  BY <1>7 DEF Keeps, CheckFree, Asked, Plain
<1>10. Isolated(x)
  <2> SUFFICES ASSUME d.coord \/ d.ready, ~d.override, NEW t \in Service
               PROVE  Cleared(x, t)
    BY <1>1, <1>7 DEF Isolated
  <2>1. Cleared(World, t)
    BY <1>1 DEF Shielded, Isolated
  <2>2. d.gate
    BY <1>1 DEF Good, Kept
  <2>3. t = s => Settled(x, t)
    BY <1>5, <2>2 DEF Settled
  <2>4. t # s => Cleared(x, t)
    BY <1>7, <2>1 DEF Cleared, Settled, Asking
  <2> QED BY <2>3, <2>4 DEF Cleared
<1>11. Releases(World, x)
  BY <1>9, <1>10, KeepsIsolated
<1> QED BY <1>5, <1>8, <1>11, StepBarred

LEMMA ServiceEndsBarred ==
    ASSUME IInv, Shielded, NEW s \in Service, ServiceEnds(s)
    PROVE  Barred
PROOF
<1> DEFINE c == [conn[s] EXCEPT !.bound = FALSE]
           x == [World EXCEPT !.svc[s] = Down, !.conn[s] = c]
<1>1. /\ Good(World) /\ World \in Worlds /\ World.conn = conn /\ World.svc = svc
      /\ World.d = d
  BY WorldIs
<1>2. conn[s] \in Conns
  BY <1>1, WorldFields
<1>3. /\ c \in Conns /\ c.phase = conn[s].phase /\ c.sub = conn[s].sub
      /\ c.mode = conn[s].mode
  BY <1>2 DEF Conns
<1>4. Down \in Svcs /\ Down.st = "down"
  BY IdleFacts DEF Down
<1>5. [World EXCEPT !.svc[s] = Down, !.conn[s].bound = FALSE] = x
  BY <1>1 DEF Worlds
<1>6. StepOn(s, x)
  BY <1>5 DEF ServiceEnds
<1> HIDE DEF c
<1>7. c.phase = World.conn[s].phase /\ (c.phase # "none" => c.sub)
  BY <1>1, <1>3, OpenSubscribed
<1>8. Good(x) /\ Steady(World, x)
  BY <1>1, <1>3, <1>4, <1>7, TouchFacts
<1>9. /\ x.d = World.d
      /\ x.svc[s].st = "down" /\ x.conn[s].phase = conn[s].phase
      /\ x.conn[s].mode = conn[s].mode
      /\ \A t \in Service \ {s} : x.svc[t] = World.svc[t] /\ x.conn[t] = World.conn[t]
  BY <1>1, <1>3, <1>4 DEF Worlds
<1> HIDE DEF x
<1>10. \A t \in Service : /\ x.conn[t].mode = World.conn[t].mode
                          /\ x.conn[t].phase = World.conn[t].phase
  BY <1>1, <1>9
<1>11. Frank(World, x) /\ (CheckFree(World) => CheckFree(x))
  BY <1>9, <1>10 DEF Frank, Checking, CheckFree
<1>12. \A t \in Service : Cleared(World, t) => Cleared(x, t)
  BY <1>9, <1>10 DEF Cleared, Settled, Asking
<1>13. \A t \in Service : x.svc[t].st = "stale" => World.svc[t].st = "stale"
  BY <1>9
<1>14. Guards(World, x, {})
  BY <1>9, <1>11, <1>12, <1>13 DEF Guards
<1>15. Releases(World, x)
  BY <1>1, <1>8, <1>14, SteadyReleases DEF Shielded
<1> QED BY <1>6, <1>8, <1>15, StepBarred

-----------------------------------------------------------------------------
(* The daemon's own steps *)

LEMMA TickLaunchBarred ==
    ASSUME IInv, Shielded, TickLaunch
    PROVE  Barred
PROOF
<1> DEFINE w(e) == LaunchIfReady(World, e)
<1>1. PICK e \in Events : StepOn(0, w(e))
  BY DEF TickLaunch, Step
<1>2. Good(w(e)) /\ Releases(World, w(e))
  BY WorldIs, LaunchIfReadyFacts, LaunchIfReadyReleases DEF Shielded
<1> HIDE DEF w
<1> QED BY <1>1, <1>2, StepBarred

LEMMA SurfaceBarred ==
    ASSUME IInv, Shielded, Surface
    PROVE  Barred
PROOF
<1> DEFINE w == Launcher(World)
<1>1. (d.decision \/ d.blocked) /\ StepOn(0, w) /\ d.child = Nobody
  BY DEF Surface, Step
<1>2. World.d = d /\ Good(World)
  BY WorldIs
<1>3. ~d.override \/ ~d.coord
  BY <1>1, <1>2 DEF Shielded, Plain
<1>4. Good(w)
  BY <1>1, <1>2, LauncherFacts
<1>5. Keeps(World, w) /\ Isolated(w)
  BY <1>2, <1>3, LauncherKeeps DEF Shielded
<1> HIDE DEF w
<1> QED BY <1>1, <1>4, <1>5, KeepsIsolated, StepBarred

\* A boot resume that goes on with a launcher.
LEMMA BootIs ==
    ASSUME NEW w, Good(w), Become(Launcher([w EXCEPT !.d.boot = "no"]))
    PROVE  LET l == Launcher(w)
           IN  d' = [l.d EXCEPT !.boot = "no"] /\ conn' = l.conn /\ svc' = l.svc
PROOF
<1>1. w \in Worlds /\ w.d \in Loose
  BY WorldFields DEF Good
<1> DEFINE c == [[w.d EXCEPT !.boot = "no"] EXCEPT !.child = "launcher"]
           k == [w.d EXCEPT !.child = "launcher"]
           x == Launcher([w EXCEPT !.d.boot = "no"])
           l == Launcher(w)
<1>2. x.d = c /\ x.conn = w.conn /\ x.svc = w.svc
  BY <1>1 DEF Launcher, Worlds
<1>3. l.d = k /\ l.conn = w.conn /\ l.svc = w.svc
  BY <1>1 DEF Launcher, Worlds
<1>4. c.child = "launcher" /\ c.boot = "no"
  BY <1>1 DEF Loose
<1>5. [c EXCEPT !.boot = c.boot] = [k EXCEPT !.boot = "no"]
  BY <1>1, <1>4 DEF Loose
<1> HIDE DEF c, k, x, l
<1>6. Become(x)
  BY DEF x
<1>7. d' = [x.d EXCEPT !.boot = x.d.boot] /\ conn' = x.conn /\ svc' = x.svc
  BY <1>2, <1>4, <1>6 DEF Become
<1> QED BY <1>2, <1>3, <1>5, <1>7 DEF l

LEMMA BootRequestBarred ==
    ASSUME IInv, Shielded, BootRequest
    PROVE  Barred
PROOF
<1> DEFINE asked == Request(World)
           made(e) == SpawnPending(asked, e)
           z(w) == IF w.d.blocked THEN Dismissed(w) ELSE w
           x(w) == Launcher([z(w) EXCEPT !.d.boot = "no"])
           y(w) == [w EXCEPT !.d.boot = "launching"]
<1>1. PICK e \in LaunchEvents :
        \E w \in {World, made(e)} : Step(IF NotLaunched(w) THEN x(w) ELSE y(w))
  BY DEF BootRequest
<1>2. PICK w \in {World, made(e)} : Step(IF NotLaunched(w) THEN x(w) ELSE y(w))
  BY <1>1
<1>3. World.d = d /\ World.ids = ids /\ Good(World)
  BY WorldIs
<1>4. d.boot = "waiting" /\ d.child = Nobody /\ ~d.act /\ ids < MaxLaunches
  BY DEF BootRequest, IInv, UiInv
<1>5. ~d.coord /\ ~d.ready
  BY <1>4, NoLaunch
<1>6. /\ Good(asked) /\ asked.d.child = Nobody /\ ~asked.d.coord /\ ~asked.d.ready
      /\ Isolated(asked) /\ Plain(asked) /\ ~asked.d.override /\ ~asked.d.skip
      /\ CheckFree(World) => CheckFree(asked)
  <2>1. Good(asked) /\ SameLaunch(World, asked) /\ ~asked.d.ready
    BY <1>3, <1>4, RequestFacts
  <2>2. /\ Isolated(asked) /\ Plain(asked) /\ ~asked.d.override /\ ~asked.d.skip
        /\ CheckFree(World) => CheckFree(asked)
        /\ asked.d.child = World.d.child
    BY <1>3, <1>5, RequestGuards DEF Shielded
  <2> HIDE DEF asked
  <2> QED BY <1>3, <1>4, <1>5, <2>1, <2>2 DEF SameLaunch
<1> HIDE DEF asked
<1>7. Good(made(e)) /\ Releases(asked, made(e))
  BY <1>6, SpawnPendingFacts, SpawnPendingReleases
<1> HIDE DEF made
<1>8. /\ Good(made(e)) /\ Isolated(made(e)) /\ Plain(made(e))
      /\ "check" \notin Modes => CheckFree(made(e))
      /\ ~made(e).d.override /\ ~made(e).d.skip
      /\ made(e).d.child = "game" => \A s \in Service : Settled(made(e), s)
  BY <1>6, <1>7 DEF Releases, Shielded, Nobody
<1> DEFINE Fit(v) ==
        /\ Good(v) /\ Isolated(v) /\ Plain(v)
        /\ "check" \notin Modes => CheckFree(v)
        /\ Asked(v) /\ v.d.override => consent
        /\ Asked(v) /\ v.d.skip => consent \/ "switch" \in Features
        /\ v.d.child = "game" =>
              /\ \A s \in Service : Settled(v, s)
              /\ ~v.d.override /\ ~v.d.skip
<1>9. Fit(made(e))
  BY <1>8
<1>10. Fit(World)
  BY <1>3, <1>4 DEF Shielded, Nobody
<1>11. Fit(w)
  BY <1>2, <1>9, <1>10
<1>12. CASE NotLaunched(w)
  <2> DEFINE u == z(w)
             v == x(w)
             l == Launcher(u)
  <2>1. StepOn(0, v)
    BY <1>2, <1>12 DEF Step
  <2>2. w.d.child = Nobody /\ ~w.d.coord /\ ~w.d.ready
    BY <1>12 DEF NotLaunched
  <2>3. /\ Good(u) /\ Isolated(u) /\ Keeps(w, u)
        /\ u.d.child = Nobody /\ ~u.d.coord
    <3> DEFINE q == Dismissed(w)
    <3>1. Good(q) /\ SameLaunch(w, q) /\ Isolated(q) /\ Keeps(w, q)
      BY <1>11, <2>2, DismissedFacts, DismissedKeeps
    <3> HIDE DEF q
    <3>2. q.d.child = Nobody /\ ~q.d.coord
      BY <2>2, <3>1 DEF SameLaunch
    <3>3. Keeps(w, w)
      BY DEF Keeps
    <3>4. u = IF w.d.blocked THEN q ELSE w
      BY DEF q
    <3> HIDE DEF u
    <3> QED BY <1>11, <2>2, <3>1, <3>2, <3>3, <3>4
  <2>4. v = Launcher([u EXCEPT !.d.boot = "no"])
    OBVIOUS
  <2> HIDE DEF u, v, x, z
  <2>5. /\ d' = [l.d EXCEPT !.boot = "no"] /\ conn' = l.conn /\ svc' = l.svc
    BY <2>1, <2>3, <2>4, BootIs DEF StepOn
  <2>6. v.d.child = "launcher"
    BY <2>3, <2>4, BootGoesOn
  <2>7. consent' = consent
    BY <2>1, <2>6 DEF StepOn, Spent, IInv
  <2>8. Good(l) /\ l.d.child = "launcher"
    BY <2>3, LauncherFacts
  <2>9. Keeps(u, l) /\ Isolated(l)
    BY <2>3, LauncherKeeps
  <2> HIDE DEF l
  <2>10. /\ l \in Worlds /\ Plain(l) /\ ("check" \notin Modes => CheckFree(l))
         /\ Asked(l) /\ l.d.override => consent'
         /\ Asked(l) /\ l.d.skip => consent' \/ "switch" \in Features
    BY <1>11, <2>3, <2>7, <2>8, <2>9 DEF Keeps, Good
  <2> HIDE DEF Fit
  <2> QED BY <2>5, <2>8, <2>9, <2>10, BarredStep
<1>13. CASE ~NotLaunched(w)
  <2> DEFINE v == y(w)
             b == IF v.d.child = "game" THEN "no" ELSE v.d.boot
  <2>1. StepOn(0, v)
    BY <1>2, <1>13 DEF Step
  <2>2. w \in Worlds /\ w.d \in Loose
    BY <1>11, WorldFields DEF Good
  <2>3. v.d = [w.d EXCEPT !.boot = "launching"] /\ v.conn = w.conn /\ v.svc = w.svc
        /\ v.d.child = w.d.child
    BY <2>2 DEF Worlds, Loose
  <2> HIDE DEF v
  <2>4. d' = [v.d EXCEPT !.boot = b] /\ conn' = v.conn /\ svc' = v.svc
        /\ consent' = (consent /\ ~Spent(v))
    BY <2>1 DEF StepOn, Become
  <2> HIDE DEF b
  <2>5. d' = [w.d EXCEPT !.boot = b] /\ conn' = w.conn /\ svc' = w.svc
    BY <2>2, <2>3, <2>4 DEF Loose
  <2>6. /\ Asked(w) /\ w.d.override => consent'
        /\ Asked(w) /\ w.d.skip => consent' \/ "switch" \in Features
    BY <1>11, <2>3, <2>4 DEF Spent
  <2>7. /\ Isolated(w) /\ Plain(w) /\ ("check" \notin Modes => CheckFree(w))
        /\ w.d.child = "game" => \A s \in Service : Settled(w, s)
    BY <1>11
  <2> HIDE DEF Fit
  <2> QED BY <2>2, <2>5, <2>6, <2>7, BarredStep
<1> QED BY <1>12, <1>13

LEMMA BootTickBarred ==
    ASSUME IInv, Shielded, BootTick
    PROVE  Barred
PROOF
<1> DEFINE cancels == d.decision /\ d.coord /\ Checks # {}
           checked(e) == IF cancels THEN CheckCancelled(World, e) ELSE World
           w(e) == IF checked(e).d.blocked THEN Dismissed(checked(e)) ELSE checked(e)
           x(v) == Launcher([v EXCEPT !.d.boot = "no"])
<1>1. PICK e \in Events :
        \/ (d.decision \/ d.blocked) /\ Step(x(w(e)))
        \/ ~d.coord /\ d.child = Nobody /\ Step(x(World))
  BY DEF BootTick
<1>2. World.d = d /\ Good(World) /\ Isolated(World) /\ Plain(World)
  BY WorldIs DEF Shielded
<1>3. up /\ d.boot = "launching"
  BY <1>1 DEF BootTick, Step, StepOn
<1>4. d.child = Nobody
  BY <1>3 DEF IInv, UiInv
<1> DEFINE Fit(v) == /\ Good(v) /\ Releases(World, v) /\ v.d.child = Nobody
                     /\ ~v.d.override \/ ~v.d.coord
<1>5. Releases(World, World)
  BY <1>2, SteadyItself, GuardsItself, SteadyReleases
<1>6. /\ Good(checked(e)) /\ Releases(World, checked(e)) /\ checked(e).d.child = Nobody
      /\ checked(e).d.coord => checked(e) = World
  <2> DEFINE v == CheckCancelled(World, e)
  <2>1. CASE cancels
    <3>1. Good(v) /\ Steady(World, v) /\ ~v.d.coord /\ Releases(World, v)
      BY <1>2, <2>1, CheckCancelledFacts, CheckCancelledReleases
    <3>2. checked(e) = v
      BY <2>1
    <3> HIDE DEF v, checked
    <3> QED BY <1>2, <1>4, <3>1, <3>2 DEF Steady, SameRest
  <2>2. CASE ~cancels
    BY <1>2, <1>4, <1>5, <2>2
  <2> QED BY <2>1, <2>2
<1> HIDE DEF checked, cancels
<1>7. ASSUME d.decision \/ d.blocked
      PROVE  Fit(w(e))
  <2> DEFINE u == checked(e)
             v == Dismissed(u)
  <2>1. CASE u.d.blocked
    <3>1. Plain(u) /\ Good(u) /\ Isolated(u) /\ u.d.child = Nobody
      BY <1>2, <1>6 DEF Releases
    <3> HIDE DEF u
    <3>2. u.d.override => ~u.d.coord /\ ~u.d.ready
      BY <2>1, <3>1 DEF Plain
    <3>3. Good(v) /\ SameLaunch(u, v)
      BY <3>1, DismissedFacts
    <3>4. Isolated(v) /\ Keeps(u, v) /\ ~v.d.override
      BY <3>1, <3>2, DismissedKeeps
    <3> HIDE DEF v
    <3>5. v.d.child = Nobody
      BY <3>1, <3>3 DEF SameLaunch
    <3>6. Releases(World, v)
      BY <1>6, <3>1, <3>4, ReleasesKeeps DEF u, Nobody
    <3>7. w(e) = v
      BY <2>1 DEF v, u
    <3> QED BY <3>3, <3>4, <3>5, <3>6, <3>7
  <2>2. CASE ~u.d.blocked
    <3>1. w(e) = u
      BY <2>2
    <3>2. ~u.d.override \/ ~u.d.coord
      BY <1>2, <1>6, <1>7, <2>2 DEF Plain
    <3> QED BY <1>6, <3>1, <3>2
  <2> QED BY <2>1, <2>2
<1> HIDE DEF w
<1>8. ASSUME NEW v, Fit(v), Step(x(v))
      PROVE  Barred
  <2> DEFINE u == x(v)
             l == Launcher(v)
  <2>1. StepOn(0, u)
    BY <1>8 DEF Step
  <2>2. d' = [l.d EXCEPT !.boot = "no"] /\ conn' = l.conn /\ svc' = l.svc
    BY <1>8, <2>1, BootIs DEF StepOn
  <2>3. u.d.child = "launcher"
    BY <1>8, BootGoesOn
  <2> HIDE DEF u, x
  <2>4. consent' = consent
    BY <2>1, <2>3 DEF StepOn, Spent, IInv
  <2>5. Good(l) /\ l.d.child = "launcher"
    BY <1>8, LauncherFacts DEF Nobody
  <2>6. Keeps(v, l) /\ Isolated(l)
    BY <1>8, LauncherKeeps DEF Releases
  <2> HIDE DEF l
  <2>7. Releases(World, l)
    BY <1>8, <2>6, ReleasesKeeps DEF Nobody
  <2>8. l \in Worlds /\ Isolated(l) /\ Plain(l) /\ ("check" \notin Modes => CheckFree(l))
    BY <1>2, <2>5, <2>7 DEF Releases, Good, Shielded
  <2>9. /\ Asked(l) /\ l.d.override => consent'
        /\ Asked(l) /\ l.d.skip => consent' \/ "switch" \in Features
    BY <1>2, <2>4, <2>7 DEF Releases, Shielded
  <2> HIDE DEF Fit
  <2> QED BY <2>2, <2>5, <2>8, <2>9, BarredStep
<1>9. ~d.coord /\ d.child = Nobody => Fit(World)
  BY <1>2, <1>5
<1> HIDE DEF x, Fit
<1> QED BY <1>1, <1>7, <1>8, <1>9

\* No launch, and nothing asked.
LEMMA QuietShielded ==
    ASSUME NEW x, ~x.d.coord, ~x.d.ready, ~x.d.pending, ~x.d.blocked, ~x.d.override,
           ~x.d.skip, ~x.d.verified,
           "check" \notin Modes => \A s \in Service : x.conn[s].mode # "check"
    PROVE  /\ Isolated(x) /\ Plain(x) /\ ~Asked(x)
           /\ "check" \notin Modes => CheckFree(x)
BY DEF Isolated, Plain, Asked, CheckFree

LEMMA DaemonCrashBarred ==
    ASSUME IInv, Shielded, DaemonCrash
    PROVE  Barred
PROOF
<1> DEFINE x == World'
<1>1. d' = IdleDaemon /\ conn' = [s \in Service |-> NoConn]
  BY DEF DaemonCrash
<1>2. x.d = IdleDaemon /\ x.conn = conn'
  BY <1>1 DEF World
<1> HIDE DEF x
<1>3. /\ Isolated(x) /\ Plain(x) /\ ~Asked(x)
      /\ "check" \notin Modes => CheckFree(x)
  BY <1>1, <1>2, QuietShielded DEF IdleDaemon, NoConn
<1>4. Shielded'
  BY <1>3 DEF Shielded, x
<1>5. ~WriterStarts
  BY <1>1 DEF WriterStarts, IdleDaemon, Nobody
<1> QED BY <1>4, <1>5 DEF Barred

LEMMA DaemonStartsBarred ==
    ASSUME IInv, Shielded, DaemonStarts
    PROVE  Barred
PROOF
<1> DEFINE x == World'
           start(u) == Recovered(u)
           Fields == {"pending", "coord", "ready", "override", "skip", "verified", "blocked"}
<1>1. /\ conn' = conn
      /\ \E u \in BOOLEAN : \/ d' = [start(u) EXCEPT !.boot = "waiting"]
                            \/ d' = [start(u) EXCEPT !.child = "launcher"]
  BY DEF DaemonStarts, Chances
<1>2. ASSUME NEW u \in BOOLEAN
      PROVE  /\ start(u) \in Loose /\ start(u).child = Nobody
             /\ \A f \in Fields : start(u)[f] = FALSE
  <2>1. CASE disk = 0
    <3>1. start(u) = IdleDaemon
      BY <2>1 DEF Recovered
    <3> HIDE DEF start
    <3> QED BY <3>1, IdleFacts DEF IdleDaemon
  <2>2. CASE disk # 0
    <3> DEFINE i == IF u THEN 0 ELSE disk
               src == IF u THEN NoSource ELSE target
               c == [IdleDaemon EXCEPT
                       !.act = TRUE, !.recovered = TRUE, !.gate = TRUE,
                       !.uncertain = u, !.id = i, !.src = src]
    <3>1. start(u) = c
      BY <2>2 DEF Recovered
    <3>2. i \in 0..MaxLaunches /\ src \in Sources \cup {NoSource}
      <4>1. World.disk = disk /\ World \in Worlds /\ target \in Sources \cup {NoSource}
        BY WorldIs
      <4>2. disk \in 0..MaxLaunches
        BY <4>1, WorldFields
      <4> QED BY <4>1, <4>2, GameLaunchAssumption
    <3> HIDE DEF i, src, start
    <3>3. IdleDaemon \in Loose
      BY IdleFacts
    <3>4. c \in Loose
      BY <1>2, <3>2, <3>3 DEF Loose
    <3>5. c.child = IdleDaemon.child /\ \A f \in Fields : c[f] = IdleDaemon[f]
      BY <3>3 DEF Loose
    <3> HIDE DEF c
    <3> QED BY <3>1, <3>4, <3>5 DEF IdleDaemon
  <2> QED BY <2>1, <2>2
<1> HIDE DEF start
<1>3. (\A f \in Fields : d'[f] = FALSE) /\ d'.child # "game"
  <2>1. PICK u \in BOOLEAN : \/ d' = [start(u) EXCEPT !.boot = "waiting"]
                             \/ d' = [start(u) EXCEPT !.child = "launcher"]
    BY <1>1
  <2> DEFINE c == [start(u) EXCEPT !.boot = "waiting"]
             k == [start(u) EXCEPT !.child = "launcher"]
  <2>2. start(u) \in Loose /\ start(u).child # "game"
    BY <1>2 DEF Nobody
  <2>3. c.child # "game" /\ k.child # "game"
    BY <2>2 DEF Loose
  <2>4. \A f \in Fields : c[f] = start(u)[f] /\ k[f] = start(u)[f]
    BY <2>2 DEF Loose
  <2>5. d' = c \/ d' = k
    BY <2>1
  <2> HIDE DEF c, k
  <2> QED BY <1>2, <2>3, <2>4, <2>5
<1>4. x.d = d' /\ x.conn = conn'
  BY DEF World
<1> HIDE DEF x
<1>5. "check" \notin Modes => \A s \in Service : conn[s].mode # "check"
  BY WorldIs DEF Shielded, CheckFree
<1>6. /\ Isolated(x) /\ Plain(x) /\ ~Asked(x)
      /\ "check" \notin Modes => CheckFree(x)
  BY <1>1, <1>3, <1>4, <1>5, QuietShielded
<1>7. Shielded'
  BY <1>6 DEF Shielded, x
<1> QED BY <1>3, <1>7 DEF Barred, WriterStarts

LEMMA InitShielded ==
    ASSUME Init
    PROVE  Shielded
PROOF
<1> DEFINE x == World
<1>1. d = IdleDaemon /\ conn = [s \in Service |-> NoConn]
  BY DEF Init
<1>2. x.d = IdleDaemon /\ x.conn = conn
  BY <1>1 DEF World
<1> HIDE DEF x
<1>3. /\ ~x.d.coord /\ ~x.d.ready /\ ~x.d.pending /\ ~x.d.blocked
      /\ ~x.d.override /\ ~x.d.skip /\ ~x.d.verified
  BY <1>2 DEF IdleDaemon
<1>4. \A s \in Service : x.conn[s].mode # "check"
  BY <1>1, <1>2 DEF NoConn
<1>5. /\ Isolated(x) /\ Plain(x) /\ ~Asked(x)
      /\ "check" \notin Modes => CheckFree(x)
  BY <1>3, <1>4, QuietShielded
<1> QED BY <1>5 DEF Shielded, x

-----------------------------------------------------------------------------
(* The theorems *)

LEMMA LauncherNextBarred ==
    ASSUME IInv, Shielded, LauncherNext
    PROVE  Barred
PROOF
<1>1. CASE AskStatus \/ Acknowledge
  <2>1. d' = d /\ conn' = conn /\ svc' = svc /\ consent' = consent
    BY <1>1 DEF AskStatus, Acknowledge, world
  <2> QED BY <2>1, IdleBarred
<1>2. CASE ~(AskStatus \/ Acknowledge)
  BY <1>2, LaunchGameBarred, CheckWaitBarred, CheckPlayAnywayBarred, CheckCancelBarred,
     LaunchOverrideBarred, LaunchRetryBarred, DismissBarred, StartNowBarred,
     LauncherExitsBarred DEF LauncherNext
<1> QED BY <1>1, <1>2

LEMMA WriterNextBarred ==
    ASSUME IInv, Shielded, WriterNext
    PROVE  Barred
PROOF
<1> DEFINE idles == \/ WriterForks \/ LeaderExits \/ DescendantsExit
                    \/ \E t \in Sources \cup {NoSource} : SourceMoves(t)
<1>1. CASE idles
  <2>1. d' = d /\ conn' = conn /\ svc' = svc /\ consent' = consent
    BY <1>1 DEF WriterForks, LeaderExits, DescendantsExit, SourceMoves, world
  <2> QED BY <2>1, IdleBarred
<1>2. CASE ~idles
  BY <1>2, ReapWriterBarred, SwitchGameBarred DEF WriterNext
<1> QED BY <1>1, <1>2

LEMMA ServiceNextBarred ==
    ASSUME IInv, Shielded, NEW s \in Service, ServiceNext(s)
    PROVE  Barred
BY SubscribeBarred, GameStateBarred, StopAfterFlushBarred, DisconnectBarred, StatusBarred,
   ExpireBarred, ServiceStartsBarred, ServiceEndsBarred DEF ServiceNext

LEMMA NextBarred ==
    ASSUME IInv, Shielded, [Next]_vars
    PROVE  Barred
PROOF
<1>1. CASE LauncherNext \/ WriterNext
  BY <1>1, LauncherNextBarred, WriterNextBarred
<1>2. CASE DaemonNext
  BY <1>2, TickLaunchBarred, SurfaceBarred, BootRequestBarred, BootTickBarred,
     DaemonCrashBarred, DaemonStartsBarred DEF DaemonNext
<1>3. CASE \E s \in Service : ServiceNext(s)
  BY <1>3, ServiceNextBarred
<1>4. CASE UNCHANGED vars
  <2>1. d' = d /\ conn' = conn /\ svc' = svc /\ consent' = consent
    BY <1>4 DEF vars, world
  <2> QED BY <2>1, IdleBarred
<1> QED BY <1>1, <1>2, <1>3, <1>4 DEF Next

\* Every service is down, exempt, settled or being asked while a launch is
\* coordinated (jw__spawn_pending_game visits each of them, main.c:16536-16600),
\* or the player overrode what they say; what the player chose is asked of
\* nobody else.
THEOREM IsolationInvariance == Spec => []Shielded
PROOF
<1>1. IInv /\ Shielded /\ [Next]_vars => Shielded'
  BY NextBarred DEF Barred
<1> QED BY LaunchInvariance, InitShielded, <1>1, PTL DEF Spec

\* For every number of services and launches: a writer starts
\* (jw__game_coordination_launch_if_ready, main.c:16334-16380) only when every
\* game-sensitive service is down or has answered ready for this very launch,
\* unless the player accepted the risk (game-launch-override, main.c:15615).
THEOREM WriterIsIsolated == Spec => WriterIsolated
PROOF
<1>1. IInv /\ Shielded /\ [Next]_vars =>
        [WriterStarts =>
            \/ consent
            \/ \A s \in Service :
                Manifest[s] # "ignore" /\ svc'[s].st # "down" => svc'[s].said = d'.id]_vars
  BY NextBarred DEF Barred
<1> QED BY LaunchInvariance, IsolationInvariance, <1>1, PTL DEF Spec, WriterIsolated

\* Play Anyway holds for the launch it was chosen for ("an override is always
\* one-shot and must be chosen again", main.c:7579), in every instance where a
\* queued switch of games cannot meet a check that was skipped: a cold switch
\* (main.c:7940-8016) keeps pending_launch_skip_check for the next game.
THEOREM ChoiceHolds ==
    "switch" \notin Features \/ "check" \notin Modes => (Spec => []ChoiceIsOneShot)
PROOF
<1>1. ASSUME "switch" \notin Features \/ "check" \notin Modes
      PROVE  Spec => []ChoiceIsOneShot
  <2>1. IInv /\ Shielded => ChoiceIsOneShot
    BY <1>1, WorldIs DEF Shielded, Asked, CheckFree, ChoiceIsOneShot
  <2> QED BY LaunchInvariance, IsolationInvariance, <2>1, PTL
<1> QED BY <1>1

\* An override of what the services say holds for the launch it was chosen for,
\* switches and checks included: pending_launch_override_unverified is reset by
\* each new request and by each end of a launch (main.c:7583, 16272, 16371).
THEOREM OverrideIsOneShot == Spec => [](d.coord /\ d.override => consent)
PROOF
<1>1. IInv /\ Shielded => (d.coord /\ d.override => consent)
  BY WorldIs DEF Shielded, Asked
<1> QED BY LaunchInvariance, IsolationInvariance, <1>1, PTL
===============================================================================
