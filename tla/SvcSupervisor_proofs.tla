------------------------- MODULE SvcSupervisor_proofs -------------------------
(***************************************************************************)
(* Theorems about SvcSupervisor, for every set of services, every policy   *)
(* and every combination of the faults.                                    *)
(*                                                                         *)
(* The inductive invariant IInv relates, service by service, the           *)
(* supervisor's entry to the processes that exist (Linked, ExitKnown,      *)
(* Visible) and to the package barrier (Behind).  The first theorems read  *)
(* the properties of SvcSupervisor off it; the second half of the module   *)
(* is what SvcSupervisor promises over time, each from an invariant of its *)
(* own beside IInv: it implements SvcGeneration, it starts nothing that    *)
(* the user stopped, it unmounts a card only over verified absence, and it *)
(* calls idle only what has no group.                                      *)
(***************************************************************************)
EXTENDS SvcSupervisor, SvcBackoff, TLAPS

-----------------------------------------------------------------------------
(* The inductive invariant *)

\* The entry x owns its group exactly when the group has a leader to reap, and
\* carries a stop latch only while it owns one.
Linked(x, l, k) ==
    /\ IF x.owned THEN l # "none" ELSE l = "none" /\ ~k
    /\ x.stopRequested \/ x.reapPending \/ x.restartAfter => x.owned

\* An exited leader will be looked at.
ExitKnown(x, l, due) ==
    x.owned /\ l = "zombie" => due \/ x.reapPending \/ x.stopRequested

\* A survivor of a daemon crash shows in the state.
Visible(x, t) == t = "orphan" => x.state = "stale" /\ ~x.owned

\* The package barrier p blocks an entry only while it is up, and every entry
\* listed behind it without being blocked has no group.
Behind(x, p) == (x.blocked => p) /\ (p /\ ~x.blocked => ~x.owned)

EntryInv(s) ==
    /\ Linked(svc[s], leader[s], kids[s])
    /\ ExitKnown(svc[s], leader[s], sigchld \/ noted[s])
    /\ up => Visible(svc[s], stray[s])
    /\ Behind(svc[s], pkg)
    /\ ~up => svc[s] = Unlisted
    /\ permit => ~svc[s].owned /\ stray[s] # "orphan"

IInv ==
    /\ TypeOK
    /\ pkg => up
    /\ permit => pkg
    /\ \A s \in Services : EntryInv(s)

-----------------------------------------------------------------------------
(* Entries stay entries *)

LEMMA LoadControlType ==
    ASSUME NEW row \in Rows
    PROVE  LoadControl(row) \in Entry
PROOF BY ConstantsAssumption DEF LoadControl, Entry, Rows, EntryPaks, PakKinds, ZeroPolicy, Policy, GameModes, EffectiveStates, Reasons, Triggers

LEMMA StartedType ==
    ASSUME NEW s, NEW x \in Entry, NEW r, resv[s] \in Policy
    PROVE  Started(s, x, r) \in Entry
PROOF
<1>1. StalePolicy(s, x) \in Policy
  BY DEF StalePolicy, Entry, Policy
<1>2. [x.policy EXCEPT !.onFailure = FALSE] \in Policy
  BY DEF Entry, Policy
<1>3. (r = "unrecorded") \in BOOLEAN /\ (r = "unreaped") \in BOOLEAN
  OBVIOUS
<1>4. CASE r = "ok"
  BY <1>4, ZenonT(60) DEF Started, Entry, EffectiveStates, Reasons
<1>5. CASE r = "unrecorded"
  BY <1>2, <1>5, ZenonT(60) DEF Started, Entry, EffectiveStates, Reasons
<1>6. CASE r = "unreaped"
  BY <1>2, <1>6, ZenonT(60) DEF Started, Entry, EffectiveStates, Reasons
<1>7. CASE r = "stale"
  BY <1>1, <1>7 DEF Started, Entry
<1>8. CASE r \notin {"ok", "unrecorded", "unreaped", "stale"}
  BY <1>8 DEF Started
<1> QED BY <1>4, <1>5, <1>6, <1>7, <1>8

LEMMA IdleStateType ==
    ASSUME NEW x
    PROVE  IdleState(x) \in EffectiveStates
PROOF BY DEF IdleState, EffectiveStates

LEMMA ReconciledType ==
    ASSUME NEW x \in Entry, NEW f \in Findings
    PROVE  Reconciled(x, f) \in Entry
PROOF
<1> DEFINE pak == FoundPak(x, f.found)
           pol == CASE pak \in {"ok", "secondary"} -> f.policy
                    [] pak = "invalid" -> ZeroPolicy
                    [] OTHER -> x.policy
           y == [x EXCEPT !.pak = pak, !.policy = pol]
<1>1. pak \in EntryPaks
  BY ConstantsAssumption DEF FoundPak, Findings, EntryPaks
<1>2. f.policy \in Policy /\ ZeroPolicy \in Policy /\ x.policy \in Policy
  BY ConstantsAssumption DEF Findings, Entry, ZeroPolicy, Policy, GameModes
<1>3. pol \in Policy
  BY <1>2
<1>4. Reconciled(x, f) =
        CASE pak # "ok" -> [y EXCEPT !.state = "unavailable"]
          [] pak = "ok" /\ x.state # "unavailable" -> y
          [] pak = "ok" /\ x.state = "unavailable" /\ ~x.owned ->
                [y EXCEPT !.state = IdleState(y)]
          [] OTHER ->
                [y EXCEPT !.state = IF x.reapPending \/ x.killSent THEN "stopping"
                                    ELSE "running"]
  BY DEF Reconciled, Entry
<1> HIDE DEF pak, pol
<1>5. y \in Entry
  BY <1>1, <1>3 DEF Entry
<1>6. \A v \in EffectiveStates : [y EXCEPT !.state = v] \in Entry
  BY <1>5 DEF Entry
<1>7. IdleState(y) \in EffectiveStates
  BY IdleStateType
<1> HIDE DEF y
<1> QED BY <1>4, <1>5, <1>6, <1>7 DEF EffectiveStates

LEMMA UnlistedType == Unlisted \in Entry
PROOF
<1>1. NoRow \in Rows
  BY ConstantsAssumption DEF NoRow, Rows
<1> QED BY <1>1, LoadControlType DEF Unlisted

LEMMA NoFailures == 0 \in 0..BreakerLimit
PROOF BY ConstantsAssumption

LEMMA RowType ==
    ASSUME NEW x \in Entry
    PROVE  Row(x) \in Rows
PROOF BY DEF Row, Rows, Entry

\* A state of the daemon's own choosing.
LEMMA StateType ==
    ASSUME NEW x \in Entry, NEW v \in EffectiveStates
    PROVE  [x EXCEPT !.state = v] \in Entry
PROOF BY DEF Entry

\* What the invariant looks at in two entries is the same.
SameRuntime(x, y) ==
    /\ y.owned = x.owned
    /\ y.stopRequested = x.stopRequested
    /\ y.reapPending = x.reapPending
    /\ y.restartAfter = x.restartAfter
    /\ y.blocked = x.blocked

\* The failure bookkeeping of the backoff touches no runtime field.
LEMMA RecordFailureFacts ==
    ASSUME NEW x \in Entry, NEW y \in RecordFailure(x)
    PROVE  y \in Entry /\ SameRuntime(x, y) /\ y.policy = x.policy /\ y.reason = x.reason
PROOF
<1> DEFINE n == IF x.fails < BreakerLimit THEN x.fails + 1 ELSE BreakerLimit
<1>1. n \in 0..BreakerLimit
  BY ConstantsAssumption DEF Entry
<1>2. \/ y = [x EXCEPT !.state = "failed"]
      \/ y = [x EXCEPT !.state = "backoff", !.fails = n]
      \/ y = [x EXCEPT !.state = "failed", !.fails = n, !.breaker = TRUE]
  BY DEF RecordFailure
<1> HIDE DEF n
<1>3. CASE y = [x EXCEPT !.state = "failed"]
  BY <1>3 DEF Entry, EffectiveStates, SameRuntime
<1>4. CASE y = [x EXCEPT !.state = "backoff", !.fails = n]
  BY <1>1, <1>4 DEF Entry, EffectiveStates, SameRuntime
<1>5. CASE y = [x EXCEPT !.state = "failed", !.fails = n, !.breaker = TRUE]
  BY <1>1, <1>5 DEF Entry, EffectiveStates, SameRuntime
<1> QED BY <1>2, <1>3, <1>4, <1>5

LEMMA RetryFailedFacts ==
    ASSUME NEW x \in Entry, NEW y \in RetryFailed(x)
    PROVE  y \in Entry /\ SameRuntime(x, y) /\ y.reason = x.reason
PROOF
<1>1. PICK z \in RecordFailure(x) :
          y = [z EXCEPT !.state = IF z.breaker THEN "failed" ELSE x.state]
  BY DEF RetryFailed
<1>2. z \in Entry /\ SameRuntime(x, z) /\ z.reason = x.reason
  BY RecordFailureFacts
<1>3. (IF z.breaker THEN "failed" ELSE x.state) \in EffectiveStates
  BY DEF Entry, EffectiveStates
<1>4. y \in Entry
  BY <1>1, <1>2, <1>3, StateType
<1>5. SameRuntime(z, y) /\ y.reason = z.reason
  BY <1>1, <1>2 DEF SameRuntime, Entry
<1> QED BY <1>2, <1>4, <1>5 DEF SameRuntime

LEMMA ExitRecordedFacts ==
    ASSUME NEW x \in Entry, NEW failed \in BOOLEAN, NEW y \in ExitRecorded(x, failed)
    PROVE  y \in Entry /\ SameRuntime(x, y) /\ y.policy = x.policy
PROOF
<1> DEFINE z == [x EXCEPT !.session = @ /\ x.restartAfter]
<1>1. z \in Entry /\ SameRuntime(x, z) /\ z.policy = x.policy
  BY DEF Entry, SameRuntime
<1>2. y \in RecordFailure(z) \/ y = [z EXCEPT !.state = "stopping"]
  BY DEF ExitRecorded
<1> HIDE DEF z
<1>3. CASE y \in RecordFailure(z)
  BY <1>1, <1>3, RecordFailureFacts DEF SameRuntime
<1>4. CASE y = [z EXCEPT !.state = "stopping"]
  BY <1>1, <1>4 DEF SameRuntime, Entry, EffectiveStates
<1> QED BY <1>2, <1>3, <1>4

LEMMA FreedFacts ==
    ASSUME NEW x \in Entry
    PROVE  /\ Freed(x) \in Entry
           /\ ~Freed(x).owned /\ ~Freed(x).stopRequested
           /\ ~Freed(x).reapPending /\ ~Freed(x).restartAfter
           /\ Freed(x).blocked = x.blocked
           /\ Freed(x).policy = x.policy
           /\ Freed(x).pak = x.pak
PROOF
<1> DEFINE v == IF x.state \in {"backoff", "failed"} THEN x.state ELSE IdleState(x)
<1>1. v \in EffectiveStates
  BY IdleStateType DEF Entry
<1>2. Freed(x) = [x EXCEPT !.owned = FALSE, !.reapPending = FALSE, !.restartAfter = FALSE,
              !.stopRequested = FALSE, !.killSent = FALSE, !.unverified = FALSE,
              !.state = v]
  BY DEF Freed, Entry
<1> HIDE DEF v
<1> QED BY <1>1, <1>2, ZenonT(60) DEF Entry

LEMMA AsyncStoppingFacts ==
    ASSUME NEW x \in Entry, NEW reason \in Reasons, NEW again \in BOOLEAN, x.owned
    PROVE  /\ AsyncStopping(x, reason, again) \in Entry
           /\ AsyncStopping(x, reason, again).owned
           /\ AsyncStopping(x, reason, again).stopRequested
           /\ AsyncStopping(x, reason, again).blocked = x.blocked
PROOF
<1> DEFINE k == x.killSent /\ (x.stopRequested \/ x.reapPending)
<1>1. k \in BOOLEAN /\ "stopping" \in EffectiveStates
  BY DEF EffectiveStates
<1>2. AsyncStopping(x, reason, again) =
        [x EXCEPT !.reason = reason, !.restartAfter = again, !.autostart = FALSE,
                  !.unverified = FALSE, !.killSent = k, !.stopRequested = TRUE,
                  !.state = "stopping"]
  BY DEF AsyncStopping, Entry
<1> HIDE DEF k
<1>3. AsyncStopping(x, reason, again) \in Entry
  <2> DEFINE y == [x EXCEPT !.reason = reason, !.restartAfter = again,
                            !.autostart = FALSE, !.unverified = FALSE]
  <2>1. y \in Entry
    BY DEF Entry
  <2>2. AsyncStopping(x, reason, again) =
          [y EXCEPT !.killSent = k, !.stopRequested = TRUE, !.state = "stopping"]
    BY <1>2
  <2> HIDE DEF y
  <2> QED BY <1>1, <2>1, <2>2, ZenonT(60) DEF Entry
<1>4. AsyncStopping(x, reason, again).owned = x.owned
  BY <1>2, ZenonT(60) DEF Entry
<1>5. AsyncStopping(x, reason, again).stopRequested = TRUE
  BY <1>2 DEF Entry
<1>6. AsyncStopping(x, reason, again).blocked = x.blocked
  BY <1>2 DEF Entry
<1> QED BY <1>3, <1>4, <1>5, <1>6

\* The blocking stop frees the entry, or keeps it with a latch that lets the
\* next ticks finish the job.
LEMMA SyncStoppedFacts ==
    ASSUME NEW x \in Entry, NEW o \in {"stopped", "unverified", "unreaped"},
           x.owned, ~x.restartAfter
    PROVE  LET y == SyncStopped(x, o)
           IN  /\ y \in Entry
               /\ y.blocked = x.blocked
               /\ y.owned = (o # "stopped")
               /\ o = "stopped" => ~y.stopRequested /\ ~y.reapPending /\ ~y.restartAfter
               /\ o = "unverified" => y.stopRequested
               /\ o = "unreaped" => y.reapPending
PROOF
<1>1. CASE o = "stopped"
  <2>1. SyncStopped(x, o) = [Freed(x) EXCEPT !.state = IdleState(x)]
    BY <1>1 DEF SyncStopped
  <2>2. Freed(x) \in Entry /\ IdleState(x) \in EffectiveStates
    BY FreedFacts, IdleStateType
  <2>3. SyncStopped(x, o) \in Entry
    BY <2>1, <2>2, StateType
  <2> QED BY <1>1, <2>1, <2>2, <2>3, FreedFacts DEF Entry
<1>2. CASE o = "unverified"
  BY <1>2 DEF SyncStopped, Entry, EffectiveStates
<1>3. CASE o = "unreaped"
  BY <1>3 DEF SyncStopped, Entry, EffectiveStates
<1> QED BY <1>1, <1>2, <1>3

-----------------------------------------------------------------------------
(* A launch *)

Outcomes == {"none", "ok", "unrecorded", "unreaped", "stale", "failed"}
Groups   == {"ok", "unrecorded", "unreaped"}

LEMMA StartOutcomesFacts ==
    ASSUME NEW s \in Services, NEW x, NEW q, NEW r \in StartOutcomes(s, x, q)
    PROVE  /\ r \in Outcomes \ {"none"}
           /\ r \in Groups => ~Gated(x, q) /\ stray[s] = "none"
           /\ ~Gated(x, q) /\ stray[s] # "none" => r = "stale"
PROOF BY DEF StartOutcomes, Outcomes, Groups

\* A launch that left a group owns it; one that did not changes no runtime field.
LEMMA StartedFacts ==
    ASSUME NEW s, NEW x \in Entry, NEW r \in Outcomes, resv[s] \in Policy
    PROVE  LET y == Started(s, x, r)
           IN  /\ y \in Entry
               /\ y.blocked = x.blocked
               /\ r \in Groups => y.owned
               /\ r \notin Groups => SameRuntime(x, y) /\ y.state = x.state
               /\ r = "unreaped" => y.reapPending
               /\ r \in {"unrecorded", "unreaped"} => y.reason = "intentional"
               /\ r = "ok" => y.active = x.policy
PROOF
<1>1. Started(s, x, r) \in Entry
  BY StartedType
<1>2. CASE r = "ok"
  BY <1>1, <1>2 DEF Started, Groups, Entry
<1>3. CASE r = "unrecorded"
  BY <1>1, <1>3 DEF Started, Groups, Entry
<1>4. CASE r = "unreaped"
  <2>1. Started(s, x, r).reapPending
    BY <1>4 DEF Started, Entry
  <2> QED BY <1>1, <1>4, <2>1 DEF Started, Groups, Entry
<1>5. CASE r \notin Groups
  <2>1. r \in {"none", "stale", "failed"}
    BY <1>5 DEF Outcomes, Groups
  <2> QED BY <1>1, <2>1 DEF Started, Groups, Entry, SameRuntime
<1> QED BY <1>2, <1>3, <1>4, <1>5 DEF Groups

\* The processes after the launch of s for the entry w came to r.
LEMMA LaunchedFacts ==
    ASSUME TypeOK, NEW s \in Services, NEW w \in Entry, NEW r \in Outcomes,
           Launched(s, w, r)
    PROVE  /\ leader' = [leader EXCEPT ![s] = LeaderAfter(r)]
           /\ leader' \in [Services -> {"none", "live", "zombie"}]
           /\ resv' \in [Services -> Policy]
           /\ stopped' \in [Services -> BOOLEAN]
           /\ kids' = kids /\ stray' = stray
           /\ (leader'[s] # "none") <=> r \in Groups
           /\ leader'[s] = "live" => r \in {"ok", "unrecorded"}
           /\ leader'[s] = "zombie" => r = "unreaped"
PROOF
<1>1. w.policy \in Policy
  BY DEF Entry
<1>2. LeaderAfter(r) \in {"none", "live", "zombie"}
  BY DEF LeaderAfter
<1>3. leader' = [leader EXCEPT ![s] = LeaderAfter(r)]
  BY DEF Launched
<1>4. leader' \in [Services -> {"none", "live", "zombie"}] /\ leader'[s] = LeaderAfter(r)
  BY <1>2, <1>3 DEF TypeOK
<1>5. resv' \in [Services -> Policy]
  BY <1>1 DEF Launched, TypeOK
<1>6. stopped' \in [Services -> BOOLEAN]
  BY DEF Launched, TypeOK
<1>7. kids' = kids /\ stray' = stray
  BY DEF Launched
<1>8. /\ (LeaderAfter(r) # "none") <=> r \in Groups
      /\ LeaderAfter(r) = "live" => r \in {"ok", "unrecorded"}
      /\ LeaderAfter(r) = "zombie" => r = "unreaped"
  BY DEF LeaderAfter, Outcomes, Groups
<1> QED BY <1>3, <1>4, <1>5, <1>6, <1>7, <1>8

-----------------------------------------------------------------------------
(* Steps that change one entry *)

Typed ==
    /\ leader \in [Services -> {"none", "live", "zombie"}]
    /\ kids \in [Services -> BOOLEAN]
    /\ resv \in [Services -> Policy]
    /\ store \in [Services -> Rows]
    /\ cont \in Services \cup {NoService}
    /\ noted \in [Services -> BOOLEAN]
    /\ stopped \in [Services -> BOOLEAN]

\* A step of the running daemon that changes the entry of s only, to y,
\* preserves the invariant when y fits the processes and the barrier.
LEMMA OneEntry ==
    ASSUME IInv, NEW s \in Services, NEW y \in Entry, up,
           svc' = [svc EXCEPT ![s] = y],
           Typed',
           \A t \in Services \ {s} :
              leader'[t] = leader[t] /\ kids'[t] = kids[t] /\ noted'[t] = noted[t],
           UNCHANGED <<stray, barriers, up, sigchld>>,
           Linked(y, leader'[s], kids'[s]),
           ExitKnown(y, leader'[s], sigchld \/ noted'[s]),
           Visible(y, stray[s]),
           Behind(y, pkg),
           permit => ~y.owned
    PROVE  IInv'
PROOF
<1>1. TypeOK'
  BY DEF IInv, TypeOK, Typed, barriers
<1>2. (pkg => up)' /\ (permit => pkg)'
  BY DEF IInv, barriers
<1>3. ASSUME NEW t \in Services
      PROVE  EntryInv(t)'
  <2>1. EntryInv(t) /\ EntryInv(s)
    BY DEF IInv
  <2>2. CASE t = s
    <3>1. svc'[s] = y
      BY DEF IInv, TypeOK
    <3> QED BY <2>1, <2>2, <3>1 DEF EntryInv, barriers
  <2>3. CASE t # s
    <3>1. svc'[t] = svc[t]
      BY <2>3 DEF IInv, TypeOK
    <3> QED BY <2>1, <2>3, <3>1 DEF EntryInv, barriers
  <2> QED BY <2>2, <2>3
<1> QED BY <1>1, <1>2, <1>3 DEF IInv

LEMMA PersistType ==
    ASSUME TypeOK, NEW s \in Services, NEW x \in Entry,
           Persist(s, x) \/ store' = [store EXCEPT ![s] = Row(x)] \/ UNCHANGED store
    PROVE  store' \in [Services -> Rows]
PROOF BY RowType DEF Persist, TypeOK

\* The same when no process and no flag changed.
LEMMA QuietEntry ==
    ASSUME IInv, NEW s \in Services, NEW y \in Entry, NEW z \in Entry, up,
           svc' = [svc EXCEPT ![s] = y],
           Persist(s, z) \/ store' = [store EXCEPT ![s] = Row(z)] \/ UNCHANGED store,
           UNCHANGED <<group, barriers, loop>>,
           stopped' \in [Services -> BOOLEAN],
           y.owned = svc[s].owned,
           y.stopRequested \/ y.reapPending \/ y.restartAfter => y.owned,
           svc[s].stopRequested \/ svc[s].reapPending => y.stopRequested \/ y.reapPending,
           y.blocked = svc[s].blocked,
           svc[s].state = "stale" => y.state = "stale" \/ stray[s] # "orphan"
    PROVE  IInv'
PROOF
<1>1. TypeOK /\ EntryInv(s)
  BY DEF IInv
<1>2. Typed'
  BY <1>1, PersistType DEF TypeOK, Typed, group, loop, exits
<1>3. svc[s] \in Entry
  BY <1>1 DEF TypeOK
<1>4. Linked(y, leader'[s], kids'[s])
  BY <1>1 DEF EntryInv, Linked, group
<1>5. ExitKnown(y, leader'[s], sigchld \/ noted'[s])
  BY <1>1 DEF EntryInv, ExitKnown, group, loop, exits
<1>6. Visible(y, stray[s]) /\ Behind(y, pkg) /\ (permit => ~y.owned)
  BY <1>1 DEF EntryInv, Visible, Behind
<1> QED BY <1>2, <1>4, <1>5, <1>6, OneEntry DEF group, loop, exits

\* And when no runtime field of the entry changed either.
LEMMA FrameEntry ==
    ASSUME IInv, NEW s \in Services, NEW y \in Entry, NEW z \in Entry, up,
           svc' = [svc EXCEPT ![s] = y],
           Persist(s, z) \/ store' = [store EXCEPT ![s] = Row(z)] \/ UNCHANGED store,
           UNCHANGED <<group, barriers, loop>>,
           stopped' \in [Services -> BOOLEAN],
           SameRuntime(svc[s], y),
           svc[s].state = "stale" => y.state = "stale" \/ stray[s] # "orphan"
    PROVE  IInv'
PROOF
<1>1. /\ y.owned = svc[s].owned
      /\ y.stopRequested \/ y.reapPending \/ y.restartAfter => y.owned
      /\ svc[s].stopRequested \/ svc[s].reapPending => y.stopRequested \/ y.reapPending
      /\ y.blocked = svc[s].blocked
  BY DEF IInv, SameRuntime, EntryInv, Linked
<1> QED BY <1>1, QuietEntry

LEMMA EnableStep ==
    ASSUME IInv, NEW s \in Services, Enable(s)
    PROVE  IInv'
PROOF
<1> DEFINE y == [svc[s] EXCEPT !.desired = TRUE]
<1>1. TypeOK /\ svc[s] \in Entry
  BY DEF IInv, TypeOK
<1>2. svc' = [svc EXCEPT ![s] = y] /\ svc'[s] = y
  BY <1>1 DEF Enable, TypeOK
<1>3. y \in Entry /\ SameRuntime(svc[s], y) /\ y.state = svc[s].state
  BY <1>1 DEF Entry, SameRuntime
<1>4. /\ up
      /\ store' = [store EXCEPT ![s] = Row(y)]
      /\ UNCHANGED <<group, barriers, loop>>
      /\ stopped' \in [Services -> BOOLEAN]
  BY <1>1, <1>2 DEF Enable, Request, Ready, TypeOK
<1> HIDE DEF y
<1> QED BY <1>2, <1>3, <1>4, FrameEntry

\* A request to stop an owned group changes nothing the invariant does not
\* allow for.
LEMMA DisableStep ==
    ASSUME IInv, NEW s \in Services, Disable(s)
    PROVE  IInv'
PROOF
<1> DEFINE x == svc[s]
           z == [x EXCEPT !.desired = FALSE, !.session = FALSE, !.autostart = FALSE,
                          !.lifecycle = FALSE, !.gameLatch = FALSE]
           y == Disabled(x)
<1>1. TypeOK /\ EntryInv(s) /\ x \in Entry
  BY DEF IInv, TypeOK
<1>2. svc' = [svc EXCEPT ![s] = y] /\ svc'[s] = y
  BY <1>1 DEF Disable, TypeOK
<1>3. z \in Entry /\ SameRuntime(x, z) /\ z.state = x.state
  BY <1>1, ZenonT(60) DEF Entry, SameRuntime
<1>4. /\ up
      /\ store' = [store EXCEPT ![s] = Row(y)]
      /\ UNCHANGED <<group, barriers, loop>>
      /\ stopped' \in [Services -> BOOLEAN]
  BY <1>1, <1>2 DEF Disable, Request, Ready, TypeOK
<1>5. y = CASE x.owned -> AsyncStopping(z, "intentional", FALSE)
            [] ~x.owned /\ x.state \in {"stale", "stopping"} -> z
            [] OTHER -> [z EXCEPT !.state = IdleState(z)]
  BY DEF Disabled
<1>6. CASE x.owned
  <2> HIDE DEF z
  <2>1. y = AsyncStopping(z, "intentional", FALSE) /\ z.owned /\ z.blocked = x.blocked
    BY <1>3, <1>5, <1>6 DEF SameRuntime
  <2> HIDE DEF y
  <2>2. y \in Entry /\ y.owned /\ y.stopRequested /\ y.blocked = x.blocked
    BY <1>3, <2>1, AsyncStoppingFacts DEF Reasons
  <2>3. stray[s] # "orphan"
    BY <1>1, <1>4, <1>6 DEF EntryInv, Visible
  <2>4. y.owned = x.owned
    BY <1>1, <1>6, <2>2 DEF Entry
  <2> HIDE DEF x
  <2> QED BY <1>2, <1>4, <2>2, <2>3, <2>4, QuietEntry DEF x
<1>7. CASE ~x.owned /\ x.state \in {"stale", "stopping"}
  <2>1. y = z
    BY <1>5, <1>7
  <2> HIDE DEF y, z
  <2> QED BY <1>2, <1>3, <1>4, <2>1, FrameEntry
<1>8. CASE ~x.owned /\ x.state \notin {"stale", "stopping"}
  <2>1. y = [z EXCEPT !.state = IdleState(z)]
    BY <1>5, <1>8
  <2> HIDE DEF y, z
  <2>2. y \in Entry
    BY <1>3, <2>1, IdleStateType, StateType
  <2>3. SameRuntime(z, y)
    BY <1>3, <2>1 DEF SameRuntime, Entry
  <2>4. SameRuntime(x, y)
    BY <1>3, <2>3 DEF SameRuntime
  <2> QED BY <1>2, <1>4, <1>8, <2>2, <2>4, FrameEntry
<1> QED BY <1>6, <1>7, <1>8

LEMMA StopStep ==
    ASSUME IInv, NEW s \in Services, Stop(s)
    PROVE  IInv'
PROOF
<1> DEFINE x == svc[s]
           z == [x EXCEPT !.lifecycle = FALSE, !.gameLatch = FALSE, !.session = FALSE]
           y == AsyncStopping(z, "intentional", FALSE)
<1>1. TypeOK /\ EntryInv(s) /\ x \in Entry /\ x.owned
  BY DEF IInv, TypeOK, Stop
<1>2. svc' = [svc EXCEPT ![s] = y] /\ svc'[s] = y
  BY <1>1 DEF Stop, TypeOK
<1>3. z \in Entry /\ SameRuntime(x, z)
  BY <1>1 DEF Entry, SameRuntime
<1>4. /\ up
      /\ store' = [store EXCEPT ![s] = Row(y)]
      /\ UNCHANGED <<group, barriers, loop>>
      /\ stopped' \in [Services -> BOOLEAN]
  BY <1>1, <1>2 DEF Stop, Request, Ready, TypeOK
<1> HIDE DEF z
<1>5. y \in Entry /\ y.owned /\ y.stopRequested /\ y.blocked = x.blocked
  BY <1>1, <1>3, AsyncStoppingFacts DEF Reasons, SameRuntime
<1> HIDE DEF y
<1>6. stray[s] # "orphan"
  BY <1>1, <1>4 DEF EntryInv, Visible
<1>7. y.owned = x.owned
  BY <1>1, <1>5 DEF Entry
<1> QED BY <1>2, <1>4, <1>5, <1>6, <1>7, QuietEntry

LEMMA SettleStep ==
    ASSUME IInv, NEW s \in Services, Settle(s)
    PROVE  IInv'
PROOF
<1> DEFINE y == [svc[s] EXCEPT !.state = "running"]
<1>1. TypeOK /\ svc[s] \in Entry
  BY DEF IInv, TypeOK
<1>2. y \in Entry /\ SameRuntime(svc[s], y)
  BY <1>1 DEF Entry, EffectiveStates, SameRuntime
<1>3. /\ up /\ svc' = [svc EXCEPT ![s] = y] /\ UNCHANGED store
      /\ UNCHANGED <<group, barriers, loop>>
      /\ stopped' \in [Services -> BOOLEAN]
      /\ svc[s].state # "stale"
  BY <1>1 DEF Settle, Ready, TypeOK
<1> HIDE DEF y
<1> QED BY <1>1, <1>2, <1>3, FrameEntry

LEMMA EscalateStep ==
    ASSUME IInv, NEW s \in Services, Escalate(s)
    PROVE  IInv'
PROOF
<1> DEFINE y == [svc[s] EXCEPT !.killSent = TRUE]
<1>1. TypeOK /\ svc[s] \in Entry
  BY DEF IInv, TypeOK
<1>2. y \in Entry /\ SameRuntime(svc[s], y) /\ y.state = svc[s].state
  BY <1>1 DEF Entry, SameRuntime
<1>3. /\ up /\ svc' = [svc EXCEPT ![s] = y] /\ UNCHANGED store
      /\ UNCHANGED <<group, barriers, loop>>
      /\ stopped' \in [Services -> BOOLEAN]
  BY <1>1 DEF Escalate, Stopping, Ready, TypeOK
<1> HIDE DEF y
<1> QED BY <1>1, <1>2, <1>3, FrameEntry

LEMMA StopUnverifiedStep ==
    ASSUME IInv, NEW s \in Services, StopUnverified(s)
    PROVE  IInv'
PROOF
<1> DEFINE y == [svc[s] EXCEPT !.unverified = TRUE]
<1>1. TypeOK /\ svc[s] \in Entry
  BY DEF IInv, TypeOK
<1>2. y \in Entry /\ SameRuntime(svc[s], y) /\ y.state = svc[s].state
  BY <1>1 DEF Entry, SameRuntime
<1>3. /\ up /\ svc' = [svc EXCEPT ![s] = y] /\ Persist(s, svc[s])
      /\ UNCHANGED <<group, barriers, loop>>
      /\ stopped' \in [Services -> BOOLEAN]
  BY <1>1 DEF StopUnverified, Stopping, Ready, TypeOK
<1> HIDE DEF y
<1> QED BY <1>1, <1>2, <1>3, FrameEntry

LEMMA StaleClearedStep ==
    ASSUME IInv, NEW s \in Services, StaleCleared(s)
    PROVE  IInv'
PROOF
<1> DEFINE y == [svc[s] EXCEPT !.state = IdleState(svc[s])]
<1>1. TypeOK /\ svc[s] \in Entry
  BY DEF IInv, TypeOK
<1>2. y \in Entry
  BY <1>1, IdleStateType, StateType
<1>3. SameRuntime(svc[s], y)
  BY <1>1 DEF Entry, SameRuntime
<1>4. /\ up /\ svc' = [svc EXCEPT ![s] = y] /\ Persist(s, svc[s])
      /\ UNCHANGED <<group, barriers, loop>>
      /\ stopped' \in [Services -> BOOLEAN]
      /\ stray[s] # "orphan"
  BY <1>1 DEF StaleCleared, RestartPhases, TypeOK
<1> HIDE DEF y
<1> QED BY <1>1, <1>2, <1>3, <1>4, FrameEntry

-----------------------------------------------------------------------------
(* Steps that launch a generation *)

\* The launch of s came to r for an entry w without a group, whose group has no
\* process left, and the entry became y: Started(s, w, r) up to fields that the
\* invariant does not look at.
LEMMA LaunchEntry ==
    ASSUME IInv, NEW s \in Services, up,
           NEW w \in Entry, ~w.owned,
           ~w.stopRequested, ~w.reapPending, ~w.restartAfter,
           w.blocked = svc[s].blocked,
           ~kids[s],
           NEW r \in Outcomes, NEW v \in Entry, Launched(s, v, r),
           r \in Groups => ~pkg /\ stray[s] = "none",
           NEW y \in Entry, SameRuntime(Started(s, w, r), y),
           stray[s] = "orphan" => y.state = "stale",
           svc' = [svc EXCEPT ![s] = y],
           store' \in [Services -> Rows],
           cont' \in Services \cup {NoService},
           noted' \in [Services -> BOOLEAN],
           \A t \in Services \ {s} : noted'[t] = noted[t],
           UNCHANGED <<barriers, up, sigchld>>
    PROVE  IInv'
PROOF
<1> DEFINE z == Started(s, w, r)
<1>1. TypeOK /\ EntryInv(s) /\ (permit => pkg) /\ resv[s] \in Policy
  BY DEF IInv, TypeOK
<1>2. /\ leader' = [leader EXCEPT ![s] = LeaderAfter(r)]
      /\ leader' \in [Services -> {"none", "live", "zombie"}]
      /\ resv' \in [Services -> Policy]
      /\ stopped' \in [Services -> BOOLEAN]
      /\ kids' = kids /\ stray' = stray
      /\ (leader'[s] # "none") <=> r \in Groups
      /\ leader'[s] = "zombie" => r = "unreaped"
  BY <1>1, LaunchedFacts
<1>3. /\ z \in Entry
      /\ z.blocked = w.blocked
      /\ r \in Groups => z.owned
      /\ r \notin Groups => SameRuntime(w, z)
      /\ r = "unreaped" => z.reapPending
  BY <1>1, StartedFacts
<1> HIDE DEF z
<1>4. Typed'
  BY <1>1, <1>2 DEF Typed, TypeOK
<1>5. \A t \in Services \ {s} : leader'[t] = leader[t] /\ kids'[t] = kids[t]
  BY <1>1, <1>2 DEF TypeOK
<1>6. SameRuntime(z, y)
  BY DEF z
<1>7. (r \in Groups => y.owned) /\ (r \notin Groups => ~y.owned)
  BY <1>3, <1>6 DEF SameRuntime
<1>8. Linked(y, leader'[s], kids'[s])
  BY <1>2, <1>3, <1>6, <1>7 DEF Linked, SameRuntime
<1>9. ExitKnown(y, leader'[s], sigchld \/ noted'[s])
  BY <1>2, <1>3, <1>6 DEF ExitKnown, SameRuntime
<1>10. Visible(y, stray[s]) /\ (permit => ~y.owned)
  BY <1>1, <1>7 DEF Visible
<1>11. Behind(y, pkg)
  BY <1>1, <1>3, <1>6, <1>7 DEF Behind, SameRuntime, EntryInv
<1> QED BY <1>2, <1>4, <1>5, <1>8, <1>9, <1>10, <1>11, OneEntry

\* A launch for an entry that had no group before the step.
LEMMA LaunchIdle ==
    ASSUME IInv, NEW s \in Services, up, ~svc[s].owned,
           NEW w \in Entry, SameRuntime(svc[s], w),
           NEW v \in Entry, NEW q \in {FALSE, pkg}, NEW r \in StartOutcomes(s, v, q), ~pkg,
           Launched(s, v, r),
           NEW y \in Entry, SameRuntime(Started(s, w, r), y),
           stray[s] = "orphan" => y.state = "stale",
           svc' = [svc EXCEPT ![s] = y],
           store' \in [Services -> Rows],
           cont' \in Services \cup {NoService},
           UNCHANGED <<barriers, up, exits>>
    PROVE  IInv'
PROOF
<1>1. TypeOK /\ EntryInv(s)
  BY DEF IInv
<1>2. /\ ~w.owned /\ ~w.stopRequested /\ ~w.reapPending /\ ~w.restartAfter
      /\ w.blocked = svc[s].blocked
      /\ ~kids[s]
  BY <1>1 DEF EntryInv, Linked, SameRuntime
<1>3. r \in Outcomes /\ (r \in Groups => stray[s] = "none")
  BY StartOutcomesFacts
<1>4. noted' \in [Services -> BOOLEAN]
      /\ (\A t \in Services \ {s} : noted'[t] = noted[t])
      /\ sigchld' = sigchld
  BY <1>1 DEF TypeOK, exits
<1> QED BY <1>2, <1>3, <1>4, LaunchEntry

\* A launch that finds a survivor comes to "stale" wherever the gates are open.
LEMMA SurvivorFound ==
    ASSUME NEW s \in Services, NEW v, NEW q, NEW r \in StartOutcomes(s, v, q),
           stray[s] = "orphan", ~q, ~v.blocked, ~(game /\ v.policy.game # "ignore")
    PROVE  r = "stale"
PROOF BY StartOutcomesFacts DEF Gated

LEMMA RunStep ==
    ASSUME IInv, NEW s \in Services, Run(s)
    PROVE  IInv'
PROOF
<1> DEFINE x == svc[s]
           w == [x EXCEPT !.lifecycle = FALSE, !.fails = 0, !.breaker = FALSE]
<1>1. TypeOK /\ EntryInv(s) /\ x \in Entry
  BY DEF IInv, TypeOK
<1>2. /\ up /\ ~x.owned /\ ~pkg /\ ~x.blocked /\ GameAdmits(x)
      /\ UNCHANGED <<barriers, up, exits, cont>>
  BY DEF Run, Request, Ready, loop
<1>3. PICK r \in StartOutcomes(s, w, FALSE) :
        LET z == Started(s, w, r)
        IN  /\ Launched(s, w, r)
            /\ \/ /\ r = "ok"
                  /\ svc' = [svc EXCEPT ![s] = [z EXCEPT !.session = TRUE]]
                  /\ Persist(s, z)
               \/ /\ r = "stale"
                  /\ \E kept \in {TRUE} \cup {k \in {FALSE} : "store" \in Faults} :
                        /\ svc' = [svc EXCEPT ![s] =
                             [z EXCEPT !.session = kept, !.state = "stale"]]
                        /\ store' = [store EXCEPT ![s] =
                             IF kept THEN Row(z) ELSE @]
               \/ /\ r \notin {"ok", "stale"}
                  /\ svc' = [svc EXCEPT ![s] = z]
                  /\ UNCHANGED store
  BY DEF Run
<1> DEFINE z == Started(s, w, r)
<1>4. w \in Entry /\ SameRuntime(x, w) /\ w.policy = x.policy
  BY <1>1, NoFailures DEF Entry, SameRuntime
<1> HIDE DEF w
<1>5. r \in Outcomes /\ resv[s] \in Policy
  <2>1. r \in Outcomes
    BY StartOutcomesFacts
  <2> QED BY <1>1, <2>1 DEF TypeOK
<1>6. z \in Entry
  BY <1>4, <1>5, StartedFacts
<1>7. stray[s] = "orphan" => r = "stale"
  BY <1>2, <1>4, SurvivorFound DEF GameAdmits, SameRuntime
<1>8. cont' \in Services \cup {NoService}
  BY <1>1, <1>2 DEF TypeOK
<1>9. CASE r = "ok"
  <2> DEFINE y == [z EXCEPT !.session = TRUE]
  <2>1. svc' = [svc EXCEPT ![s] = y] /\ Persist(s, z) /\ Launched(s, w, r)
    BY <1>3, <1>9
  <2>2. y \in Entry /\ SameRuntime(z, y)
    BY <1>6 DEF Entry, SameRuntime
  <2>3. store' \in [Services -> Rows]
    BY <1>1, <1>6, <2>1, PersistType
  <2> HIDE DEF y
  <2> QED BY <1>2, <1>4, <1>7, <1>8, <1>9, <2>1, <2>2, <2>3, LaunchIdle
<1>10. CASE r = "stale"
  <2>1. PICK kept \in BOOLEAN :
            /\ svc' = [svc EXCEPT ![s] = [z EXCEPT !.session = kept, !.state = "stale"]]
            /\ store' = [store EXCEPT ![s] = IF kept THEN Row(z) ELSE @]
    BY <1>3, <1>10
  <2> DEFINE y == [z EXCEPT !.session = kept, !.state = "stale"]
  <2>2. y \in Entry /\ SameRuntime(z, y) /\ y.state = "stale"
    BY <1>6 DEF Entry, EffectiveStates, SameRuntime
  <2>3. store' \in [Services -> Rows]
    BY <1>1, <1>6, <2>1, RowType DEF TypeOK
  <2>4. Launched(s, w, r) /\ svc' = [svc EXCEPT ![s] = y]
    BY <1>3, <2>1
  <2> HIDE DEF y
  <2> QED BY <1>2, <1>4, <1>8, <2>2, <2>3, <2>4, LaunchIdle
<1>11. CASE r \notin {"ok", "stale"}
  <2>1. svc' = [svc EXCEPT ![s] = z] /\ UNCHANGED store /\ Launched(s, w, r)
    BY <1>3, <1>11
  <2>2. SameRuntime(z, z)
    BY DEF SameRuntime
  <2>3. store' \in [Services -> Rows]
    BY <1>1, <2>1 DEF TypeOK
  <2> QED BY <1>2, <1>4, <1>6, <1>7, <1>8, <1>11, <2>1, <2>2, <2>3, LaunchIdle
<1> QED BY <1>9, <1>10, <1>11

LEMMA RestartStep ==
    ASSUME IInv, NEW s \in Services, Restart(s)
    PROVE  IInv'
PROOF
<1> DEFINE x == svc[s]
           w == [x EXCEPT !.lifecycle = FALSE, !.fails = 0, !.breaker = FALSE,
                          !.session = TRUE]
<1>1. TypeOK /\ EntryInv(s) /\ x \in Entry
  BY DEF IInv, TypeOK
<1>2. /\ up /\ ~pkg /\ ~x.blocked /\ GameAdmits(x)
      /\ store' = [store EXCEPT ![s] = Row(w)]
      /\ UNCHANGED <<barriers, up, exits, cont>>
  BY DEF Restart, Request, Ready, loop
<1>3. \/ /\ x.owned
         /\ svc' = [svc EXCEPT ![s] = AsyncStopping(w, "intentional", TRUE)]
         /\ UNCHANGED <<group, stopped>>
      \/ /\ ~x.owned
         /\ \E r \in StartOutcomes(s, w, FALSE) :
               LET z == Started(s, w, r)
               IN  /\ Launched(s, w, r)
                   /\ svc' = [svc EXCEPT ![s] =
                        CASE r = "ok" -> z
                          [] r = "stale" -> [z EXCEPT !.state = "stale"]
                          [] OTHER -> [z EXCEPT !.session = x.session]]
  BY DEF Restart
<1>4. w \in Entry /\ SameRuntime(x, w) /\ w.policy = x.policy
  BY <1>1, NoFailures DEF Entry, SameRuntime
<1> HIDE DEF w
<1>5. CASE x.owned
  <2> DEFINE y == AsyncStopping(w, "intentional", TRUE)
  <2>1. svc' = [svc EXCEPT ![s] = y] /\ UNCHANGED <<group, stopped>>
    BY <1>3, <1>5
  <2>2. y \in Entry /\ y.owned /\ y.stopRequested /\ y.blocked = x.blocked
    BY <1>4, <1>5, AsyncStoppingFacts DEF Reasons, SameRuntime
  <2> HIDE DEF y
  <2>3. stray[s] # "orphan" /\ y.owned = x.owned
    BY <1>1, <1>2, <1>5, <2>2 DEF EntryInv, Visible, Entry
  <2>4. UNCHANGED <<group, barriers, loop>> /\ stopped' \in [Services -> BOOLEAN]
    BY <1>1, <1>2, <2>1 DEF loop, TypeOK
  <2> QED BY <1>2, <1>4, <2>1, <2>2, <2>3, <2>4, QuietEntry
<1>6. CASE ~x.owned
  <2>1. PICK r \in StartOutcomes(s, w, FALSE) :
          /\ Launched(s, w, r)
          /\ svc' = [svc EXCEPT ![s] =
               CASE r = "ok" -> Started(s, w, r)
                 [] r = "stale" -> [Started(s, w, r) EXCEPT !.state = "stale"]
                 [] OTHER -> [Started(s, w, r) EXCEPT !.session = x.session]]
    BY <1>3, <1>6
  <2> DEFINE z == Started(s, w, r)
             y == CASE r = "ok" -> z
                    [] r = "stale" -> [z EXCEPT !.state = "stale"]
                    [] OTHER -> [z EXCEPT !.session = x.session]
  <2>2. r \in Outcomes
    BY StartOutcomesFacts
  <2>3. z \in Entry
    BY <1>1, <1>4, <2>2, StartedFacts DEF TypeOK
  <2>4. stray[s] = "orphan" => r = "stale"
    BY <1>2, <1>4, SurvivorFound DEF GameAdmits, SameRuntime
  <2>5. store' \in [Services -> Rows] /\ cont' \in Services \cup {NoService}
    BY <1>1, <1>2, <1>4, RowType DEF TypeOK
  <2>6. svc' = [svc EXCEPT ![s] = y]
    BY <2>1
  <2> HIDE DEF z
  <2>7. y \in Entry /\ SameRuntime(z, y) /\ (r = "stale" => y.state = "stale")
    <3>1. CASE r = "ok"
      BY <2>3, <3>1 DEF SameRuntime
    <3>2. CASE r = "stale"
      BY <2>3, <3>2 DEF Entry, EffectiveStates, SameRuntime
    <3>3. CASE r \notin {"ok", "stale"}
      <4>1. y = [z EXCEPT !.session = x.session]
        BY <3>3
      <4>2. x.session \in BOOLEAN
        BY <1>1 DEF Entry
      <4> HIDE DEF y, x
      <4> QED BY <2>3, <3>3, <4>1, <4>2 DEF Entry, SameRuntime
    <3> QED BY <3>1, <3>2, <3>3
  <2>8. SameRuntime(Started(s, w, r), y)
    BY <2>7 DEF z
  <2> HIDE DEF y
  <2> QED BY <1>2, <1>4, <1>6, <2>1, <2>4, <2>5, <2>6, <2>7, <2>8, LaunchIdle
<1> QED BY <1>5, <1>6

\* What every restart phase of a pass starts from.
LEMMA RestartPhasesFacts ==
    ASSUME IInv, NEW s \in Services, RestartPhases(s)
    PROVE  /\ TypeOK /\ up /\ ~pkg /\ svc[s] \in Entry /\ ~svc[s].owned
           /\ \A r \in StartOutcomes(s, svc[s], pkg) :
                 /\ r \in Outcomes
                 /\ Started(s, svc[s], r) \in Entry
                 /\ stray[s] = "orphan" => r = "stale"
PROOF
<1>1. /\ TypeOK /\ up /\ ~pkg /\ svc[s] \in Entry /\ ~svc[s].owned
      /\ EntryInv(s) /\ resv[s] \in Policy
      /\ ~(game /\ svc[s].policy.game # "ignore")
  BY DEF IInv, TypeOK, RestartPhases
<1>2. ~svc[s].blocked
  BY <1>1 DEF EntryInv, Behind
<1>3. ASSUME NEW r \in StartOutcomes(s, svc[s], pkg)
      PROVE  /\ r \in Outcomes
             /\ Started(s, svc[s], r) \in Entry
             /\ stray[s] = "orphan" => r = "stale"
  <2>1. r \in Outcomes
    BY StartOutcomesFacts
  <2>2. Started(s, svc[s], r) \in Entry
    BY <1>1, StartedType
  <2> QED BY <1>1, <1>2, <2>1, <2>2, SurvivorFound
<1> QED BY <1>1, <1>3

LEMMA ResumeStep ==
    ASSUME IInv, NEW s \in Services, RestartPhases(s),
           NEW spent \in Entry, SameRuntime(svc[s], spent), Resume(s, spent)
    PROVE  IInv'
PROOF
<1> DEFINE x == svc[s]
<1>1. /\ TypeOK /\ up /\ ~pkg /\ x \in Entry /\ ~x.owned
      /\ UNCHANGED <<barriers, up, exits>>
  BY RestartPhasesFacts DEF Resume
<1>2. PICK r \in StartOutcomes(s, x, pkg) :
        /\ svc' = [svc EXCEPT ![s] = Resumed(s, x, spent, r)]
        /\ Launched(s, x, r)
        /\ Persist(s, Resumed(s, x, spent, r)) \/ UNCHANGED store
        /\ cont' = IF r = "failed" THEN s ELSE NoService
  BY DEF Resume
<1> DEFINE y == Resumed(s, x, spent, r)
           w == IF r = "stale" THEN x ELSE spent
           z == Started(s, w, r)
<1>3. w \in Entry /\ SameRuntime(x, w)
  BY <1>1 DEF SameRuntime
<1>4. r \in Outcomes /\ (stray[s] = "orphan" => r = "stale")
  BY RestartPhasesFacts
<1>5. z \in Entry
  BY <1>1, <1>3, <1>4, StartedType DEF TypeOK
<1>6. y = CASE r = "ok" -> z
            [] r = "stale" -> [z EXCEPT !.state = "stale"]
            [] OTHER -> [z EXCEPT !.state = IdleState(x)]
  BY DEF Resumed
<1> HIDE DEF w, y, z
<1>7. y \in Entry /\ SameRuntime(z, y) /\ (r = "stale" => y.state = "stale")
  <2>1. CASE r = "ok"
    BY <1>5, <1>6, <2>1 DEF SameRuntime
  <2>2. CASE r = "stale"
    BY <1>5, <1>6, <2>2 DEF Entry, EffectiveStates, SameRuntime
  <2>3. CASE r \notin {"ok", "stale"}
    <3>1. y = [z EXCEPT !.state = IdleState(x)] /\ IdleState(x) \in EffectiveStates
      BY <1>6, <2>3, IdleStateType
    <3> HIDE DEF x
    <3> QED BY <1>5, <2>3, <3>1 DEF Entry, SameRuntime
  <2> QED BY <2>1, <2>2, <2>3
<1>8. SameRuntime(Started(s, w, r), y)
  BY <1>7 DEF z
<1>9. store' \in [Services -> Rows] /\ cont' \in Services \cup {NoService}
  <2>1. Persist(s, y) \/ UNCHANGED store
    BY <1>2 DEF y
  <2> QED BY <1>1, <1>2, <1>7, <2>1, PersistType
<1>10. svc' = [svc EXCEPT ![s] = y]
  BY <1>2 DEF y
<1> QED BY <1>1, <1>2, <1>3, <1>4, <1>7, <1>8, <1>9, <1>10, LaunchIdle

LEMMA GameResumeStep ==
    ASSUME IInv, NEW s \in Services, GameResume(s)
    PROVE  IInv'
PROOF
<1> DEFINE w == [svc[s] EXCEPT !.gameLatch = FALSE]
<1>1. w \in Entry /\ SameRuntime(svc[s], w)
  <2>1. svc[s] \in Entry
    BY DEF IInv, TypeOK
  <2> QED BY <2>1 DEF Entry, SameRuntime
<1>2. RestartPhases(s) /\ Resume(s, w)
  BY DEF GameResume
<1> HIDE DEF w
<1> QED BY <1>1, <1>2, ResumeStep

LEMMA LifecycleResumeStep ==
    ASSUME IInv, NEW s \in Services, LifecycleResume(s)
    PROVE  IInv'
PROOF
<1> DEFINE w == [svc[s] EXCEPT !.lifecycle = FALSE]
<1>1. w \in Entry /\ SameRuntime(svc[s], w)
  <2>1. svc[s] \in Entry
    BY DEF IInv, TypeOK
  <2> QED BY <2>1 DEF Entry, SameRuntime
<1>2. RestartPhases(s) /\ Resume(s, w)
  BY DEF LifecycleResume
<1> HIDE DEF w
<1> QED BY <1>1, <1>2, ResumeStep

LEMMA BackoffRetryStep ==
    ASSUME IInv, NEW s \in Services, BackoffRetry(s)
    PROVE  IInv'
PROOF
<1> DEFINE x == svc[s]
<1>1. /\ RestartPhases(s) /\ cont' = NoService
      /\ UNCHANGED <<barriers, up, exits>>
  BY DEF BackoffRetry
<1>2. TypeOK /\ up /\ ~pkg /\ x \in Entry /\ ~x.owned
  BY <1>1, RestartPhasesFacts
<1>3. PICK r \in StartOutcomes(s, x, pkg) :
        /\ Launched(s, x, r)
        /\ \E y \in CASE r = "ok" -> {Started(s, x, r)}
                      [] r = "stale" -> {[Started(s, x, r) EXCEPT !.state = "stale"]}
                      [] OTHER -> RetryFailed(Started(s, x, r)) :
              /\ svc' = [svc EXCEPT ![s] = y]
              /\ Persist(s, y) \/ UNCHANGED store
  BY DEF BackoffRetry
<1> DEFINE z == Started(s, x, r)
<1>4. r \in Outcomes /\ z \in Entry /\ (stray[s] = "orphan" => r = "stale")
  BY <1>1, RestartPhasesFacts
<1>5. PICK y \in CASE r = "ok" -> {z}
                    [] r = "stale" -> {[z EXCEPT !.state = "stale"]}
                    [] OTHER -> RetryFailed(z) :
              /\ svc' = [svc EXCEPT ![s] = y]
              /\ Persist(s, y) \/ UNCHANGED store
  BY <1>3
<1> HIDE DEF z
<1>6. y \in Entry /\ SameRuntime(z, y) /\ (r = "stale" => y.state = "stale")
  <2>1. CASE r = "ok"
    BY <1>4, <1>5, <2>1 DEF SameRuntime
  <2>2. CASE r = "stale"
    BY <1>4, <1>5, <2>2 DEF Entry, EffectiveStates, SameRuntime
  <2>3. CASE r \notin {"ok", "stale"}
    BY <1>4, <1>5, <2>3, RetryFailedFacts
  <2> QED BY <2>1, <2>2, <2>3
<1>7. store' \in [Services -> Rows]
  BY <1>2, <1>5, <1>6, PersistType
<1>8. SameRuntime(Started(s, x, r), y) /\ SameRuntime(x, x)
  BY <1>6 DEF z, SameRuntime
<1> QED BY <1>1, <1>2, <1>3, <1>4, <1>5, <1>6, <1>7, <1>8, LaunchIdle

LEMMA StaleRetryStep ==
    ASSUME IInv, NEW s \in Services, StaleRetry(s)
    PROVE  IInv'
PROOF
<1> DEFINE x == svc[s]
<1>1. /\ RestartPhases(s) /\ cont' = NoService /\ x.state = "stale"
      /\ UNCHANGED <<barriers, up, exits>>
  BY DEF StaleRetry
<1>2. TypeOK /\ up /\ ~pkg /\ x \in Entry /\ ~x.owned
  BY <1>1, RestartPhasesFacts
<1>3. PICK r \in StartOutcomes(s, x, pkg) :
        LET z == Started(s, x, r)
            y == CASE r = "ok" -> [z EXCEPT !.lifecycle = FALSE]
                   [] r = "stale" -> z
                   [] OTHER ->
                        [z EXCEPT !.session = FALSE, !.autostart = FALSE,
                                  !.state = IF z.owned THEN @ ELSE IdleState(z)]
        IN  /\ svc' = [svc EXCEPT ![s] = y]
            /\ Launched(s, x, r)
            /\ IF r = "stale" THEN UNCHANGED store ELSE Persist(s, y)
  BY DEF StaleRetry
<1> DEFINE z == Started(s, x, r)
           v == IF z.owned THEN z.state ELSE IdleState(z)
           y == CASE r = "ok" -> [z EXCEPT !.lifecycle = FALSE]
                  [] r = "stale" -> z
                  [] OTHER ->
                       [z EXCEPT !.session = FALSE, !.autostart = FALSE, !.state = v]
<1>4. r \in Outcomes /\ z \in Entry /\ (stray[s] = "orphan" => r = "stale")
  BY <1>1, RestartPhasesFacts
<1>5. svc' = [svc EXCEPT ![s] = y] /\ (Persist(s, y) \/ UNCHANGED store)
  <2>1. [z EXCEPT !.session = FALSE, !.autostart = FALSE,
                  !.state = IF z.owned THEN @ ELSE IdleState(z)]
        = [z EXCEPT !.session = FALSE, !.autostart = FALSE, !.state = v]
    BY <1>4 DEF Entry
  <2> QED BY <1>3, <2>1
<1>6. v \in EffectiveStates
  BY <1>4, IdleStateType DEF Entry
<1>7. r = "stale" => z.state = x.state
  BY <1>2, <1>4, StartedFacts DEF Groups, TypeOK
<1> HIDE DEF z, v
<1>8. y \in Entry /\ SameRuntime(z, y) /\ (r = "stale" => y.state = "stale")
  <2>1. CASE r = "ok"
    BY <1>4, <2>1 DEF Entry, SameRuntime
  <2>2. CASE r = "stale"
    BY <1>1, <1>4, <1>7, <2>2 DEF SameRuntime
  <2>3. CASE r \notin {"ok", "stale"}
    <3>1. y = [z EXCEPT !.session = FALSE, !.autostart = FALSE, !.state = v]
      BY <2>3
    <3> HIDE DEF y
    <3> QED BY <1>4, <1>6, <2>3, <3>1 DEF Entry, SameRuntime
  <2> QED BY <2>1, <2>2, <2>3
<1> HIDE DEF y
<1>9. store' \in [Services -> Rows]
  BY <1>2, <1>5, <1>8, PersistType
<1>10. SameRuntime(Started(s, x, r), y) /\ SameRuntime(x, x)
  BY <1>8 DEF z, SameRuntime
<1> QED BY <1>1, <1>2, <1>3, <1>4, <1>5, <1>8, <1>9, <1>10, LaunchIdle

LEMMA AutostartStep ==
    ASSUME IInv, NEW s \in Services, Autostart(s)
    PROVE  IInv'
PROOF
<1> DEFINE x == svc[s]
<1>1. /\ RestartPhases(s) /\ cont' = NoService
      /\ UNCHANGED <<barriers, up, exits>>
  BY DEF Autostart
<1>2. TypeOK /\ up /\ ~pkg /\ x \in Entry /\ ~x.owned
  BY <1>1, RestartPhasesFacts
<1>3. PICK r \in StartOutcomes(s, x, pkg) :
        LET z == Started(s, x, r)
            y == CASE r = "stale" -> [z EXCEPT !.state = "stale"]
                   [] r = "failed" -> [z EXCEPT !.autostart = FALSE,
                                                !.state = IdleState(z)]
                   [] OTHER -> z
        IN  /\ svc' = [svc EXCEPT ![s] = y]
            /\ Launched(s, x, r)
            /\ IF r \in {"ok", "failed"} THEN Persist(s, y) ELSE UNCHANGED store
  BY DEF Autostart
<1> DEFINE z == Started(s, x, r)
           v == IdleState(z)
           y == CASE r = "stale" -> [z EXCEPT !.state = "stale"]
                  [] r = "failed" -> [z EXCEPT !.autostart = FALSE, !.state = v]
                  [] OTHER -> z
<1>4. r \in Outcomes /\ z \in Entry /\ (stray[s] = "orphan" => r = "stale")
  BY <1>1, RestartPhasesFacts
<1>5. svc' = [svc EXCEPT ![s] = y] /\ (Persist(s, y) \/ UNCHANGED store)
  BY <1>3
<1>6. v \in EffectiveStates
  BY IdleStateType
<1> HIDE DEF z, v
<1>7. y \in Entry /\ SameRuntime(z, y) /\ (r = "stale" => y.state = "stale")
  <2>1. CASE r = "stale"
    BY <1>4, <2>1 DEF Entry, EffectiveStates, SameRuntime
  <2>2. CASE r = "failed"
    BY <1>4, <1>6, <2>2 DEF Entry, SameRuntime
  <2>3. CASE r \notin {"stale", "failed"}
    BY <1>4, <2>3 DEF SameRuntime
  <2> QED BY <2>1, <2>2, <2>3
<1> HIDE DEF y
<1>8. store' \in [Services -> Rows]
  BY <1>2, <1>5, <1>7, PersistType
<1>9. SameRuntime(Started(s, x, r), y) /\ SameRuntime(x, x)
  BY <1>7 DEF z, SameRuntime
<1> QED BY <1>1, <1>2, <1>3, <1>4, <1>5, <1>7, <1>8, <1>9, LaunchIdle

-----------------------------------------------------------------------------
(* Steps that release a group *)

\* A verified release is a launch, or none, for the freed entry.
LEMMA ReleasesFacts ==
    ASSUME TypeOK, NEW s \in Services, NEW x \in Entry, NEW o \in ReleaseOutcomes(s, x)
    PROVE  /\ o[1] \in Entry
           /\ o[2] \in Outcomes
           /\ SameRuntime(Started(s, Freed(x), o[2]), o[1])
           /\ o[2] \in Groups => ~pkg /\ stray[s] = "none"
PROOF
<1> DEFINE f == Freed(x)
<1>1. f \in Entry /\ resv[s] \in Policy
  BY FreedFacts DEF TypeOK
<1>2. Started(s, f, "none") = f
  BY DEF Started
<1>3. CASE o = <<f, "none">>
  <2>1. o[1] = f /\ o[2] = "none"
    BY <1>3
  <2> QED BY <1>1, <1>2, <2>1 DEF Outcomes, Groups, SameRuntime
<1>4. CASE o = <<[f EXCEPT !.state = IdleState(x)], "none">>
  <2>1. o[1] = [f EXCEPT !.state = IdleState(x)] /\ o[2] = "none"
    BY <1>4
  <2>2. IdleState(x) \in EffectiveStates
    BY IdleStateType
  <2> HIDE DEF f
  <2>3. o[1] \in Entry /\ SameRuntime(f, o[1])
    BY <1>1, <2>1, <2>2 DEF Entry, SameRuntime
  <2>4. SameRuntime(Started(s, f, o[2]), o[1])
    BY <1>2, <2>1, <2>3
  <2> QED BY <2>1, <2>3, <2>4 DEF Outcomes, Groups, f
<1>5. ASSUME NEW r \in StartOutcomes(s, x, pkg), o = <<Replaced(s, f, r), r>>
      PROVE  /\ o[1] \in Entry
             /\ o[2] \in Outcomes
             /\ SameRuntime(Started(s, f, o[2]), o[1])
             /\ o[2] \in Groups => ~pkg /\ stray[s] = "none"
  <2> DEFINE z == Started(s, f, r)
  <2>1. o[1] = Replaced(s, f, r) /\ o[2] = r
    BY <1>5
  <2>2. r \in Outcomes /\ (r \in Groups => ~pkg /\ stray[s] = "none")
    BY StartOutcomesFacts DEF Gated
  <2>3. z \in Entry
    BY <1>1, StartedType
  <2>4. o[1] = CASE r = "ok" -> z
                 [] r = "stale" -> [z EXCEPT !.state = "stale"]
                 [] OTHER -> [z EXCEPT !.session = FALSE, !.state = IdleState(f)]
    BY <2>1 DEF Replaced
  <2>5. IdleState(f) \in EffectiveStates
    BY IdleStateType
  <2> HIDE DEF z, f
  <2>6. o[1] \in Entry /\ SameRuntime(z, o[1])
    <3>1. CASE r = "ok"
      BY <2>3, <2>4, <3>1 DEF SameRuntime
    <3>2. CASE r = "stale"
      BY <2>3, <2>4, <3>2 DEF Entry, EffectiveStates, SameRuntime
    <3>3. CASE r \notin {"ok", "stale"}
      <4>1. o[1] = [z EXCEPT !.session = FALSE, !.state = IdleState(f)]
        BY <2>4, <3>3
      <4> QED BY <2>3, <2>5, <4>1 DEF Entry, SameRuntime
    <3> QED BY <3>1, <3>2, <3>3
  <2> QED BY <2>1, <2>2, <2>6 DEF z
<1>6. \/ o = <<f, "none">>
      \/ o = <<[f EXCEPT !.state = IdleState(x)], "none">>
      \/ \E r \in StartOutcomes(s, x, pkg) : o = <<Replaced(s, f, r), r>>
  BY DEF ReleaseOutcomes
<1> QED BY <1>3, <1>4, <1>5, <1>6

\* The group of x, the entry of s up to its bookkeeping, is gone.
LEMMA ReleaseEntry ==
    ASSUME IInv, NEW s \in Services, up, svc[s].owned, Gone(s),
           NEW x \in Entry, SameRuntime(svc[s], x),
           NEW o \in ReleaseOutcomes(s, x), Launched(s, x, o[2]),
           svc' = [svc EXCEPT ![s] = o[1]],
           store' \in [Services -> Rows],
           cont' \in Services \cup {NoService},
           noted' \in [Services -> BOOLEAN],
           \A t \in Services \ {s} : noted'[t] = noted[t],
           UNCHANGED <<barriers, up, sigchld>>
    PROVE  IInv'
PROOF
<1> DEFINE w == Freed(x)
<1>1. TypeOK /\ EntryInv(s)
  BY DEF IInv
<1>2. /\ w \in Entry /\ ~w.owned
      /\ ~w.stopRequested /\ ~w.reapPending /\ ~w.restartAfter
      /\ w.blocked = svc[s].blocked
  BY FreedFacts DEF SameRuntime
<1>3. /\ o[1] \in Entry /\ o[2] \in Outcomes
      /\ SameRuntime(Started(s, w, o[2]), o[1])
      /\ o[2] \in Groups => ~pkg /\ stray[s] = "none"
  BY <1>1, ReleasesFacts
<1>4. ~kids[s] /\ stray[s] # "orphan"
  BY <1>1 DEF Gone, EntryInv, Visible
<1> HIDE DEF w
<1> QED BY <1>2, <1>3, <1>4, LaunchEntry

LEMMA ReleaseStep ==
    ASSUME IInv, NEW s \in Services, Release(s)
    PROVE  IInv'
PROOF
<1>1. TypeOK /\ svc[s] \in Entry
  BY DEF IInv, TypeOK
<1>2. PICK o \in ReleaseOutcomes(s, svc[s]) :
        /\ svc' = [svc EXCEPT ![s] = o[1]]
        /\ Launched(s, svc[s], o[2])
        /\ Persist(s, o[1]) \/ UNCHANGED store
        /\ cont' \in {NoService, s}
  BY DEF Release
<1>3. /\ up /\ svc[s].owned /\ Gone(s)
      /\ UNCHANGED <<barriers, up, exits>>
  BY DEF Release, Stopping, Ready
<1>4. SameRuntime(svc[s], svc[s])
  BY DEF SameRuntime
<1>5. store' \in [Services -> Rows]
  BY <1>1, <1>2, ReleasesFacts, PersistType
<1>6. /\ noted' \in [Services -> BOOLEAN]
      /\ \A t \in Services \ {s} : noted'[t] = noted[t]
      /\ UNCHANGED <<barriers, up, sigchld>>
  BY <1>1, <1>3 DEF TypeOK, exits
<1>7. cont' \in Services \cup {NoService}
  BY <1>2
<1> QED BY <1>1, <1>2, <1>3, <1>4, <1>5, <1>6, <1>7, ReleaseEntry

LEMMA LeaderExitObservedStep ==
    ASSUME IInv, NEW s \in Services, LeaderExitObserved(s)
    PROVE  IInv'
PROOF
<1>1. /\ TypeOK /\ EntryInv(s) /\ svc[s] \in Entry
      /\ up /\ svc[s].owned
      /\ noted' = [noted EXCEPT ![s] = FALSE]
      /\ UNCHANGED <<barriers, up, cont, sigchld>>
  BY DEF IInv, TypeOK, LeaderExitObserved, ExitDue, Ready
<1>2. /\ noted' \in [Services -> BOOLEAN]
      /\ \A t \in Services \ {s} : noted'[t] = noted[t]
      /\ cont' \in Services \cup {NoService}
  BY <1>1 DEF TypeOK
<1>3. PICK failed \in BOOLEAN : \E x \in ExitRecorded(svc[s], failed) :
          \/ /\ svc' = [svc EXCEPT ![s] = LeftBehind(x)]
             /\ Persist(s, x)
             /\ UNCHANGED <<group, stopped>>
          \/ /\ Gone(s) /\ "reap" \in Faults
             /\ svc' = [svc EXCEPT ![s] =
                          [x EXCEPT !.state = "stopping", !.reapPending = TRUE]]
             /\ Persist(s, x)
             /\ UNCHANGED <<group, stopped>>
          \/ /\ Gone(s)
             /\ \E o \in ReleaseOutcomes(s, x) :
                   /\ svc' = [svc EXCEPT ![s] = o[1]]
                   /\ Launched(s, x, o[2])
             /\ Persist(s, x)
  BY DEF LeaderExitObserved
<1>4. PICK x \in ExitRecorded(svc[s], failed) :
          \/ /\ svc' = [svc EXCEPT ![s] = LeftBehind(x)]
             /\ Persist(s, x)
             /\ UNCHANGED <<group, stopped>>
          \/ /\ Gone(s) /\ "reap" \in Faults
             /\ svc' = [svc EXCEPT ![s] =
                          [x EXCEPT !.state = "stopping", !.reapPending = TRUE]]
             /\ Persist(s, x)
             /\ UNCHANGED <<group, stopped>>
          \/ /\ Gone(s)
             /\ \E o \in ReleaseOutcomes(s, x) :
                   /\ svc' = [svc EXCEPT ![s] = o[1]]
                   /\ Launched(s, x, o[2])
             /\ Persist(s, x)
  BY <1>3
<1>5. x \in Entry /\ SameRuntime(svc[s], x)
  BY <1>1, ExitRecordedFacts
<1>6. store' \in [Services -> Rows]
  BY <1>1, <1>4, <1>5, PersistType
<1>7. x.owned /\ stray[s] # "orphan" /\ leader[s] # "none"
  BY <1>1, <1>5 DEF SameRuntime, EntryInv, Visible, Linked
<1>8. ASSUME NEW y \in Entry, svc' = [svc EXCEPT ![s] = y], UNCHANGED <<group, stopped>>,
             y.owned = x.owned, y.reapPending, y.blocked = x.blocked
      PROVE  IInv'
  <2>1. Typed' /\ (\A t \in Services \ {s} : leader'[t] = leader[t] /\ kids'[t] = kids[t])
        /\ leader'[s] = leader[s] /\ kids'[s] = kids[s] /\ stray' = stray
    BY <1>1, <1>2, <1>6, <1>8 DEF Typed, TypeOK, group
  <2>2. Linked(y, leader'[s], kids'[s]) /\ ExitKnown(y, leader'[s], sigchld \/ noted'[s])
    BY <1>7, <1>8, <2>1 DEF Linked, ExitKnown
  <2>3. Visible(y, stray[s]) /\ Behind(y, pkg) /\ (permit => ~y.owned)
    BY <1>1, <1>5, <1>7, <1>8 DEF Visible, Behind, EntryInv, SameRuntime
  <2> QED BY <1>1, <1>2, <1>8, <2>1, <2>2, <2>3, OneEntry
<1>9. CASE svc' = [svc EXCEPT ![s] = LeftBehind(x)] /\ UNCHANGED <<group, stopped>>
  <2> DEFINE y == LeftBehind(x)
             k == x.killSent /\ x.stopRequested
             u == x.unverified /\ x.stopRequested
             r == IF Deliberate(x.reason) THEN x.reason ELSE "leader-exited"
  <2>1. k \in BOOLEAN /\ u \in BOOLEAN /\ r \in Reasons
    BY <1>5 DEF Entry, Reasons
  <2>2. y = [x EXCEPT !.reapPending = TRUE, !.killSent = k, !.unverified = u, !.reason = r]
    BY <1>5 DEF LeftBehind, Entry
  <2>3. svc' = [svc EXCEPT ![s] = y]
    BY <1>9
  <2> HIDE DEF y, k, u, r
  <2>4. y \in Entry /\ y.owned = x.owned /\ y.reapPending /\ y.blocked = x.blocked
    BY <1>5, <2>1, <2>2, ZenonT(60) DEF Entry
  <2> QED BY <1>8, <1>9, <2>3, <2>4
<1>10. CASE /\ svc' = [svc EXCEPT ![s] =
                          [x EXCEPT !.state = "stopping", !.reapPending = TRUE]]
            /\ UNCHANGED <<group, stopped>>
  <2> DEFINE y == [x EXCEPT !.state = "stopping", !.reapPending = TRUE]
  <2>1. y \in Entry /\ y.owned = x.owned /\ y.reapPending /\ y.blocked = x.blocked
    BY <1>5 DEF Entry, EffectiveStates
  <2> HIDE DEF y
  <2>2. svc' = [svc EXCEPT ![s] = y]
    BY <1>10 DEF y
  <2> QED BY <1>8, <1>10, <2>1, <2>2
<1>11. ASSUME Gone(s), NEW o \in ReleaseOutcomes(s, x),
              svc' = [svc EXCEPT ![s] = o[1]], Launched(s, x, o[2])
       PROVE  IInv'
  BY <1>1, <1>2, <1>5, <1>6, <1>11, ReleaseEntry
<1> QED BY <1>4, <1>9, <1>10, <1>11

-----------------------------------------------------------------------------
(* Steps over all the entries *)

LEMMA StoreAfterType ==
    ASSUME TypeOK, NEW T, NEW lost, NEW entries \in [Services -> Entry],
           StoreAfter(T, entries, lost)
    PROVE  store' \in [Services -> Rows]
PROOF
<1>1. NoRow \in Rows
  BY NoFailures DEF NoRow, Rows
<1>2. \A s \in Services : Row(entries[s]) \in Rows /\ store[s] \in Rows
  BY RowType DEF TypeOK
<1> QED BY <1>1, <1>2 DEF StoreAfter

LEMMA ReconciledRuntime ==
    ASSUME NEW x \in Entry, NEW f \in Findings
    PROVE  SameRuntime(x, Reconciled(x, f))
PROOF
<1> DEFINE pak == FoundPak(x, f.found)
           pol == CASE pak \in {"ok", "secondary"} -> f.policy
                    [] pak = "invalid" -> ZeroPolicy
                    [] OTHER -> x.policy
           y == [x EXCEPT !.pak = pak, !.policy = pol]
           v == IF x.reapPending \/ x.killSent THEN "stopping" ELSE "running"
<1>1. \/ Reconciled(x, f) = [y EXCEPT !.state = "unavailable"]
      \/ Reconciled(x, f) = y
      \/ Reconciled(x, f) = [y EXCEPT !.state = IdleState(y)]
      \/ Reconciled(x, f) = [y EXCEPT !.state = v]
  BY DEF Reconciled, Entry
<1>2. SameRuntime(x, y)
  BY DEF SameRuntime, Entry
<1>3. \A u : SameRuntime(x, [y EXCEPT !.state = u])
  BY DEF SameRuntime, Entry
<1> HIDE DEF y, v
<1> QED BY <1>1, <1>2, <1>3

\* A scan moves no group and drops no entry that has one; an entry without a
\* group whose lease is held shows the survivor.
LEMMA ScannedFacts ==
    ASSUME TypeOK, NEW entries \in [Services -> Entry], NEW disk \in Disks,
           NEW lost, NEW s \in Services,
           entries[s].restartAfter => entries[s].owned
    PROVE  LET y == Scanned(entries, disk, lost)[s]
           IN  /\ y \in Entry
               /\ SameRuntime(entries[s], y)
               /\ ~y.owned /\ stray[s] # "none" => y.state = "stale"
PROOF
<1> DEFINE e == entries[s]
           x == Reconciled(e, disk[s])
           p == Probed(s, x)
           y == Scanned(entries, disk, lost)[s]
<1>1. e \in Entry /\ disk[s] \in Findings
  BY DEF Disks
<1>2. x \in Entry /\ SameRuntime(e, x)
  BY <1>1, ReconciledType, ReconciledRuntime
<1>3. y = IF Exhausted(p) /\ s \notin lost THEN Unlisted ELSE p
  BY DEF Scanned
<1> HIDE DEF x
<1>4. p \in Entry /\ SameRuntime(e, p) /\ (~p.owned /\ stray[s] # "none" => p.state = "stale")
  <2>1. CASE ~x.owned /\ stray[s] # "none"
    <3>1. p = [x EXCEPT !.active = StalePolicy(s, x), !.state = "stale"]
      BY <2>1 DEF Probed
    <3>2. StalePolicy(s, x) \in Policy /\ "stale" \in EffectiveStates
      <4>1. resv[s] \in Policy /\ x.active.onFailure \in BOOLEAN
        BY <1>2 DEF TypeOK, Entry, Policy
      <4> QED BY <4>1 DEF StalePolicy, Policy, EffectiveStates
    <3> HIDE DEF p
    <3>3. p \in Entry /\ SameRuntime(x, p) /\ p.state = "stale"
      BY <1>2, <3>1, <3>2 DEF Entry, SameRuntime
    <3> QED BY <1>2, <3>3 DEF SameRuntime
  <2>2. CASE ~(~x.owned /\ stray[s] # "none")
    <3>1. p = x
      BY <2>2 DEF Probed
    <3> HIDE DEF p
    <3> QED BY <1>2, <2>2, <3>1
  <2> QED BY <2>1, <2>2
<1> HIDE DEF p, e
<1>5. CASE Exhausted(p) /\ s \notin lost
  <2>1. /\ ~p.owned /\ ~p.reapPending /\ ~p.stopRequested /\ ~p.blocked
        /\ p.state # "stale" /\ ~p.restartAfter
    BY <1>4, <1>5 DEF Exhausted, SameRuntime, e
  <2>2. /\ y = Unlisted /\ Unlisted \in Entry
        /\ ~Unlisted.owned /\ ~Unlisted.reapPending /\ ~Unlisted.stopRequested
        /\ ~Unlisted.blocked /\ ~Unlisted.restartAfter
    BY <1>3, <1>5, UnlistedType DEF Unlisted, LoadControl
  <2>3. e \in Entry /\ p \in Entry
    BY <1>1, <1>4 DEF e
  <2>4. SameRuntime(p, Unlisted)
    BY <2>1, <2>2, <2>3 DEF SameRuntime, Entry
  <2>5. stray[s] = "none"
    BY <1>4, <2>1
  <2> QED BY <1>4, <2>2, <2>4, <2>5 DEF SameRuntime, e
<1>6. CASE ~(Exhausted(p) /\ s \notin lost)
  <2>1. y = p
    BY <1>3, <1>6
  <2> QED BY <1>4, <2>1 DEF e
<1> QED BY <1>5, <1>6

\* A step of the running daemon that keeps the package barrier.
LEMMA AllEntries ==
    ASSUME IInv, TypeOK', up, UNCHANGED <<stray, pkg, permit, up, exits>>,
           \A s \in Services :
              /\ Linked(svc'[s], leader'[s], kids'[s])
              /\ ExitKnown(svc'[s], leader'[s], sigchld \/ noted[s])
              /\ svc'[s].owned => svc[s].owned
              /\ svc'[s].blocked = svc[s].blocked
              /\ stray[s] = "orphan" => svc'[s].state = "stale"
    PROVE  IInv'
PROOF
<1>1. (pkg => up)' /\ (permit => pkg)'
  BY DEF IInv
<1>2. ASSUME NEW s \in Services
      PROVE  EntryInv(s)'
  <2>1. EntryInv(s)
    BY DEF IInv
  <2> QED BY <2>1 DEF EntryInv, Visible, Behind, exits
<1> QED BY <1>1, <1>2 DEF IInv

\* And when neither the entries nor the group leaders changed.
LEMMA SameEntries ==
    ASSUME IInv, TypeOK',
           UNCHANGED <<svc, leader, kids, stray, pkg, permit, up, sigchld, noted>>
    PROVE  IInv'
PROOF BY DEF IInv, EntryInv

LEMMA RescanStep ==
    ASSUME IInv, Rescan
    PROVE  IInv'
PROOF
<1>1. TypeOK /\ svc \in [Services -> Entry] /\ up
  BY DEF IInv, TypeOK, Rescan, Ready
<1>2. PICK disk \in Disks, lost \in Losses :
        svc' = Scanned(svc, disk, lost) /\ StoreAfter({}, svc', lost)
  BY DEF Rescan
<1>3. UNCHANGED <<group, barriers, loop, stopped>>
  BY DEF Rescan
<1>4. ASSUME NEW s \in Services
      PROVE  /\ svc'[s] \in Entry /\ SameRuntime(svc[s], svc'[s])
             /\ ~svc'[s].owned /\ stray[s] # "none" => svc'[s].state = "stale"
  <2>1. svc[s].restartAfter => svc[s].owned
    BY DEF IInv, EntryInv, Linked
  <2> QED BY <1>1, <1>2, <2>1, ScannedFacts
<1>5. svc' \in [Services -> Entry]
  BY <1>2, <1>4 DEF Scanned
<1>6. TypeOK'
  <2>1. store' \in [Services -> Rows]
    BY <1>1, <1>2, <1>5, StoreAfterType
  <2> QED BY <1>1, <1>3, <1>5, <2>1 DEF TypeOK, group, barriers, loop, exits
<1>7. ASSUME NEW s \in Services
      PROVE  /\ Linked(svc'[s], leader'[s], kids'[s])
             /\ ExitKnown(svc'[s], leader'[s], sigchld \/ noted[s])
             /\ svc'[s].owned => svc[s].owned
             /\ svc'[s].blocked = svc[s].blocked
             /\ stray[s] = "orphan" => svc'[s].state = "stale"
  <2>1. EntryInv(s) /\ leader' = leader /\ kids' = kids
    BY <1>3 DEF IInv, group
  <2> QED BY <1>1, <1>4, <2>1 DEF EntryInv, Linked, ExitKnown, Visible, SameRuntime
<1>8. UNCHANGED <<stray, pkg, permit, up, exits>>
  BY <1>3 DEF group, barriers, loop
<1> QED BY <1>1, <1>6, <1>7, <1>8, AllEntries

\* The blocking stop of an owned group, for an entry that asks for no
\* replacement, leaves entry and processes linked whatever came of it.
LEMMA StoppedFacts ==
    ASSUME TypeOK, NEW T, NEW out, GroupsStopped(T, out),
           NEW s \in T, s \in Services, out[s] \in StopOutcomes,
           NEW x \in Entry, x.owned, ~x.restartAfter, leader[s] # "none"
    PROVE  LET y == SyncStopped(x, out[s])
           IN  /\ y \in Entry
               /\ y.blocked = x.blocked
               /\ y.owned = (out[s] # "stopped")
               /\ Linked(y, leader'[s], kids'[s])
               /\ y.owned /\ leader'[s] = "zombie" => y.reapPending \/ y.stopRequested
PROOF
<1>1. out[s] \in {"stopped", "unverified", "unreaped"}
  BY DEF StopOutcomes
<1>2. /\ leader'[s] = IF out[s] = "unverified" THEN leader[s]
                      ELSE IF out[s] = "unreaped" THEN "zombie" ELSE "none"
      /\ out[s] # "unverified" => ~kids'[s]
  BY DEF GroupsStopped
<1> DEFINE y == SyncStopped(x, out[s])
<1>3. /\ y \in Entry
      /\ y.blocked = x.blocked
      /\ y.owned = (out[s] # "stopped")
      /\ out[s] = "stopped" => ~y.stopRequested /\ ~y.reapPending /\ ~y.restartAfter
      /\ out[s] = "unverified" => y.stopRequested
      /\ out[s] = "unreaped" => y.reapPending
  BY <1>1, SyncStoppedFacts
<1> HIDE DEF y
<1>4. Linked(y, leader'[s], kids'[s])
  BY <1>1, <1>2, <1>3 DEF Linked
<1>5. y.owned /\ leader'[s] = "zombie" => y.reapPending \/ y.stopRequested
  BY <1>1, <1>2, <1>3
<1> QED BY <1>3, <1>4, <1>5 DEF y

LEMMA GroupsStoppedType ==
    ASSUME TypeOK, NEW T, NEW out, GroupsStopped(T, out)
    PROVE  /\ leader' \in [Services -> {"none", "live", "zombie"}]
           /\ kids' \in [Services -> BOOLEAN]
           /\ \A s \in Services \ T : leader'[s] = leader[s] /\ kids'[s] = kids[s]
PROOF
<1>1. \A s \in Services : leader[s] \in {"none", "live", "zombie"} /\ kids[s] \in BOOLEAN
  BY DEF TypeOK
<1>2. leader' \in [Services -> {"none", "live", "zombie"}]
  BY <1>1 DEF GroupsStopped
<1>3. kids' \in [Services -> BOOLEAN]
  BY <1>1 DEF GroupsStopped
<1>4. ASSUME NEW s \in Services \ T
      PROVE  leader'[s] = leader[s]
  BY DEF GroupsStopped
<1>5. ASSUME NEW s \in Services \ T
      PROVE  kids'[s] = kids[s]
  <2>1. kids'[s] = (kids[s] /\ (s \notin T \/ out[s] = "unverified"))
    BY DEF GroupsStopped
  <2> QED BY <1>1, <2>1
<1> QED BY <1>2, <1>3, <1>4, <1>5

LEMMA GameStopServiceStep ==
    ASSUME IInv, NEW s \in Services, GameStopService(s)
    PROVE  IInv'
PROOF
<1> DEFINE x == svc[s]
           z == [x EXCEPT !.lifecycle = FALSE, !.gameLatch = TRUE,
                          !.restartAfter = FALSE, !.reason = "game",
                          !.autostart = FALSE]
<1>1. TypeOK /\ EntryInv(s) /\ x \in Entry /\ (permit => pkg)
  BY DEF IInv, TypeOK
<1>2. /\ up /\ x.owned
      /\ UNCHANGED <<stray, resv, barriers, loop, stopped>>
  BY DEF GameStopService, Ready
<1>3. PICK o \in StopOutcomes :
        /\ svc' = [svc EXCEPT ![s] = SyncStopped(z, o)]
        /\ GroupsStopped({s}, [t \in {s} |-> o])
        /\ Persist(s, z)
  BY DEF GameStopService
<1>4. z \in Entry /\ z.owned /\ ~z.restartAfter /\ z.blocked = x.blocked
  BY <1>1, <1>2 DEF Entry, Reasons
<1> DEFINE out == [t \in {s} |-> o]
           y == SyncStopped(z, o)
<1> HIDE DEF z
<1>5. /\ y \in Entry /\ y.blocked = x.blocked
      /\ Linked(y, leader'[s], kids'[s])
      /\ y.owned /\ leader'[s] = "zombie" => y.reapPending \/ y.stopRequested
  <2>1. out[s] = o /\ GroupsStopped({s}, out)
    BY <1>3
  <2>2. leader[s] # "none"
    BY <1>1, <1>2 DEF EntryInv, Linked
  <2> HIDE DEF out
  <2> QED BY <1>1, <1>3, <1>4, <2>1, <2>2, StoppedFacts
<1> HIDE DEF y
<1>6. Typed' /\ (\A t \in Services \ {s} :
                    leader'[t] = leader[t] /\ kids'[t] = kids[t] /\ noted'[t] = noted[t])
  <2>1. store' \in [Services -> Rows]
    BY <1>1, <1>3, <1>4, PersistType
  <2>2. /\ leader' \in [Services -> {"none", "live", "zombie"}]
        /\ kids' \in [Services -> BOOLEAN]
        /\ \A t \in Services \ {s} : leader'[t] = leader[t] /\ kids'[t] = kids[t]
    BY <1>1, <1>3, GroupsStoppedType
  <2> QED BY <1>1, <1>2, <2>1, <2>2 DEF Typed, TypeOK, loop, exits
<1>7. ExitKnown(y, leader'[s], sigchld \/ noted'[s])
  BY <1>5 DEF ExitKnown
<1>8. Visible(y, stray[s]) /\ Behind(y, pkg) /\ (permit => ~y.owned)
  BY <1>1, <1>2, <1>5 DEF EntryInv, Visible, Behind
<1>9. svc' = [svc EXCEPT ![s] = y]
  BY <1>3 DEF y
<1> QED BY <1>2, <1>5, <1>6, <1>7, <1>8, <1>9, OneEntry DEF loop, exits

\* A suspend or storage stop, with or without the scan that follows.
LEMMA LifecycleStopFacts ==
    ASSUME IInv, up, NEW t \in Triggers, NEW fires \in BOOLEAN, NEW scans \in BOOLEAN,
           NEW out \in [Services -> StopOutcomes], LifecycleStop(t, fires, out, scans),
           UNCHANGED <<exits, stopped, pkg, permit, up, cont>>,
           game' \in BOOLEAN, hold' \in BOOLEAN, stopDone' \in BOOLEAN, broken' \in BOOLEAN,
           card' \in {"mounted", "gone"}, seen' \in {"mounted", "gone"}
    PROVE  IInv'
PROOF
<1> DEFINE T == IF fires THEN StoppedFor(t) ELSE {}
           entries == IF fires THEN AfterStops(t, out) ELSE svc
<1>1. TypeOK /\ svc \in [Services -> Entry] /\ (permit => pkg)
  BY DEF IInv, TypeOK
<1>2. GroupsStopped(T, out) /\ UNCHANGED <<stray, resv>>
  BY DEF LifecycleStop
<1>3. PICK disk \in Disks, lost \in Losses :
        /\ svc' = IF scans THEN Scanned(entries, disk, lost) ELSE entries
        /\ \E P : StoreAfter(P, svc', lost)
  BY DEF LifecycleStop
<1>4. /\ leader' \in [Services -> {"none", "live", "zombie"}]
      /\ kids' \in [Services -> BOOLEAN]
      /\ \A s \in Services \ T : leader'[s] = leader[s] /\ kids'[s] = kids[s]
  BY <1>1, <1>2, GroupsStoppedType
<1>5. entries \in [Services -> Entry] /\
      \A s \in Services :
        /\ Linked(entries[s], leader'[s], kids'[s])
        /\ ExitKnown(entries[s], leader'[s], sigchld \/ noted[s])
        /\ entries[s].owned => svc[s].owned
        /\ entries[s].blocked = svc[s].blocked
        /\ stray[s] = "orphan" => entries[s].state = "stale"
  <2>1. ASSUME NEW s \in Services, s \notin T
        PROVE  /\ entries[s] = svc[s]
               /\ Linked(entries[s], leader'[s], kids'[s])
               /\ ExitKnown(entries[s], leader'[s], sigchld \/ noted[s])
               /\ stray[s] = "orphan" => entries[s].state = "stale"
    <3>1. entries[s] = svc[s]
      BY <2>1 DEF AfterStops
    <3>2. EntryInv(s)
      BY DEF IInv
    <3> HIDE DEF entries, T
    <3> QED BY <1>4, <2>1, <3>1, <3>2 DEF EntryInv, Visible
  <2>2. ASSUME NEW s \in Services, s \in T
        PROVE  /\ entries[s] \in Entry
               /\ Linked(entries[s], leader'[s], kids'[s])
               /\ ExitKnown(entries[s], leader'[s], sigchld \/ noted[s])
               /\ svc[s].owned
               /\ entries[s].blocked = svc[s].blocked
               /\ stray[s] # "orphan"
    <3> DEFINE x == [svc[s] EXCEPT !.reason = t, !.autostart = FALSE,
                                   !.restartAfter = FALSE, !.lifecycle = TRUE]
    <3>1. svc[s] \in Entry /\ svc[s].owned /\ EntryInv(s) /\ fires
      BY <1>1, <2>2 DEF StoppedFor, Owned, IInv
    <3>2. x \in Entry /\ x.owned /\ ~x.restartAfter /\ x.blocked = svc[s].blocked
      BY <3>1, ZenonT(60) DEF Entry, Reasons, Triggers
    <3>3. entries[s] = SyncStopped(x, out[s])
      BY <2>2, <3>1 DEF AfterStops
    <3>4. leader[s] # "none" /\ stray[s] # "orphan"
      BY <3>1 DEF EntryInv, Linked, Visible
    <3>5. out[s] \in StopOutcomes
      OBVIOUS
    <3> HIDE DEF x, entries, T
    <3>6. /\ entries[s] \in Entry /\ entries[s].blocked = svc[s].blocked
          /\ Linked(entries[s], leader'[s], kids'[s])
          /\ entries[s].owned /\ leader'[s] = "zombie"
                => entries[s].reapPending \/ entries[s].stopRequested
      BY <1>1, <1>2, <2>2, <3>2, <3>3, <3>4, <3>5, StoppedFacts
    <3>7. ExitKnown(entries[s], leader'[s], sigchld \/ noted[s])
      BY <3>6 DEF ExitKnown
    <3> QED BY <3>1, <3>4, <3>6, <3>7
  <2>3. entries \in [Services -> Entry]
    <3>1. entries = [s \in Services |-> entries[s]]
      BY <1>1 DEF AfterStops
    <3>2. \A s \in Services : entries[s] \in Entry
      <4> HIDE DEF entries, T
      <4> QED BY <1>1, <2>1, <2>2
    <3> HIDE DEF entries
    <3> QED BY <3>1, <3>2
  <2> HIDE DEF entries, T
  <2> QED BY <2>1, <2>2, <2>3
<1> HIDE DEF entries, T
<1>6. ASSUME NEW s \in Services
      PROVE  /\ svc'[s] \in Entry
             /\ SameRuntime(entries[s], svc'[s])
             /\ stray[s] = "orphan" => svc'[s].state = "stale"
  <2>1. CASE scans
    <3>1. svc' = Scanned(entries, disk, lost)
      BY <1>3, <2>1
    <3>2. entries[s].restartAfter => entries[s].owned
      BY <1>5 DEF Linked
    <3>3. /\ svc'[s] \in Entry /\ SameRuntime(entries[s], svc'[s])
          /\ ~svc'[s].owned /\ stray[s] # "none" => svc'[s].state = "stale"
      BY <1>1, <1>5, <3>1, <3>2, ScannedFacts
    <3>4. stray[s] = "orphan" => ~svc'[s].owned
      BY <1>5, <3>3 DEF SameRuntime, IInv, EntryInv, Visible
    <3> QED BY <3>3, <3>4
  <2>2. CASE ~scans
    <3>1. svc' = entries
      BY <1>3, <2>2
    <3> QED BY <1>5, <3>1 DEF SameRuntime
  <2> QED BY <2>1, <2>2
<1>7. svc' \in [Services -> Entry]
  <2>1. svc' = [s \in Services |-> svc'[s]]
    BY <1>3, <1>5 DEF Scanned
  <2> QED BY <1>6, <2>1
<1>8. TypeOK'
  <2>1. store' \in [Services -> Rows]
    BY <1>1, <1>3, <1>7, StoreAfterType
  <2> QED BY <1>1, <1>2, <1>4, <1>7, <2>1 DEF TypeOK, exits
<1>9. ASSUME NEW s \in Services
      PROVE  /\ Linked(svc'[s], leader'[s], kids'[s])
             /\ ExitKnown(svc'[s], leader'[s], sigchld \/ noted[s])
             /\ svc'[s].owned => svc[s].owned
             /\ svc'[s].blocked = svc[s].blocked
             /\ stray[s] = "orphan" => svc'[s].state = "stale"
  BY <1>5, <1>6 DEF Linked, ExitKnown, SameRuntime
<1>10. UNCHANGED <<stray, pkg, permit, up, exits>>
  BY <1>2
<1> QED BY <1>8, <1>9, <1>10, AllEntries

LEMMA SuspendStep ==
    ASSUME IInv, Suspend
    PROVE  IInv'
PROOF
<1>1. PICK out \in [Services -> StopOutcomes], whole \in BOOLEAN :
          LifecycleStop("suspend", TRUE, out, whole) /\ broken' = ~whole
  BY DEF Suspend
<1>2. /\ up /\ UNCHANGED <<game, hold, pkg, permit, card, seen, stopDone, loop, stopped>>
      /\ TypeOK
  BY DEF Suspend, Ready, IInv
<1>3. /\ UNCHANGED <<exits, stopped, pkg, permit, up, cont>>
      /\ game' \in BOOLEAN /\ hold' \in BOOLEAN /\ stopDone' \in BOOLEAN
      /\ broken' \in BOOLEAN
      /\ card' \in {"mounted", "gone"} /\ seen' \in {"mounted", "gone"}
  BY <1>1, <1>2 DEF loop, TypeOK
<1> QED BY <1>1, <1>2, <1>3, LifecycleStopFacts DEF Triggers

LEMMA SafeUnmountStep ==
    ASSUME IInv, SafeUnmount
    PROVE  IInv'
PROOF
<1>1. /\ up /\ UNCHANGED <<game, pkg, permit, broken, loop, stopped>>
      /\ TypeOK
  BY DEF SafeUnmount, Ready, IInv
<1>2. CASE stopDone' = FALSE /\ UNCHANGED <<svc, group, store, hold, card, seen>>
  <2>1. TypeOK'
    BY <1>1, <1>2 DEF TypeOK, group, loop, exits
  <2>2. UNCHANGED <<svc, leader, kids, stray, pkg, permit, up, sigchld, noted>>
    BY <1>1, <1>2 DEF group, loop, exits
  <2> QED BY <2>1, <2>2, SameEntries
<1>3. CASE \E out \in [Services -> StopOutcomes], unmounted \in BOOLEAN :
              /\ LifecycleStop("storage", TRUE, out, unmounted)
              /\ hold' = (unmounted \/ StuckFor("storage", out) # {})
              /\ stopDone' = (unmounted /\ StoppedFor("storage") # {})
              /\ card' = IF unmounted THEN "gone" ELSE card
              /\ seen' = IF unmounted THEN "gone" ELSE seen
  <2>1. PICK out \in [Services -> StopOutcomes], unmounted \in BOOLEAN :
              /\ LifecycleStop("storage", TRUE, out, unmounted)
              /\ hold' = (unmounted \/ StuckFor("storage", out) # {})
              /\ stopDone' = (unmounted /\ StoppedFor("storage") # {})
              /\ card' = IF unmounted THEN "gone" ELSE card
              /\ seen' = IF unmounted THEN "gone" ELSE seen
    BY <1>3
  <2>2. /\ game' \in BOOLEAN /\ hold' \in BOOLEAN /\ stopDone' \in BOOLEAN
        /\ broken' \in BOOLEAN
        /\ card' \in {"mounted", "gone"} /\ seen' \in {"mounted", "gone"}
    BY <1>1, <2>1 DEF TypeOK
  <2>3. UNCHANGED <<exits, stopped, pkg, permit, up, cont>> /\ "storage" \in Triggers
    BY <1>1 DEF loop, Triggers
  <2> QED BY <1>1, <2>1, <2>2, <2>3, LifecycleStopFacts
<1> QED BY <1>2, <1>3 DEF SafeUnmount

LEMMA StorageTickStep ==
    ASSUME IInv, StorageTick
    PROVE  IInv'
PROOF
<1>1. /\ up /\ UNCHANGED <<game, pkg, permit, card, broken, loop, stopped>> /\ TypeOK
      /\ seen' = card /\ stopDone' = FALSE
      /\ hold' = (card = "gone" /\ (hold \/ ~stopDone))
  BY DEF StorageTick, Ready, IInv
<1>2. PICK out \in [Services -> StopOutcomes] :
          LifecycleStop("storage", card = "gone" /\ ~stopDone, out, TRUE)
  BY DEF StorageTick
<1>3. /\ game' \in BOOLEAN /\ hold' \in BOOLEAN /\ stopDone' \in BOOLEAN
      /\ broken' \in BOOLEAN
      /\ card' \in {"mounted", "gone"} /\ seen' \in {"mounted", "gone"}
  BY <1>1 DEF TypeOK
<1>4. UNCHANGED <<exits, stopped, pkg, permit, up, cont>> /\ "storage" \in Triggers
  BY <1>1 DEF loop, Triggers
<1> DEFINE fires == card = "gone" /\ ~stopDone
<1>5. fires \in BOOLEAN /\ LifecycleStop("storage", fires, out, TRUE)
  BY <1>2
<1> HIDE DEF fires
<1> QED BY <1>1, <1>3, <1>4, <1>5, LifecycleStopFacts

LEMMA QuiescedFacts ==
    ASSUME NEW x \in Entry
    PROVE  /\ Quiesced(x) \in Entry
           /\ Quiesced(x).owned = x.owned
           /\ Quiesced(x).stopRequested = x.stopRequested
           /\ Quiesced(x).reapPending = x.reapPending
           /\ Quiesced(x).blocked \/ ~Quiesced(x).owned
           /\ x.owned \/ ~x.restartAfter => ~Quiesced(x).restartAfter
PROOF
<1>1. CASE x = Unlisted
  <2>1. ~Unlisted.owned /\ ~Unlisted.restartAfter
    BY DEF Unlisted, LoadControl
  <2> QED BY <1>1, <2>1 DEF Quiesced
<1>2. CASE x # Unlisted
  <2>1. Quiesced(x) = [x EXCEPT !.blocked = TRUE, !.restore = x.desired,
                   !.autostart = FALSE, !.lifecycle = FALSE, !.gameLatch = FALSE,
                   !.restartAfter = FALSE, !.session = FALSE, !.reason = "package"]
    BY <1>2 DEF Quiesced
  <2> QED BY <2>1, ZenonT(60) DEF Entry, Reasons
<1> QED BY <1>1, <1>2

\* The preflight leaves no survivor, and the permission needs every group gone.
LEMMA PackageBeginStep ==
    ASSUME IInv, PackageBegin
    PROVE  IInv'
PROOF
<1>1. /\ up /\ ~pkg /\ pkg' = TRUE
      /\ \A s \in Services : ~PackageBusy(svc[s])
      /\ UNCHANGED <<stray, resv, game, hold, card, seen, stopDone, broken, loop, stopped>>
  BY DEF PackageBegin, Ready
<1>2. PICK out \in [Services -> StopOutcomes], lost \in Losses :
        /\ svc' = [s \in Services |->
                     IF s \in Owned THEN SyncStopped(Quiesced(svc[s]), out[s])
                     ELSE Quiesced(svc[s])]
        /\ GroupsStopped(Owned, out)
        /\ StoreAfter(Services, svc', lost)
        /\ permit' = (\A s \in Owned : out[s] = "stopped")
  BY DEF PackageBegin
<1>3. TypeOK /\ up' = up
  BY <1>1 DEF IInv, loop
<1>4. /\ leader' \in [Services -> {"none", "live", "zombie"}]
      /\ kids' \in [Services -> BOOLEAN]
      /\ \A s \in Services \ Owned : leader'[s] = leader[s] /\ kids'[s] = kids[s]
  BY <1>2, <1>3, GroupsStoppedType
<1>5. ASSUME NEW s \in Services
      PROVE  svc'[s] \in Entry /\ EntryInv(s)'
  <2> DEFINE q == Quiesced(svc[s])
             y == svc'[s]
  <2>1. /\ svc[s] \in Entry /\ EntryInv(s) /\ svc[s].state # "stale"
        /\ out[s] \in StopOutcomes
    BY <1>1, <1>3 DEF IInv, TypeOK, PackageBusy
  <2>2. stray[s] # "orphan" /\ stray'[s] # "orphan"
    BY <1>1, <2>1 DEF EntryInv, Visible
  <2>3. /\ q \in Entry /\ q.owned = svc[s].owned
        /\ q.stopRequested = svc[s].stopRequested /\ q.reapPending = svc[s].reapPending
        /\ q.blocked \/ ~q.owned
        /\ ~q.restartAfter
    BY <2>1, QuiescedFacts DEF EntryInv, Linked
  <2> HIDE DEF q, y
  <2>4. CASE s \in Owned
    <3>1. y = SyncStopped(q, out[s]) /\ svc[s].owned
      BY <1>2, <2>4 DEF q, y, Owned
    <3>2. /\ leader[s] # "none" /\ q.owned /\ GroupsStopped(Owned, out)
      BY <1>2, <2>1, <2>3, <3>1 DEF EntryInv, Linked
    <3> DEFINE v == SyncStopped(q, out[s])
    <3>3. /\ v \in Entry
          /\ v.blocked = q.blocked
          /\ v.owned = (out[s] # "stopped")
          /\ Linked(v, leader'[s], kids'[s])
          /\ v.owned /\ leader'[s] = "zombie" => v.reapPending \/ v.stopRequested
      <4> HIDE DEF v
      <4> QED BY <1>3, <2>1, <2>3, <2>4, <3>2, StoppedFacts DEF v
    <3> HIDE DEF v
    <3>4. /\ y \in Entry /\ y.blocked = q.blocked
          /\ y.owned = (out[s] # "stopped")
          /\ Linked(y, leader'[s], kids'[s])
          /\ y.owned /\ leader'[s] = "zombie" => y.reapPending \/ y.stopRequested
      BY <3>1, <3>3 DEF v
    <3>5. permit' => ~y.owned
      BY <1>2, <2>4, <3>4
    <3> QED BY <1>1, <1>3, <2>2, <2>3, <3>1, <3>4, <3>5
            DEF EntryInv, Behind, Visible, ExitKnown, y
  <2>5. CASE s \notin Owned
    <3>1. y = q /\ ~svc[s].owned
      BY <1>2, <2>5 DEF q, y, Owned
    <3>2. leader'[s] = leader[s] /\ kids'[s] = kids[s]
      BY <1>4, <2>5
    <3>3. Linked(y, leader'[s], kids'[s]) /\ ~y.owned /\ y \in Entry
      BY <2>1, <2>3, <3>1, <3>2 DEF EntryInv, Linked
    <3> QED BY <1>1, <1>3, <2>2, <2>3, <3>1, <3>3
            DEF EntryInv, Behind, Visible, ExitKnown, y
  <2> QED BY <2>4, <2>5
<1>6. svc' \in [Services -> Entry]
  BY <1>2, <1>5
<1>7. store' \in [Services -> Rows]
  BY <1>2, <1>3, <1>6, StoreAfterType
<1>8. permit' \in BOOLEAN
  BY <1>2
<1>9. TypeOK'
  BY <1>1, <1>3, <1>4, <1>6, <1>7, <1>8 DEF TypeOK, loop, exits
<1> QED BY <1>1, <1>3, <1>5, <1>9 DEF IInv

LEMMA UnquiescedFacts ==
    ASSUME NEW x \in Entry
    PROVE  LET y == Unquiesced(x)
           IN  /\ y \in Entry
               /\ y.owned = x.owned /\ y.stopRequested = x.stopRequested
               /\ y.reapPending = x.reapPending /\ y.restartAfter = x.restartAfter
               /\ ~y.blocked
               /\ x.state = "stale" => y.state = "stale"
PROOF
<1> DEFINE d == IF x.blocked THEN x.restore ELSE x.desired
           r == IF x.reason = "package" THEN "none" ELSE x.reason
           z == [x EXCEPT !.desired = d,
                          !.session = FALSE, !.autostart = FALSE,
                          !.lifecycle = FALSE]
           y == [z EXCEPT !.blocked = FALSE, !.restore = FALSE, !.reason = r]
<1>1. d \in BOOLEAN /\ r \in Reasons
  BY DEF Entry, Reasons
<1>2. Unquiesced(x) = IF x = Unlisted THEN x
                      ELSE IF y.owned \/ y.state = "stale" THEN y
                      ELSE [y EXCEPT !.state = IdleState(y)]
  BY DEF Unquiesced, Entry
<1> HIDE DEF d, r
<1>3. z \in Entry /\ SameRuntime(x, z) /\ z.state = x.state
  BY <1>1, ZenonT(60) DEF Entry, SameRuntime
<1> HIDE DEF z
<1>4. /\ y \in Entry
      /\ y.owned = x.owned /\ y.stopRequested = x.stopRequested
      /\ y.reapPending = x.reapPending /\ y.restartAfter = x.restartAfter
      /\ ~y.blocked /\ y.state = x.state
  BY <1>1, <1>3, ZenonT(60) DEF Entry, SameRuntime
<1> HIDE DEF y
<1>5. CASE x = Unlisted
  <2>1. ~Unlisted.blocked
    BY DEF Unlisted, LoadControl
  <2> QED BY <1>2, <1>5, <2>1
<1>6. CASE x # Unlisted /\ (y.owned \/ y.state = "stale")
  BY <1>2, <1>4, <1>6
<1>7. CASE x # Unlisted /\ ~(y.owned \/ y.state = "stale")
  <2>1. Unquiesced(x) = [y EXCEPT !.state = IdleState(y)]
    BY <1>2, <1>7
  <2>2. IdleState(y) \in EffectiveStates
    BY IdleStateType
  <2> QED BY <1>4, <1>7, <2>1, <2>2 DEF Entry
<1> QED BY <1>5, <1>6, <1>7

LEMMA RestoredFacts ==
    ASSUME TypeOK, NEW s \in Services, NEW x \in Entry, NEW r \in Outcomes
    PROVE  LET y == Restored(s, x, r)
           IN  /\ y \in Entry
               /\ y.blocked = x.blocked
               /\ r \in Groups => y.owned
               /\ r \notin Groups => SameRuntime(x, y) /\ (x.state = "stale" => y.state = "stale")
               /\ r = "unreaped" => y.reapPending
PROOF
<1> DEFINE w == [x EXCEPT !.fails = 0, !.breaker = FALSE]
           z == Started(s, w, r)
<1>1. w \in Entry /\ SameRuntime(x, w) /\ w.state = x.state
  BY NoFailures DEF Entry, SameRuntime
<1>2. resv[s] \in Policy
  BY DEF TypeOK
<1>3. Restored(s, x, r) = CASE r = "none" -> x
                            [] r = "stale" -> [z EXCEPT !.state = "stale"]
                            [] OTHER -> z
  BY DEF Restored
<1> HIDE DEF w
<1>4. /\ z \in Entry
      /\ z.blocked = w.blocked
      /\ r \in Groups => z.owned
      /\ r \notin Groups => SameRuntime(w, z) /\ z.state = w.state
      /\ r = "unreaped" => z.reapPending
  BY <1>1, <1>2, StartedFacts
<1> HIDE DEF z
<1>5. CASE r = "none"
  BY <1>3, <1>5 DEF Groups, SameRuntime
<1>6. CASE r = "stale"
  <2>1. Restored(s, x, r) = [z EXCEPT !.state = "stale"]
    BY <1>3, <1>6
  <2>2. Restored(s, x, r) \in Entry /\ SameRuntime(z, Restored(s, x, r))
        /\ Restored(s, x, r).state = "stale"
    BY <1>4, <2>1 DEF Entry, EffectiveStates, SameRuntime
  <2> QED BY <1>1, <1>4, <1>6, <2>2 DEF Groups, SameRuntime
<1>7. CASE r \notin {"none", "stale"}
  <2>1. Restored(s, x, r) = z
    BY <1>3, <1>7
  <2> QED BY <1>1, <1>4, <2>1 DEF SameRuntime
<1> QED BY <1>5, <1>6, <1>7

LEMMA PackageEndStep ==
    ASSUME IInv, PackageEnd
    PROVE  IInv'
PROOF
<1>1. /\ up /\ pkg /\ pkg' = FALSE /\ permit' = FALSE
      /\ \A s \in Services : svc[s].blocked => ~svc[s].owned
      /\ UNCHANGED <<kids, stray, game, hold, card, seen, stopDone, broken, loop>>
      /\ TypeOK
  BY DEF PackageEnd, Ready, IInv
<1>2. PICK disk \in Disks, lost \in Losses :
        LET found == Scanned(svc, disk, lost)
            free  == [s \in Services |-> Unquiesced(found[s])]
        IN  \E r \in [Services -> {"none", "ok", "stale", "failed",
                                   "unrecorded", "unreaped"}] :
               /\ \A s \in Services : r[s] \in RestoreOutcomes(s, free[s])
               /\ svc' = [s \in Services |-> Restored(s, free[s], r[s])]
               /\ leader' = [s \in Services |->
                               IF r[s] = "none" THEN leader[s] ELSE LeaderAfter(r[s])]
               /\ resv' = [s \in Services |->
                             IF r[s] = "ok" THEN free[s].policy ELSE resv[s]]
               /\ stopped' = [s \in Services |->
                                stopped[s] /\ LeaderAfter(r[s]) = "none"]
               /\ StoreAfter(Services, svc', lost)
  BY DEF PackageEnd
<1> DEFINE found == Scanned(svc, disk, lost)
           free  == [s \in Services |-> Unquiesced(found[s])]
<1>3. PICK r \in [Services -> {"none", "ok", "stale", "failed", "unrecorded", "unreaped"}] :
               /\ \A s \in Services : r[s] \in RestoreOutcomes(s, free[s])
               /\ svc' = [s \in Services |-> Restored(s, free[s], r[s])]
               /\ leader' = [s \in Services |->
                               IF r[s] = "none" THEN leader[s] ELSE LeaderAfter(r[s])]
               /\ resv' = [s \in Services |->
                             IF r[s] = "ok" THEN free[s].policy ELSE resv[s]]
               /\ stopped' = [s \in Services |->
                                stopped[s] /\ LeaderAfter(r[s]) = "none"]
               /\ StoreAfter(Services, svc', lost)
  BY <1>2
\* Behind the barrier nothing runs, so every restore starts from no group.
<1>4. ASSUME NEW s \in Services
      PROVE  /\ free[s] \in Entry /\ ~free[s].owned /\ ~free[s].blocked
             /\ ~free[s].stopRequested /\ ~free[s].reapPending /\ ~free[s].restartAfter
             /\ stray[s] # "none" => free[s].state = "stale"
             /\ leader[s] = "none" /\ ~kids[s]
  <2>1. svc[s] \in Entry /\ EntryInv(s) /\ ~svc[s].owned
    BY <1>1 DEF IInv, EntryInv, Behind, TypeOK
  <2>2. /\ ~svc[s].stopRequested /\ ~svc[s].reapPending /\ ~svc[s].restartAfter
        /\ leader[s] = "none" /\ ~kids[s]
    BY <2>1 DEF EntryInv, Linked
  <2>3. /\ found[s] \in Entry /\ SameRuntime(svc[s], found[s])
        /\ ~found[s].owned /\ stray[s] # "none" => found[s].state = "stale"
    BY <1>1, <2>2, ScannedFacts DEF TypeOK
  <2>4. free[s] = Unquiesced(found[s])
    OBVIOUS
  <2> HIDE DEF found, free
  <2> QED BY <2>1, <2>2, <2>3, <2>4, UnquiescedFacts DEF SameRuntime
<1>5. free \in [Services -> Entry]
  BY <1>4
<1> HIDE DEF found, free
<1>6. ASSUME NEW s \in Services
      PROVE  /\ r[s] \in Outcomes
             /\ r[s] \in Groups => stray[s] = "none"
             /\ leader'[s] \in {"none", "live", "zombie"}
             /\ (leader'[s] # "none") <=> r[s] \in Groups
             /\ leader'[s] = "zombie" => r[s] = "unreaped"
  <2>1. r[s] = "none" \/ r[s] \in StartOutcomes(s, free[s], FALSE)
    BY <1>3 DEF RestoreOutcomes
  <2>2. r[s] \in Outcomes
    BY <1>3 DEF Outcomes
  <2>3. r[s] \in Groups => stray[s] = "none"
    BY <2>1, StartOutcomesFacts DEF Groups
  <2>4. leader'[s] = IF r[s] = "none" THEN "none" ELSE LeaderAfter(r[s])
    BY <1>3, <1>4
  <2> QED BY <2>2, <2>3, <2>4 DEF LeaderAfter, Outcomes, Groups
<1>7. ASSUME NEW s \in Services
      PROVE  svc'[s] \in Entry /\ EntryInv(s)'
  <2>1. svc'[s] = Restored(s, free[s], r[s])
    BY <1>3
  <2> DEFINE y == svc'[s]
             f == free[s]
             o == r[s]
  <2>2. /\ f \in Entry /\ ~f.owned /\ ~f.blocked
        /\ ~f.stopRequested /\ ~f.reapPending /\ ~f.restartAfter
        /\ stray[s] # "none" => f.state = "stale"
        /\ ~kids[s] /\ kids'[s] = kids[s] /\ stray'[s] = stray[s]
    BY <1>1, <1>4
  <2>3. /\ o \in Outcomes
        /\ o \in Groups => stray[s] = "none"
        /\ (leader'[s] # "none") <=> o \in Groups
        /\ leader'[s] = "zombie" => o = "unreaped"
    BY <1>6
  <2>4. y = Restored(s, f, o)
    BY <2>1
  <2> HIDE DEF y, f, o
  <2>5. /\ y \in Entry
        /\ y.blocked = f.blocked
        /\ o \in Groups => y.owned
        /\ o \notin Groups => SameRuntime(f, y) /\ (f.state = "stale" => y.state = "stale")
        /\ o = "unreaped" => y.reapPending
    BY <1>1, <2>2, <2>3, <2>4, RestoredFacts
  <2>6. Linked(y, leader'[s], kids'[s])
    BY <2>2, <2>3, <2>5 DEF Linked, SameRuntime
  <2>7. ExitKnown(y, leader'[s], sigchld' \/ noted'[s])
    BY <2>2, <2>3, <2>5 DEF ExitKnown, SameRuntime
  <2>8. Visible(y, stray'[s])
    BY <2>2, <2>3, <2>5 DEF Visible, SameRuntime
  <2>9. Behind(y, pkg') /\ up' /\ ~permit'
    BY <1>1, <2>2, <2>5 DEF Behind, loop
  <2> QED BY <2>5, <2>6, <2>7, <2>8, <2>9 DEF EntryInv, y
<1>8. TypeOK'
  <2>1. svc' \in [Services -> Entry]
    BY <1>3, <1>7
  <2>2. store' \in [Services -> Rows]
    BY <1>1, <1>3, <2>1, StoreAfterType
  <2>3. leader' \in [Services -> {"none", "live", "zombie"}]
    <3>1. leader' = [s \in Services |-> leader'[s]]
      BY <1>3
    <3> QED BY <1>6, <3>1
  <2>4. \A s \in Services : free[s].policy \in Policy /\ resv[s] \in Policy
    BY <1>1, <1>5 DEF Entry, TypeOK
  <2>5. resv' \in [Services -> Policy]
    BY <1>3, <2>4
  <2>6. stopped' \in [Services -> BOOLEAN]
    BY <1>3
  <2> QED BY <1>1, <2>1, <2>2, <2>3, <2>5, <2>6 DEF TypeOK, loop, exits
<1> QED BY <1>1, <1>7, <1>8 DEF IInv

-----------------------------------------------------------------------------
(* The daemon's own life *)

LEMMA DaemonStartStep ==
    ASSUME IInv, DaemonStart
    PROVE  IInv'
PROOF
<1>1. /\ ~up /\ up' = TRUE /\ TypeOK
      /\ noted' = [s \in Services |-> TRUE] /\ seen' = card
      /\ UNCHANGED <<group, game, hold, pkg, permit, card, stopDone, broken, cont, sigchld,
                  stopped>>
  BY DEF DaemonStart, IInv
<1> DEFINE entries == [s \in Services |-> LoadControl(store[s])]
<1>2. PICK disk \in Disks, lost \in Losses :
        svc' = Scanned(entries, disk, lost) /\ StoreAfter({}, svc', lost)
  BY DEF DaemonStart
<1>3. ~pkg /\ ~permit
  BY <1>1 DEF IInv
<1>4. ASSUME NEW s \in Services
      PROVE  /\ entries[s] \in Entry
             /\ ~entries[s].owned /\ ~entries[s].stopRequested
             /\ ~entries[s].reapPending /\ ~entries[s].restartAfter
             /\ ~entries[s].blocked
  <2>1. store[s] \in Rows
    BY <1>1 DEF TypeOK
  <2>2. entries[s] = LoadControl(store[s])
    OBVIOUS
  <2> HIDE DEF entries
  <2>3. entries[s] \in Entry
    BY <2>1, <2>2, LoadControlType
  <2> QED BY <2>2, <2>3 DEF LoadControl
<1>5. entries \in [Services -> Entry]
  BY <1>4
<1> HIDE DEF entries
<1>6. ASSUME NEW s \in Services
      PROVE  /\ svc'[s] \in Entry /\ SameRuntime(entries[s], svc'[s])
             /\ ~svc'[s].owned /\ stray[s] # "none" => svc'[s].state = "stale"
  BY <1>1, <1>2, <1>4, <1>5, ScannedFacts
<1>7. ASSUME NEW s \in Services
      PROVE  EntryInv(s)'
  <2>1. ~Unlisted.owned
    BY DEF Unlisted, LoadControl
  <2>2. leader'[s] = "none" /\ ~kids'[s] /\ stray'[s] = stray[s] /\ pkg' = pkg /\ permit' = permit
    BY <1>1, <2>1 DEF IInv, EntryInv, Linked, group
  <2> QED BY <1>1, <1>3, <1>4, <1>6, <2>2
          DEF EntryInv, Linked, ExitKnown, Visible, Behind, SameRuntime
<1>8. TypeOK'
  <2>1. svc' \in [Services -> Entry]
    BY <1>2, <1>6 DEF Scanned
  <2>2. store' \in [Services -> Rows]
    BY <1>1, <1>2, <2>1, StoreAfterType
  <2> QED BY <1>1, <2>1, <2>2 DEF TypeOK, group
<1> QED BY <1>1, <1>3, <1>7, <1>8 DEF IInv

\* What the daemon leaves behind when it is gone satisfies the invariant.
LEMMA DaemonGoneFacts ==
    ASSUME IInv, NEW T, DaemonGone(T), store' \in [Services -> Rows]
    PROVE  IInv'
PROOF
<1>1. /\ up' = FALSE /\ pkg' = FALSE /\ permit' = FALSE
      /\ svc' = [s \in Services |-> Unlisted]
      /\ leader' = [s \in Services |-> "none"]
      /\ kids' = [s \in Services |-> FALSE]
  BY DEF DaemonGone
<1>2. /\ Unlisted \in Entry /\ ~Unlisted.owned /\ ~Unlisted.stopRequested
      /\ ~Unlisted.reapPending /\ ~Unlisted.restartAfter /\ ~Unlisted.blocked
  BY UnlistedType DEF Unlisted, LoadControl
<1>3. ASSUME NEW s \in Services
      PROVE  EntryInv(s)'
  <2>1. svc'[s] = Unlisted /\ leader'[s] = "none" /\ ~kids'[s]
    BY <1>1
  <2> QED BY <1>1, <1>2, <2>1 DEF EntryInv, Linked, ExitKnown, Behind
<1>4. stray' \in [Services -> {"none", "escaped", "orphan"}]
  BY DEF DaemonGone
<1>5. TypeOK'
  <2>1. TypeOK
    BY DEF IInv
  <2>2. /\ svc' \in [Services -> Entry]
        /\ leader' \in [Services -> {"none", "live", "zombie"}]
        /\ kids' \in [Services -> BOOLEAN]
    BY <1>1, <1>2
  <2>3. /\ hold' = FALSE /\ stopDone' = FALSE /\ broken' = FALSE
        /\ cont' = NoService /\ sigchld' = FALSE
        /\ noted' = [s \in Services |-> FALSE] /\ stopped' = [s \in Services |-> FALSE]
        /\ UNCHANGED <<resv, game, card, seen>>
    BY DEF DaemonGone
  <2>4. noted' \in [Services -> BOOLEAN] /\ stopped' \in [Services -> BOOLEAN]
    BY <2>3
  <2> QED BY <1>1, <1>4, <2>1, <2>2, <2>3, <2>4 DEF TypeOK
<1> QED BY <1>1, <1>3, <1>5 DEF IInv

LEMMA CrashStep ==
    ASSUME IInv, Crash
    PROVE  IInv'
PROOF BY DaemonGoneFacts DEF Crash, IInv, TypeOK

LEMMA ShutdownStep ==
    ASSUME IInv, Shutdown
    PROVE  IInv'
PROOF
<1>1. TypeOK /\ svc \in [Services -> Entry]
  BY DEF IInv, TypeOK
<1>2. \E T, K, lost : DaemonGone(T) /\ StoreAfter(K, svc, lost)
  BY DEF Shutdown
<1> QED BY <1>1, <1>2, StoreAfterType, DaemonGoneFacts

-----------------------------------------------------------------------------
(* Steps that change no entry *)

LEMMA FlagsStep ==
    ASSUME IInv, NoteChildExit \/ \E s \in Services : NoExitFound(s)
    PROVE  IInv'
PROOF
<1>1. TypeOK /\ UNCHANGED <<svc, group, store, barriers, up, cont, stopped>>
  BY DEF NoteChildExit, NoExitFound, IInv
<1>2. UNCHANGED <<leader, kids, stray, pkg, permit>>
  BY <1>1 DEF group, barriers
<1>3. CASE NoteChildExit
  <2>1. sigchld' = FALSE /\ noted' = [s \in Services |-> TRUE]
    BY <1>3 DEF NoteChildExit
  <2>2. TypeOK'
    BY <1>1, <2>1 DEF TypeOK, group, barriers
  <2>3. ASSUME NEW s \in Services
        PROVE  EntryInv(s)'
    BY <1>1, <1>2, <2>1 DEF IInv, EntryInv, ExitKnown
  <2> QED BY <1>1, <1>2, <2>2, <2>3 DEF IInv
<1>4. ASSUME NEW s \in Services, NoExitFound(s)
      PROVE  IInv'
  <2>1. /\ noted' = [noted EXCEPT ![s] = FALSE] /\ sigchld' = sigchld
        /\ noted[s] /\ ~ExitDue(s)
    BY <1>4 DEF NoExitFound
  <2>2. TypeOK'
    BY <1>1, <2>1 DEF TypeOK, group, barriers
  <2>3. ASSUME NEW t \in Services
        PROVE  EntryInv(t)'
    <3>1. EntryInv(t) /\ svc[t] \in Entry
      BY <1>1 DEF IInv, TypeOK
    <3>2. CASE t = s
      <4>1. ExitKnown(svc[t], leader[t], FALSE)
        BY <2>1, <3>2 DEF ExitDue, ExitKnown
      <4> QED BY <1>1, <1>2, <3>1, <4>1 DEF EntryInv, ExitKnown
    <3>3. CASE t # s
      <4>1. noted'[t] = noted[t]
        BY <1>1, <2>1, <3>3 DEF TypeOK
      <4> QED BY <1>1, <1>2, <2>1, <3>1, <4>1 DEF EntryInv
    <3> QED BY <3>2, <3>3
  <2> QED BY <1>1, <1>2, <2>2, <2>3 DEF IInv
<1> QED BY <1>3, <1>4

LEMMA QuietSteps ==
    ASSUME IInv, GameBegin \/ GameFinish \/ CardMoves \/ \E s \in Services : PassDone(s)
    PROVE  IInv'
PROOF
<1>1. TypeOK
  BY DEF IInv
<1>2. CASE GameBegin \/ GameFinish
  <2>1. /\ game' \in BOOLEAN
        /\ UNCHANGED <<svc, group, store, hold, pkg, permit, card, seen, stopDone, broken, loop,
                       stopped>>
    BY <1>2 DEF GameBegin, GameFinish
  <2>2. TypeOK'
    BY <1>1, <2>1 DEF TypeOK, group, loop, exits
  <2> QED BY <2>1, <2>2, SameEntries DEF group, loop, exits
<1>3. CASE CardMoves
  <2>1. /\ card' \in {"mounted", "gone"}
        /\ UNCHANGED <<svc, group, store, game, hold, pkg, permit, seen, stopDone, broken, loop,
                       stopped>>
    BY <1>3 DEF CardMoves
  <2>2. TypeOK'
    BY <1>1, <2>1 DEF TypeOK, group, loop, exits
  <2> QED BY <2>1, <2>2, SameEntries DEF group, loop, exits
<1>4. CASE \E s \in Services : PassDone(s)
  <2>1. /\ cont' = NoService
        /\ UNCHANGED <<svc, group, store, barriers, up, exits, stopped>>
    BY <1>4 DEF PassDone
  <2>2. TypeOK'
    BY <1>1, <2>1 DEF TypeOK, group, barriers, exits
  <2> QED BY <2>1, <2>2, SameEntries DEF group, barriers, exits
<1> QED BY <1>2, <1>3, <1>4

\* The processes of a group that nobody owns do nothing: there are none.
LEMMA ProcessSteps ==
    ASSUME IInv, NEW s \in Services, ProcessStep(s)
    PROVE  IInv'
PROOF
<1>1. /\ TypeOK /\ EntryInv(s)
      /\ UNCHANGED <<svc, resv, store, barriers, up, cont, noted, stopped>>
  BY DEF IInv, ProcessStep, LeaderExits, Fork, DescendantsExit, Escape, StrayExits, loop, exits
<1>2. /\ leader' \in [Services -> {"none", "live", "zombie"}]
      /\ kids' \in [Services -> BOOLEAN]
      /\ stray' \in [Services -> {"none", "escaped", "orphan"}]
      /\ sigchld' \in BOOLEAN /\ (sigchld => sigchld')
  BY <1>1 DEF TypeOK, ProcessStep, LeaderExits, Fork, DescendantsExit, Escape, StrayExits, loop, exits
<1>3. \A t \in Services \ {s} :
          leader'[t] = leader[t] /\ kids'[t] = kids[t] /\ stray'[t] = stray[t]
  BY <1>1 DEF TypeOK, ProcessStep, LeaderExits, Fork, DescendantsExit, Escape, StrayExits
<1>4. /\ (leader'[s] = "none") <=> (leader[s] = "none")
      /\ leader'[s] = "zombie" => leader[s] = "zombie" \/ sigchld'
      /\ kids'[s] => kids[s] \/ leader[s] # "none"
      /\ stray'[s] = "orphan" => stray[s] = "orphan"
  BY <1>1 DEF TypeOK, ProcessStep, LeaderExits, Fork, DescendantsExit, Escape, StrayExits
<1>5. TypeOK'
  BY <1>1, <1>2 DEF TypeOK, barriers
<1>6. ASSUME NEW t \in Services
      PROVE  EntryInv(t)'
  <2>1. EntryInv(t) /\ pkg' = pkg /\ permit' = permit
    BY <1>1 DEF IInv, barriers
  <2>2. CASE t = s
    BY <1>1, <1>2, <1>4, <2>1, <2>2 DEF EntryInv, Linked, ExitKnown, Visible
  <2>3. CASE t # s
    BY <1>1, <1>2, <1>3, <2>1, <2>3 DEF EntryInv, ExitKnown
  <2> QED BY <2>2, <2>3
<1> QED BY <1>1, <1>5, <1>6 DEF IInv, barriers

-----------------------------------------------------------------------------
(* The theorems *)

LEMMA InitInv == Init => IInv
PROOF
<1> SUFFICES ASSUME Init
             PROVE  IInv
  OBVIOUS
<1>1. /\ Unlisted \in Entry /\ ~Unlisted.owned /\ ~Unlisted.stopRequested
      /\ ~Unlisted.reapPending /\ ~Unlisted.restartAfter /\ ~Unlisted.blocked
  BY UnlistedType DEF Unlisted, LoadControl
<1>2. FailSafe \in Policy /\ NoRow \in Rows
  BY NoFailures DEF FailSafe, Policy, GameModes, NoRow, Rows
<1>3. TypeOK
  BY <1>1, <1>2 DEF Init, TypeOK
<1>4. ASSUME NEW s \in Services
      PROVE  EntryInv(s)
  BY <1>1 DEF Init, EntryInv, Linked, ExitKnown, Visible, Behind
<1> QED BY <1>3, <1>4 DEF Init, IInv

LEMMA StepInv == IInv /\ [Next]_vars => IInv'
PROOF
<1> SUFFICES ASSUME IInv, [Next]_vars
             PROVE  IInv'
  OBVIOUS
<1>1. CASE DaemonStart \/ Crash \/ Shutdown
  BY <1>1, DaemonStartStep, CrashStep, ShutdownStep
<1>2. ASSUME NEW s \in Services, UserStep(s)
      PROVE  IInv'
  BY <1>2, EnableStep, DisableStep, RunStep, StopStep, RestartStep DEF UserStep
<1>3. ASSUME NEW s \in Services, TickStep(s)
      PROVE  IInv'
  BY <1>3, LeaderExitObservedStep, FlagsStep, SettleStep, EscalateStep, ReleaseStep,
     StopUnverifiedStep, GameResumeStep, LifecycleResumeStep, BackoffRetryStep,
     StaleRetryStep, StaleClearedStep, AutostartStep, QuietSteps DEF TickStep
<1>4. CASE BarrierStep
  BY <1>4, PackageBeginStep, PackageEndStep, QuietSteps, GameStopServiceStep,
     SuspendStep, SafeUnmountStep, StorageTickStep, RescanStep DEF BarrierStep
<1>5. CASE NoteChildExit \/ CardMoves
  BY <1>5, FlagsStep, QuietSteps
<1>6. CASE UNCHANGED vars
  <2>1. UNCHANGED <<svc, leader, kids, stray, resv, store, barriers, up, cont, sigchld,
                    noted, stopped>>
    BY <1>6 DEF vars, group, loop, exits
  <2>2. TypeOK'
    BY <2>1 DEF IInv, TypeOK, barriers
  <2> QED BY <2>1, <2>2, SameEntries DEF barriers
<1> QED BY <1>1, <1>2, <1>3, <1>4, <1>5, <1>6, ProcessSteps DEF Next

\* The inductive invariant holds in every reachable state.
THEOREM Invariance == Spec => []IInv
PROOF BY InitInv, StepInv, PTL DEF Spec

\* Every variable keeps its type, whatever the instance.
THEOREM TypeCorrect == Spec => []TypeOK
PROOF
<1>1. IInv => TypeOK
  BY DEF IInv
<1> QED BY Invariance, <1>1, PTL

\* The supervisor never loses a group it started (supervisor.c:1275-1306 and
\* every stop path): the entry owns it until its absence is verified.
THEOREM Ownership == Spec => []OwnershipKept
PROOF
<1>1. IInv => OwnershipKept
  BY DEF IInv, EntryInv, Linked, OwnershipKept
<1> QED BY Invariance, <1>1, PTL

\* No stop latch outlives its group (jw__entry_release_runtime and the launch
\* reset every one of them).
THEOREM LatchesFollowGroups == Spec => []NoDanglingStop
PROOF
<1>1. IInv => NoDanglingStop
  BY DEF IInv, EntryInv, Linked, NoDanglingStop
<1> QED BY Invariance, <1>1, PTL

\* The consumption of child_exit_pending by a tick loses no exit.
THEOREM ExitsAreSeen == Spec => []ExitNeverMissed
PROOF
<1>1. IInv => ExitNeverMissed
  BY DEF IInv, EntryInv, ExitKnown, ExitNeverMissed
<1> QED BY Invariance, <1>1, PTL

\* A generation that survived a daemon crash is reported stale until it dies.
THEOREM SurvivorsShow == Spec => []SurvivorVisible
PROOF
<1>1. IInv => SurvivorVisible
  BY DEF IInv, EntryInv, Visible, SurvivorVisible
<1> QED BY Invariance, <1>1, PTL

\* The permission to replace package bytes excludes every group the daemon
\* started and every survivor of a crash, for any number of services and
\* whichever stops fail.  It does not exclude a descendant that left its group
\* with the lease: the code does not look at that one, and of it nothing is
\* claimed.
THEOREM PackagesQuiesced == Spec => []PackageBarrier
PROOF
<1>1. IInv => PackageBarrier
  BY DEF IInv, EntryInv, Linked, PackageBarrier
<1> QED BY Invariance, <1>1, PTL

-----------------------------------------------------------------------------
(* What a step may launch *)

\* The step launched s, or tried to: the attempt came to r for the entry v,
\* whose group had no process left.
Attempted(s, v, q, r) ==
    /\ r \in StartOutcomes(s, v, q)
    /\ leader'[s] = LeaderAfter(r)
    /\ ~kids[s]
    /\ r = "ok" => svc'[s].active = v.policy
    /\ r = "unrecorded" => svc'[s].reason = "intentional"

LaunchesNothing(s) == leader'[s] = "live" => leader[s] = "live"

Admissible(s) == LaunchesNothing(s) \/ \E v, q, r : Attempted(s, v, q, r)

LEMMA AttemptedFacts ==
    ASSUME NEW s \in Services, Admissible(s), Launches(s)
    PROVE  /\ stray[s] = "none" /\ ~kids[s]
           /\ game /\ Starts(s) => svc'[s].active.game = "ignore"
PROOF
<1>1. PICK v, q, r : Attempted(s, v, q, r)
  BY DEF Admissible, LaunchesNothing, Launches
<1>2. /\ r \in Outcomes \ {"none"}
      /\ r \in Groups => ~Gated(v, q) /\ stray[s] = "none"
  BY <1>1, StartOutcomesFacts DEF Attempted
<1>3. LeaderAfter(r) = "live"
  BY <1>1 DEF Attempted, Launches
<1>4. r = "ok" \/ r = "unrecorded"
  BY <1>3 DEF LeaderAfter
<1>5. ~kids[s] /\ stray[s] = "none" /\ ~Gated(v, q)
  BY <1>1, <1>2, <1>4 DEF Attempted, Groups
<1>6. Starts(s) => r = "ok"
  BY <1>1, <1>4 DEF Attempted, Starts
<1> QED BY <1>1, <1>5, <1>6 DEF Attempted, Gated

\* A launch for one entry, which became y.
LEMMA AttemptedEntry ==
    ASSUME TypeOK, NEW s \in Services, NEW v \in Entry, NEW q,
           NEW r \in StartOutcomes(s, v, q),
           Launched(s, v, r), ~kids[s], NEW y, svc' = [svc EXCEPT ![s] = y],
           r = "ok" => y.active = v.policy,
           r = "unrecorded" => y.reason = "intentional"
    PROVE  \A t \in Services : Admissible(t)
PROOF
<1>1. r \in Outcomes
  BY StartOutcomesFacts
<1>2. leader' = [leader EXCEPT ![s] = LeaderAfter(r)] /\ svc'[s] = y
  BY DEF Launched, TypeOK
<1>3. Admissible(s)
  <2>1. leader'[s] = LeaderAfter(r)
    BY <1>2 DEF TypeOK
  <2> QED BY <1>2, <2>1 DEF Admissible, Attempted
<1>4. ASSUME NEW t \in Services \ {s}
      PROVE  Admissible(t)
  BY <1>2, <1>4 DEF Admissible, LaunchesNothing, TypeOK
<1> QED BY <1>3, <1>4

\* Started(s, w, r) with any of the fields a caller still changes.
LEMMA StartedFields ==
    ASSUME NEW s, NEW w \in Entry, NEW r \in {"ok", "unrecorded"}, resv[s] \in Policy
    PROVE  LET z == Started(s, w, r)
           IN  /\ z \in Entry
               /\ r = "ok" => z.active = w.policy
               /\ r = "unrecorded" => z.reason = "intentional"
PROOF BY StartedFacts DEF Outcomes

LEMMA ResumeAttempt ==
    ASSUME IInv, NEW s \in Services, RestartPhases(s), NEW spent \in Entry,
           spent.policy = svc[s].policy, Resume(s, spent)
    PROVE  \A t \in Services : Admissible(t)
PROOF
<1> DEFINE x == svc[s]
<1>1. TypeOK /\ x \in Entry /\ ~kids[s] /\ resv[s] \in Policy
  BY DEF IInv, TypeOK, EntryInv, Linked, RestartPhases
<1>2. PICK r \in StartOutcomes(s, x, pkg) :
        /\ svc' = [svc EXCEPT ![s] = Resumed(s, x, spent, r)]
        /\ Launched(s, x, r)
  BY DEF Resume
<1> DEFINE y == Resumed(s, x, spent, r)
           z == Started(s, spent, r)
<1>3. r = "ok" => y.active = x.policy
  <2> SUFFICES ASSUME r = "ok"
               PROVE  y.active = x.policy
    OBVIOUS
  <2>1. y = z
    BY DEF Resumed
  <2> QED BY <1>1, <2>1, StartedFields
<1>4. r = "unrecorded" => y.reason = "intentional"
  <2> SUFFICES ASSUME r = "unrecorded"
               PROVE  y.reason = "intentional"
    OBVIOUS
  <2>1. y = [z EXCEPT !.state = IdleState(x)]
    BY DEF Resumed
  <2>2. z \in Entry /\ z.reason = "intentional"
    BY <1>1, StartedFields
  <2> HIDE DEF z
  <2> QED BY <2>1, <2>2 DEF Entry
<1> HIDE DEF y
<1>5. svc' = [svc EXCEPT ![s] = y]
  BY <1>2 DEF y
<1> QED BY <1>1, <1>2, <1>3, <1>4, <1>5, AttemptedEntry

\* The launches of a tick's restart phases.
LEMMA PhaseAttempts ==
    ASSUME IInv, NEW s \in Services,
           GameResume(s) \/ LifecycleResume(s) \/ BackoffRetry(s)
              \/ StaleRetry(s) \/ Autostart(s)
    PROVE  \A t \in Services : Admissible(t)
PROOF
<1> DEFINE x == svc[s]
<1>1. /\ TypeOK /\ x \in Entry /\ ~kids[s] /\ resv[s] \in Policy /\ RestartPhases(s)
  BY DEF IInv, TypeOK, EntryInv, Linked, RestartPhases, GameResume, LifecycleResume,
         BackoffRetry, StaleRetry, Autostart
<1>2. CASE GameResume(s)
  <2> DEFINE w == [x EXCEPT !.gameLatch = FALSE]
  <2>1. w \in Entry /\ w.policy = x.policy
    BY <1>1 DEF Entry
  <2>2. Resume(s, w)
    BY <1>2 DEF GameResume
  <2> HIDE DEF w
  <2> QED BY <1>1, <2>1, <2>2, ResumeAttempt
<1>3. CASE LifecycleResume(s)
  <2> DEFINE w == [x EXCEPT !.lifecycle = FALSE]
  <2>1. w \in Entry /\ w.policy = x.policy
    BY <1>1 DEF Entry
  <2>2. Resume(s, w)
    BY <1>3 DEF LifecycleResume
  <2> HIDE DEF w
  <2> QED BY <1>1, <2>1, <2>2, ResumeAttempt
<1>4. CASE BackoffRetry(s)
  <2>1. PICK r \in StartOutcomes(s, x, pkg) :
          /\ Launched(s, x, r)
          /\ \E y \in CASE r = "ok" -> {Started(s, x, r)}
                        [] r = "stale" -> {[Started(s, x, r) EXCEPT !.state = "stale"]}
                        [] OTHER -> RetryFailed(Started(s, x, r)) :
                svc' = [svc EXCEPT ![s] = y]
    BY <1>4 DEF BackoffRetry
  <2> DEFINE z == Started(s, x, r)
  <2>2. PICK y \in CASE r = "ok" -> {z}
                      [] r = "stale" -> {[z EXCEPT !.state = "stale"]}
                      [] OTHER -> RetryFailed(z) :
                svc' = [svc EXCEPT ![s] = y]
    BY <2>1
  <2>3. /\ z \in Entry
        /\ r = "ok" => z.active = x.policy
        /\ r = "unrecorded" => z.reason = "intentional"
    BY <1>1, StartedType, StartedFields
  <2> HIDE DEF z
  <2>4. r = "ok" => y.active = x.policy
    BY <2>2, <2>3
  <2>5. r = "unrecorded" => y.reason = "intentional"
    BY <2>2, <2>3, RetryFailedFacts
  <2> QED BY <1>1, <2>1, <2>2, <2>4, <2>5, AttemptedEntry
<1>5. CASE StaleRetry(s)
  <2>1. PICK r \in StartOutcomes(s, x, pkg) :
        LET z == Started(s, x, r)
            y == CASE r = "ok" -> [z EXCEPT !.lifecycle = FALSE]
                   [] r = "stale" -> z
                   [] OTHER ->
                        [z EXCEPT !.session = FALSE, !.autostart = FALSE,
                                  !.state = IF z.owned THEN @ ELSE IdleState(z)]
        IN  /\ svc' = [svc EXCEPT ![s] = y]
            /\ Launched(s, x, r)
    BY <1>5 DEF StaleRetry
  <2> DEFINE z == Started(s, x, r)
             y == CASE r = "ok" -> [z EXCEPT !.lifecycle = FALSE]
                    [] r = "stale" -> z
                    [] OTHER ->
                         [z EXCEPT !.session = FALSE, !.autostart = FALSE,
                                   !.state = IF z.owned THEN @ ELSE IdleState(z)]
  <2>2. svc' = [svc EXCEPT ![s] = y]
    BY <2>1
  <2>3. /\ z \in Entry
        /\ r = "ok" => z.active = x.policy
        /\ r = "unrecorded" => z.reason = "intentional"
    BY <1>1, StartedType, StartedFields
  <2> HIDE DEF z
  <2>4. r = "ok" => y.active = x.policy
    BY <2>3 DEF Entry
  <2>5. r = "unrecorded" => y.reason = "intentional"
    BY <2>3 DEF Entry
  <2> HIDE DEF y
  <2> QED BY <1>1, <2>1, <2>2, <2>4, <2>5, AttemptedEntry, ZenonT(60)
<1>6. CASE Autostart(s)
  <2>1. PICK r \in StartOutcomes(s, x, pkg) :
        LET z == Started(s, x, r)
            y == CASE r = "stale" -> [z EXCEPT !.state = "stale"]
                   [] r = "failed" -> [z EXCEPT !.autostart = FALSE,
                                                !.state = IdleState(z)]
                   [] OTHER -> z
        IN  /\ svc' = [svc EXCEPT ![s] = y]
            /\ Launched(s, x, r)
    BY <1>6 DEF Autostart
  <2> DEFINE z == Started(s, x, r)
             y == CASE r = "stale" -> [z EXCEPT !.state = "stale"]
                    [] r = "failed" -> [z EXCEPT !.autostart = FALSE,
                                                 !.state = IdleState(z)]
                    [] OTHER -> z
  <2>2. svc' = [svc EXCEPT ![s] = y]
    BY <2>1
  <2>3. /\ r = "ok" => z.active = x.policy
        /\ r = "unrecorded" => z.reason = "intentional"
    BY <1>1, StartedFields
  <2> HIDE DEF z
  <2>4. r = "ok" => y.active = x.policy
    BY <2>3
  <2>5. r = "unrecorded" => y.reason = "intentional"
    BY <2>3
  <2> HIDE DEF y
  <2> QED BY <1>1, <2>1, <2>2, <2>4, <2>5, AttemptedEntry, ZenonT(60)
<1> QED BY <1>2, <1>3, <1>4, <1>5, <1>6

\* The launches of a Run and of a Restart without a group.
LEMMA RequestAttempts ==
    ASSUME IInv, NEW s \in Services, Run(s) \/ Restart(s)
    PROVE  \A t \in Services : Admissible(t)
PROOF
<1> DEFINE x == svc[s]
<1>1. TypeOK /\ x \in Entry /\ resv[s] \in Policy /\ (~x.owned => ~kids[s])
  BY DEF IInv, TypeOK, EntryInv, Linked
<1>2. CASE Run(s)
  <2> DEFINE w == [x EXCEPT !.lifecycle = FALSE, !.fails = 0, !.breaker = FALSE]
  <2>1. w \in Entry /\ ~kids[s]
    BY <1>1, <1>2, NoFailures DEF Entry, Run
  <2>2. PICK r \in StartOutcomes(s, w, FALSE) :
        LET z == Started(s, w, r)
        IN  /\ Launched(s, w, r)
            /\ \/ r = "ok" /\ svc' = [svc EXCEPT ![s] = [z EXCEPT !.session = TRUE]]
               \/ /\ r = "stale"
                  /\ \E kept : svc' = [svc EXCEPT ![s] =
                                       [z EXCEPT !.session = kept, !.state = "stale"]]
               \/ r \notin {"ok", "stale"} /\ svc' = [svc EXCEPT ![s] = z]
    BY <1>2 DEF Run
  <2> DEFINE z == Started(s, w, r)
  <2> HIDE DEF w
  <2>3. /\ z \in Entry
        /\ r = "ok" => z.active = w.policy
        /\ r = "unrecorded" => z.reason = "intentional"
    BY <1>1, <2>1, StartedType, StartedFields, ZenonT(60)
  <2>4. PICK y : /\ svc' = [svc EXCEPT ![s] = y]
                 /\ \/ r = "ok" /\ y = [z EXCEPT !.session = TRUE]
                    \/ r = "stale"
                    \/ r \notin {"ok", "stale"} /\ y = z
    BY <2>2
  <2>5. Launched(s, w, r)
    BY <2>2
  <2> HIDE DEF z
  <2>6. r = "ok" => y.active = w.policy
    BY <2>3, <2>4 DEF Entry
  <2>7. r = "unrecorded" => y.reason = "intentional"
    BY <2>3, <2>4
  <2> QED BY <1>1, <2>1, <2>4, <2>5, <2>6, <2>7, AttemptedEntry
<1>3. CASE Restart(s) /\ x.owned
  <2>1. leader' = leader
    BY <1>3 DEF Restart, group
  <2> QED BY <2>1 DEF Admissible, LaunchesNothing
<1>4. CASE Restart(s) /\ ~x.owned
  <2> DEFINE w == [x EXCEPT !.lifecycle = FALSE, !.fails = 0, !.breaker = FALSE,
                            !.session = TRUE]
  <2>1. w \in Entry /\ ~kids[s]
    BY <1>1, <1>4, NoFailures DEF Entry
  <2>2. PICK r \in StartOutcomes(s, w, FALSE) :
          /\ Launched(s, w, r)
          /\ svc' = [svc EXCEPT ![s] =
               CASE r = "ok" -> Started(s, w, r)
                 [] r = "stale" -> [Started(s, w, r) EXCEPT !.state = "stale"]
                 [] OTHER -> [Started(s, w, r) EXCEPT !.session = x.session]]
    BY <1>4 DEF Restart
  <2> DEFINE z == Started(s, w, r)
             y == CASE r = "ok" -> z
                    [] r = "stale" -> [z EXCEPT !.state = "stale"]
                    [] OTHER -> [z EXCEPT !.session = x.session]
  <2> HIDE DEF w
  <2>3. /\ z \in Entry
        /\ r = "ok" => z.active = w.policy
        /\ r = "unrecorded" => z.reason = "intentional"
    BY <1>1, <2>1, StartedType, StartedFields, ZenonT(60)
  <2>4. svc' = [svc EXCEPT ![s] = y] /\ Launched(s, w, r)
    BY <2>2
  <2> HIDE DEF z
  <2>5. r = "ok" => y.active = w.policy
    BY <2>3
  <2>6. r = "unrecorded" => y.reason = "intentional"
    BY <2>3 DEF Entry
  <2> HIDE DEF y
  <2> QED BY <1>1, <2>1, <2>4, <2>5, <2>6, AttemptedEntry
<1> QED BY <1>2, <1>3, <1>4

\* The replacement launched by the step that saw its predecessor's group gone.
LEMMA ReleaseAttempt ==
    ASSUME IInv, NEW s \in Services, Gone(s), NEW x \in Entry, NEW o \in ReleaseOutcomes(s, x),
           Launched(s, x, o[2]), svc' = [svc EXCEPT ![s] = o[1]]
    PROVE  \A t \in Services : Admissible(t)
PROOF
<1> DEFINE f == Freed(x)
<1>1. TypeOK /\ resv[s] \in Policy /\ ~kids[s] /\ f \in Entry /\ f.policy = x.policy
  BY FreedFacts DEF IInv, TypeOK, Gone
<1>2. CASE o[2] = "none"
  <2>1. leader' = [leader EXCEPT ![s] = "none"]
    BY <1>2 DEF Launched, LeaderAfter
  <2> QED BY <1>1, <2>1 DEF Admissible, LaunchesNothing, TypeOK
<1>3. ASSUME NEW r \in StartOutcomes(s, x, pkg), o = <<Replaced(s, f, r), r>>
      PROVE  \A t \in Services : Admissible(t)
  <2> DEFINE z == Started(s, f, r)
             y == CASE r = "ok" -> z
                    [] r = "stale" -> [z EXCEPT !.state = "stale"]
                    [] OTHER -> [z EXCEPT !.session = FALSE, !.state = IdleState(f)]
  <2>1. svc' = [svc EXCEPT ![s] = y] /\ Launched(s, x, r)
    BY <1>3 DEF Replaced
  <2> HIDE DEF f
  <2>2. /\ z \in Entry
        /\ r = "ok" => z.active = x.policy
        /\ r = "unrecorded" => z.reason = "intentional"
    <3>1. z \in Entry
      BY <1>1, StartedType
    <3>2. CASE r \in {"ok", "unrecorded"}
      BY <1>1, <3>2, StartedFields
    <3>3. CASE r \notin {"ok", "unrecorded"}
      BY <3>1, <3>3
    <3> QED BY <3>2, <3>3
  <2> HIDE DEF z
  <2>3. r = "ok" => y.active = x.policy
    BY <2>2
  <2>4. r = "unrecorded" => y.reason = "intentional"
    BY <2>2 DEF Entry
  <2> HIDE DEF y
  <2>5. TypeOK /\ ~kids[s] /\ r \in StartOutcomes(s, x, pkg)
    BY <1>1
  <2> QED BY <2>1, <2>3, <2>4, <2>5, AttemptedEntry
<1>4. o[2] = "none" \/ \E r \in StartOutcomes(s, x, pkg) : o = <<Replaced(s, f, r), r>>
  BY DEF ReleaseOutcomes
<1> QED BY <1>2, <1>3, <1>4

LEMMA TickReleaseAttempts ==
    ASSUME IInv, NEW s \in Services, Release(s) \/ LeaderExitObserved(s)
    PROVE  \A t \in Services : Admissible(t)
PROOF
<1>1. svc[s] \in Entry
  BY DEF IInv, TypeOK
<1>2. CASE Release(s)
  BY <1>1, <1>2, ReleaseAttempt DEF Release
<1>3. CASE LeaderExitObserved(s)
  <2>1. PICK failed \in BOOLEAN : \E x \in ExitRecorded(svc[s], failed) :
          \/ UNCHANGED <<group, stopped>>
          \/ /\ Gone(s)
             /\ \E o \in ReleaseOutcomes(s, x) :
                   svc' = [svc EXCEPT ![s] = o[1]] /\ Launched(s, x, o[2])
    BY <1>3 DEF LeaderExitObserved
  <2>2. PICK x \in ExitRecorded(svc[s], failed) :
          \/ UNCHANGED <<group, stopped>>
          \/ /\ Gone(s)
             /\ \E o \in ReleaseOutcomes(s, x) :
                   svc' = [svc EXCEPT ![s] = o[1]] /\ Launched(s, x, o[2])
    BY <2>1
  <2>3. x \in Entry
    BY <1>1, ExitRecordedFacts
  <2>4. CASE UNCHANGED <<group, stopped>>
    BY <2>4 DEF group, Admissible, LaunchesNothing
  <2> QED BY <2>2, <2>3, <2>4, ReleaseAttempt
<1> QED BY <1>2, <1>3

\* The starts that end a package transaction: no group is left behind the barrier.
LEMMA PackageEndAttempts ==
    ASSUME IInv, PackageEnd
    PROVE  \A s \in Services : Admissible(s)
PROOF
<1>1. /\ pkg /\ TypeOK
      /\ \A s \in Services : svc[s].blocked => ~svc[s].owned
  BY DEF PackageEnd, IInv
<1>2. PICK disk \in Disks, lost \in Losses :
        LET found == Scanned(svc, disk, lost)
            free  == [s \in Services |-> Unquiesced(found[s])]
        IN  \E r \in [Services -> {"none", "ok", "stale", "failed",
                                   "unrecorded", "unreaped"}] :
               /\ \A s \in Services : r[s] \in RestoreOutcomes(s, free[s])
               /\ svc' = [s \in Services |-> Restored(s, free[s], r[s])]
               /\ leader' = [s \in Services |->
                               IF r[s] = "none" THEN leader[s] ELSE LeaderAfter(r[s])]
  BY DEF PackageEnd
<1> DEFINE found == Scanned(svc, disk, lost)
           free  == [s \in Services |-> Unquiesced(found[s])]
<1>3. PICK r \in [Services -> {"none", "ok", "stale", "failed", "unrecorded", "unreaped"}] :
               /\ \A s \in Services : r[s] \in RestoreOutcomes(s, free[s])
               /\ svc' = [s \in Services |-> Restored(s, free[s], r[s])]
               /\ leader' = [s \in Services |->
                               IF r[s] = "none" THEN leader[s] ELSE LeaderAfter(r[s])]
  BY <1>2
<1>4. ASSUME NEW s \in Services
      PROVE  free[s] \in Entry /\ ~kids[s] /\ resv[s] \in Policy
  <2>1. svc[s] \in Entry /\ EntryInv(s) /\ ~svc[s].owned /\ resv[s] \in Policy
    BY <1>1 DEF IInv, EntryInv, Behind, TypeOK
  <2>2. ~svc[s].restartAfter /\ ~kids[s]
    BY <2>1 DEF EntryInv, Linked
  <2>3. found[s] \in Entry
    BY <1>1, <2>2, ScannedFacts DEF TypeOK
  <2>4. free[s] = Unquiesced(found[s])
    OBVIOUS
  <2> HIDE DEF found, free
  <2> QED BY <2>1, <2>2, <2>3, <2>4, UnquiescedFacts
<1> HIDE DEF found, free
<1>5. ASSUME NEW s \in Services
      PROVE  Admissible(s)
  <2> DEFINE x == free[s]
             o == r[s]
             w == [x EXCEPT !.fails = 0, !.breaker = FALSE]
             z == Started(s, w, o)
  <2>1. /\ x \in Entry /\ ~kids[s] /\ resv[s] \in Policy
        /\ svc'[s] = Restored(s, x, o)
        /\ leader'[s] = IF o = "none" THEN leader[s] ELSE LeaderAfter(o)
        /\ o = "none" \/ o \in StartOutcomes(s, x, FALSE)
    BY <1>3, <1>4 DEF RestoreOutcomes
  <2> HIDE DEF x, o
  <2>2. w \in Entry /\ w.policy = x.policy
    BY <2>1, NoFailures DEF Entry
  <2> HIDE DEF w
  <2>3. /\ o = "ok" => z.active = x.policy
        /\ o = "unrecorded" => z.reason = "intentional"
    BY <2>1, <2>2, StartedFields
  <2>4. o \in {"ok", "unrecorded"} => svc'[s] = z
    BY <2>1 DEF Restored, w
  <2> HIDE DEF z
  <2>5. CASE o = "none"
    BY <2>1, <2>5 DEF Admissible, LaunchesNothing
  <2>6. CASE o # "none"
    <3>1. Attempted(s, x, FALSE, o)
      BY <2>1, <2>3, <2>4, <2>6 DEF Attempted
    <3> QED BY <3>1 DEF Admissible
  <2> QED BY <2>5, <2>6
<1> QED BY <1>5

\* A blocking stop leaves no group with a live leader it did not have.
LEMMA StopsLaunchNothing ==
    ASSUME NEW T, NEW out, GroupsStopped(T, out)
    PROVE  \A s \in Services : Admissible(s)
PROOF
<1>1. ASSUME NEW s \in Services
      PROVE  LaunchesNothing(s)
  BY DEF GroupsStopped, LaunchesNothing
<1> QED BY <1>1 DEF Admissible

\* Every step of the system launches under the gates, or launches nothing.
LEMMA NextAdmissible ==
    ASSUME IInv, [Next]_vars
    PROVE  \A s \in Services : Admissible(s)
PROOF
<1>1. UNCHANGED leader => \A s \in Services : Admissible(s)
  BY DEF Admissible, LaunchesNothing
<1>2. CASE DaemonStart \/ Rescan
  BY <1>1, <1>2 DEF DaemonStart, Rescan, group
<1>3. CASE Crash \/ Shutdown
  <2>1. leader' = [s \in Services |-> "none"]
    BY <1>3 DEF Crash, Shutdown, DaemonGone
  <2> QED BY <2>1 DEF Admissible, LaunchesNothing
<1>4. ASSUME NEW s \in Services, UserStep(s)
      PROVE  \A t \in Services : Admissible(t)
  <2>1. CASE Enable(s) \/ Disable(s) \/ Stop(s)
    BY <1>1, <2>1 DEF Enable, Disable, Stop, group
  <2> QED BY <1>4, <2>1, RequestAttempts DEF UserStep
<1>5. ASSUME NEW s \in Services, TickStep(s)
      PROVE  \A t \in Services : Admissible(t)
  <2>1. CASE NoExitFound(s) \/ Settle(s) \/ Escalate(s) \/ StopUnverified(s)
               \/ StaleCleared(s) \/ PassDone(s)
    BY <1>1, <2>1 DEF NoExitFound, Settle, Escalate, StopUnverified, StaleCleared,
                      PassDone, group
  <2> QED BY <1>5, <2>1, PhaseAttempts, TickReleaseAttempts DEF TickStep
<1>6. ASSUME NEW s \in Services, ProcessStep(s)
      PROVE  \A t \in Services : Admissible(t)
  <2>1. \/ UNCHANGED leader
        \/ leader' = [leader EXCEPT ![s] = "zombie"]
    BY <1>6 DEF ProcessStep, LeaderExits, Fork, DescendantsExit, Escape, StrayExits
  <2> QED BY <1>1, <2>1 DEF Admissible, LaunchesNothing, IInv, TypeOK
<1>7. CASE NoteChildExit \/ CardMoves \/ GameBegin \/ GameFinish
  BY <1>1, <1>7 DEF NoteChildExit, CardMoves, GameBegin, GameFinish, group
<1>8. CASE PackageBegin \/ \E s \in Services : GameStopService(s)
  BY <1>8, StopsLaunchNothing DEF PackageBegin, GameStopService
<1>9. CASE Suspend \/ SafeUnmount \/ StorageTick
  <2>1. \/ UNCHANGED group
        \/ \E t, fires, out, scans : LifecycleStop(t, fires, out, scans)
    BY <1>9 DEF Suspend, SafeUnmount, StorageTick
  <2>2. ASSUME NEW t, NEW fires, NEW out, NEW scans, LifecycleStop(t, fires, out, scans)
        PROVE  \A s \in Services : Admissible(s)
    BY <2>2, StopsLaunchNothing DEF LifecycleStop
  <2> QED BY <1>1, <2>1, <2>2 DEF group
<1>10. CASE UNCHANGED vars
  BY <1>1, <1>10 DEF vars, group
<1> QED BY <1>2, <1>3, <1>4, <1>5, <1>6, <1>7, <1>8, <1>9, <1>10, PackageEndAttempts
        DEF Next, BarrierStep

-----------------------------------------------------------------------------
(* What no step may launch *)

\* For every number of services, every policy and every interleaving: a
\* generation is launched only when the previous one left no process in its
\* group and no holder of its lease.
THEOREM NeverOverlapping == Spec => NoOverlap
PROOF
<1>1. IInv /\ [Next]_vars => [\A s \in Services :
          Launches(s) => stray[s] = "none" /\ ~kids[s]]_vars
  BY NextAdmissible, AttemptedFacts
<1> QED BY Invariance, <1>1, PTL DEF Spec, NoOverlap

\* For every number of services: whatever path launches a service while a game
\* runs, the policy the new generation reserved ignores games.
THEOREM GamesAreBarred == Spec => GameBarrier
PROOF
<1>1. IInv /\ [Next]_vars => [\A s \in Services :
          game /\ Starts(s) => svc'[s].active.game = "ignore"]_vars
  <2> SUFFICES ASSUME IInv, [Next]_vars, NEW s \in Services, game, Starts(s)
               PROVE  svc'[s].active.game = "ignore"
    OBVIOUS
  <2> QED BY NextAdmissible, AttemptedFacts DEF Starts
<1> QED BY Invariance, <1>1, PTL DEF Spec, GameBarrier

-----------------------------------------------------------------------------
(* One generation: the inductive invariant says whose group the daemon     *)
(* holds before and after a step, NextAdmissible what the step may launch, *)
(* and the one fact left to show is where descendants and lease holders    *)
(* come from.                                                              *)

\* Where the descendants and the lease holders of a service come from while
\* the daemon keeps running: from a live group, by a step of that group.
Origins(s) ==
    /\ kids'[s] => kids[s] \/ leader[s] = "live"
    /\ stray[s] = "none" /\ stray'[s] # "none" =>
          /\ leader[s] = "live" \/ kids[s]
          /\ UNCHANGED <<svc, leader, kids>>

\* No process appears from nowhere, and the daemon starts only by DaemonStart.
LEMMA NextOrigins ==
    ASSUME IInv, [Next]_vars
    PROVE  \/ Crash \/ Shutdown \/ DaemonStart
           \/ up' = up /\ \A s \in Services : Origins(s)
PROOF
<1>1. UNCHANGED <<kids, stray>> => \A s \in Services : Origins(s)
  BY DEF Origins
<1>2. ASSUME NEW T, NEW out, GroupsStopped(T, out), stray' = stray
      PROVE  \A s \in Services : Origins(s)
  BY <1>2 DEF GroupsStopped, Origins
<1>3. ASSUME NEW s \in Services, UserStep(s)
      PROVE  UNCHANGED <<kids, stray, up>>
  BY <1>3 DEF UserStep, Enable, Disable, Run, Stop, Restart, Launched, group, loop
<1>4. ASSUME NEW s \in Services, TickStep(s)
      PROVE  UNCHANGED <<kids, stray, up>>
  <2>1. CASE LeaderExitObserved(s) \/ Release(s)
    BY <2>1 DEF LeaderExitObserved, Release, Launched, group, loop
  <2>2. CASE GameResume(s) \/ LifecycleResume(s)
    BY <2>2 DEF GameResume, LifecycleResume, Resume, Launched, group, loop
  <2>3. CASE BackoffRetry(s) \/ StaleRetry(s) \/ Autostart(s)
    BY <2>3 DEF BackoffRetry, StaleRetry, Autostart, Launched
  <2>4. CASE NoExitFound(s) \/ Settle(s) \/ Escalate(s) \/ StopUnverified(s)
                \/ StaleCleared(s) \/ PassDone(s)
    BY <2>4 DEF NoExitFound, Settle, Escalate, StopUnverified, StaleCleared, PassDone,
                group, loop
  <2> QED BY <1>4, <2>1, <2>2, <2>3, <2>4 DEF TickStep
<1>5. ASSUME NEW s \in Services, ProcessStep(s)
      PROVE  up' = up /\ \A t \in Services : Origins(t)
  <2>1. TypeOK /\ UNCHANGED <<svc, up>>
    BY <1>5 DEF IInv, ProcessStep, LeaderExits, Fork, DescendantsExit, Escape, StrayExits, loop
  <2>2. CASE LeaderExits(s)
    BY <1>1, <2>1, <2>2 DEF LeaderExits
  <2>3. CASE Fork(s) \/ DescendantsExit(s)
    BY <2>1, <2>3 DEF Fork, DescendantsExit, Origins, TypeOK
  <2>4. CASE Escape(s) \/ StrayExits(s)
    BY <2>1, <2>4 DEF Escape, StrayExits, Origins, Gone, TypeOK
  <2> QED BY <1>5, <2>1, <2>2, <2>3, <2>4 DEF ProcessStep
<1>6. CASE NoteChildExit \/ CardMoves \/ GameBegin \/ GameFinish \/ Rescan
  BY <1>1, <1>6 DEF NoteChildExit, CardMoves, GameBegin, GameFinish, Rescan, group, loop
<1>7. CASE PackageBegin \/ \E s \in Services : GameStopService(s)
  BY <1>2, <1>7 DEF PackageBegin, GameStopService, loop
<1>8. CASE PackageEnd
  BY <1>1, <1>8 DEF PackageEnd, loop
<1>9. CASE Suspend \/ SafeUnmount \/ StorageTick
  <2>1. up' = up
    BY <1>9 DEF Suspend, SafeUnmount, StorageTick, loop
  <2>2. \/ UNCHANGED group
        \/ \E t, fires, out, scans : LifecycleStop(t, fires, out, scans)
    BY <1>9 DEF Suspend, SafeUnmount, StorageTick
  <2>3. ASSUME NEW t, NEW fires, NEW out, NEW scans, LifecycleStop(t, fires, out, scans)
        PROVE  \A s \in Services : Origins(s)
    BY <1>2, <2>3 DEF LifecycleStop
  <2> QED BY <1>1, <2>1, <2>2, <2>3 DEF group
<1>10. CASE UNCHANGED vars
  BY <1>1, <1>10 DEF vars, group, loop
<1> QED BY <1>1, <1>3, <1>4, <1>5, <1>6, <1>7, <1>8, <1>9, <1>10, SMTT(30) DEF Next, BarrierStep

-----------------------------------------------------------------------------
(* Each step is a step of the abstract specification *)

\* The refinement mapping.
Held    == {s \in Services : svc[s].owned}
Groups0 == {s \in Services : leader[s] = "live" \/ kids[s]}
Holders == {s \in Services : stray[s] # "none"}

LEMMA MapsInit == Init => Generation!Init
PROOF BY DEF Init, Generation!Init, Unlisted, LoadControl

\* While the daemon runs, or while it is down and only survivors exit.
LEMMA MapsServe ==
    ASSUME IInv, IInv', [Next]_vars, up' = up, \A s \in Services : Origins(s)
    PROVE  Generation!Serve
PROOF
<1>1. permit' => up /\ Held' = {}
  BY DEF IInv, EntryInv, Held
<1>2. ASSUME NEW s \in Services
      PROVE  Generation!Launch(s) \/ Generation!Ends(s) \/ Generation!Detach(s)
  <2>1. /\ Origins(s) /\ Linked(svc[s], leader[s], kids[s])
        /\ Linked(svc'[s], leader'[s], kids'[s])
        /\ Launches(s) => stray[s] = "none" /\ ~kids[s]
    BY NextAdmissible, AttemptedFacts DEF IInv, EntryInv
  <2>2. CASE s \in Groups0' /\ s \notin Groups0
    <3>1. Launches(s)
      BY <2>1, <2>2 DEF Groups0, Origins, Launches
    <3>2. s \notin Holders /\ s \notin Holders' /\ s \in Held'
      BY <2>1, <2>2, <3>1 DEF Groups0, Origins, Holders, Held, Linked, Launches
    <3> QED BY <2>2, <3>2 DEF Generation!Launch, Groups0, Holders, Held
  <2>3. CASE s \in Holders' /\ s \notin Holders
    <3>1. s \in Groups0 /\ s \in Groups0' /\ s \in Held /\ s \in Held'
      BY <2>1, <2>3 DEF Groups0, Holders, Held, Origins, Linked
    <3> QED BY <2>3, <3>1 DEF Generation!Detach, Groups0, Holders, Held
  <2>4. CASE /\ s \in Groups0' => s \in Groups0
             /\ s \in Holders' => s \in Holders
    <3>1. s \in Held /\ s \notin Held' => s \notin Groups0'
      BY <2>1 DEF Held, Groups0, Linked
    <3> QED BY <2>4, <3>1 DEF Generation!Ends, Groups0, Holders, Held
  <2> QED BY <2>2, <2>3, <2>4
<1> QED BY <1>1, <1>2 DEF Generation!Serve, Held

LEMMA MapsOpen ==
    ASSUME IInv, DaemonStart, IInv'
    PROVE  Generation!Open
PROOF
<1>1. ~up /\ up' /\ UNCHANGED <<leader, kids, stray, permit>>
  BY DEF DaemonStart, group
<1>2. \A s \in Services : svc'[s].owned <=> svc[s].owned
  BY <1>1 DEF IInv, EntryInv, Linked
<1> QED BY <1>1, <1>2 DEF Generation!Open

LEMMA MapsClose ==
    ASSUME IInv, Crash \/ Shutdown
    PROVE  Generation!Close
PROOF
<1>1. up /\ \E T : DaemonGone(T)
  BY DEF Crash, Shutdown, Ready
<1>2. PICK T : DaemonGone(T)
  BY <1>1
<1>3. ~up' /\ ~permit' /\ Held' = {} /\ Groups0' = {}
  BY <1>2 DEF DaemonGone, Held, Groups0, Unlisted, LoadControl
<1>4. Holders \subseteq Holders' /\ Holders' \subseteq Holders \cup Groups0
  BY <1>2 DEF DaemonGone, Holders, Groups0, Gone
<1> QED BY <1>1, <1>3, <1>4 DEF Generation!Close, Held, Groups0, Holders

\* For every set of services, policies and faults: the supervisor's launches,
\* stops, barriers, crashes and restarts implement the abstract generations of
\* SVC-1, of which a service never has two.
THEOREM SupervisorImplementsGenerations == Spec => SingleGeneration
PROOF
<1>1. IInv /\ IInv' /\ [Next]_vars => [Generation!Next]_Generation!generationVars
  BY NextOrigins, MapsServe, MapsOpen, MapsClose DEF Generation!Next
<1> QED BY MapsInit, Invariance, <1>1, PTL DEF Spec, SingleGeneration, Generation!Spec

-----------------------------------------------------------------------------
(* Stops: the invariant is that a stop leaves nothing behind that would    *)
(* start the service: no latch of a barrier, no startup enablement, no     *)
(* retry, and no replacement but the one a Restart asked for, which is a   *)
(* session Run.                                                            *)

\* The entry of a service that the user stopped.
Quiet(x) ==
    /\ ~x.lifecycle /\ ~x.gameLatch /\ ~x.autostart
    /\ x.state # "backoff"
    /\ x.owned => Deliberate(x.reason)
    /\ x.restartAfter => x.session

StopsKept == \A s \in Services : stopped[s] => up /\ Quiet(svc[s])

\* A step leaves the entry quiet, and starts the service only as the property
\* allows.
Honours(s) ==
    /\ stopped'[s] => up' /\ Quiet(svc'[s])
    /\ Starts(s) /\ stopped[s] => svc'[s].session \/ pkg \/ svc[s].state = "stale"

\* What the invariant of SvcSupervisor says of one entry.
LEMMA EntryFacts ==
    ASSUME IInv, NEW s \in Services
    PROVE  /\ svc[s] \in Entry /\ resv[s] \in Policy /\ stopped[s] \in BOOLEAN
           /\ svc[s].restartAfter => svc[s].owned
PROOF BY DEF IInv, TypeOK, EntryInv, Linked

\* A step on one service.
LEMMA OneHonours ==
    ASSUME StopsKept, up' = up, NEW s \in Services, Honours(s),
           \A t \in Services \ {s} :
              svc'[t] = svc[t] /\ leader'[t] = leader[t] /\ stopped'[t] = stopped[t]
    PROVE  \A t \in Services : Honours(t)
PROOF
<1>1. ASSUME NEW t \in Services, t # s
      PROVE  Honours(t)
  BY <1>1 DEF StopsKept, Honours, Starts, Launches
<1> QED BY <1>1

\* A step without a launch.
LEMMA NoLaunchHonours ==
    ASSUME NEW s \in Services, leader'[s] = "live" => leader[s] = "live",
           stopped'[s] => up' /\ Quiet(svc'[s])
    PROVE  Honours(s)
PROOF BY DEF Honours, Starts, Launches

\* A launch attempt that came to r for the entry x, which is then z: a success
\* ends the stop, a refused attempt leaves the entry as it was.
Attempt(s, x, z, r) ==
    /\ r \in {"ok", "unrecorded", "unreaped", "stale", "failed"}
    /\ z \in Entry /\ z.session = x.session
    /\ stopped'[s] => stopped[s] /\ r \in {"stale", "failed"}
    /\ r \in {"stale", "failed"} =>
          /\ leader'[s] = "none" /\ z.restartAfter = x.restartAfter
          /\ Quiet(x) => Quiet(z)
    /\ r # "ok" /\ leader'[s] = "live" => z.reason # "none"
    /\ \A t \in Services \ {s} : leader'[t] = leader[t] /\ stopped'[t] = stopped[t]

\* Every launch attempt is one of these.
LEMMA AttemptFacts ==
    ASSUME IInv, NEW s \in Services, NEW w, NEW x \in Entry, NEW quiesced,
           NEW r \in StartOutcomes(s, w, quiesced), Launched(s, x, r)
    PROVE  Attempt(s, x, Started(s, x, r), r)
PROOF
<1>1. r \in {"ok", "unrecorded", "unreaped", "stale", "failed"}
  BY DEF StartOutcomes
<1>2. Started(s, x, r) \in Entry
  BY EntryFacts, StartedType
<1>3. /\ leader' = [leader EXCEPT ![s] = LeaderAfter(r)]
      /\ stopped' = [stopped EXCEPT ![s] = @ /\ LeaderAfter(r) = "none"]
      /\ leader \in [Services -> {"none", "live", "zombie"}]
      /\ stopped \in [Services -> BOOLEAN]
  BY DEF Launched, IInv, TypeOK
<1>4. Started(s, x, r).session = x.session
  BY <1>1 DEF Started, Entry
<1>5. stopped'[s] => stopped[s] /\ r \in {"stale", "failed"}
  BY <1>1, <1>3 DEF LeaderAfter
<1>6. r \in {"stale", "failed"} => leader'[s] = "none"
  BY <1>3 DEF LeaderAfter
<1>7. ASSUME r \in {"stale", "failed"}
      PROVE  /\ Quiet(x) => Quiet(Started(s, x, r))
             /\ Started(s, x, r).restartAfter = x.restartAfter
  BY <1>7 DEF Started, Quiet, Entry
<1>8. r # "ok" /\ leader'[s] = "live" => Started(s, x, r).reason # "none"
  BY <1>1, <1>3 DEF LeaderAfter, Started, Entry
<1>9. \A t \in Services \ {s} : leader'[t] = leader[t] /\ stopped'[t] = stopped[t]
  BY <1>3
<1> QED BY <1>1, <1>2, <1>4, <1>5, <1>6, <1>7, <1>8, <1>9 DEF Attempt

-----------------------------------------------------------------------------
(* The requests *)

\* A stop leaves the entry quiet; only a session Run or Restart starts it again.
LEMMA UserHonours ==
    ASSUME IInv, StopsKept, NEW s \in Services, UserStep(s)
    PROVE  \A t \in Services : Honours(t)
PROOF
<1>1. up /\ up' = up /\ svc \in [Services -> Entry] /\ stopped \in [Services -> BOOLEAN]
  BY DEF UserStep, Enable, Disable, Run, Stop, Restart, Request, Ready, loop, IInv, TypeOK
<1> DEFINE x == svc[s]
<1>2. x \in Entry /\ (x.restartAfter => x.owned) /\ (stopped[s] => Quiet(x))
  BY EntryFacts DEF StopsKept
<1>3. CASE Enable(s)
  <2>1. svc'[s] = [x EXCEPT !.desired = TRUE] /\ leader'[s] = leader[s] /\ stopped' = stopped
    BY <1>1, <1>3 DEF Enable, group
  <2>2. stopped'[s] => Quiet(svc'[s])
    <3> HIDE DEF x
    <3> QED BY <1>2, <2>1 DEF Quiet, Entry
  <2>3. Honours(s)
    BY <1>1, <2>1, <2>2, NoLaunchHonours
  <2> QED BY <1>1, <1>3, <2>3, OneHonours DEF Enable, group
<1>4. CASE Disable(s)
  <2>1. svc'[s] = Disabled(x) /\ leader'[s] = leader[s]
    BY <1>1, <1>4 DEF Disable, group
  <2>2. Quiet(Disabled(x))
    <3> HIDE DEF x
    <3> QED BY <1>2 DEF Disabled, AsyncStopping, Quiet, Entry, Deliberate, IdleState
  <2>3. Honours(s)
    BY <1>1, <2>1, <2>2, NoLaunchHonours
  <2> QED BY <1>1, <1>4, <2>3, OneHonours DEF Disable, group
<1>5. CASE Stop(s)
  <2> DEFINE y == AsyncStopping([x EXCEPT !.lifecycle = FALSE, !.gameLatch = FALSE,
                                          !.session = FALSE], "intentional", FALSE)
  <2>1. svc'[s] = y /\ leader'[s] = leader[s] /\ x.owned
    BY <1>1, <1>5 DEF Stop, group
  <2>2. Quiet(y)
    <3> HIDE DEF x
    <3> QED BY <1>2, <2>1 DEF AsyncStopping, Quiet, Entry, Deliberate
  <2>3. Honours(s)
    BY <1>1, <2>1, <2>2, NoLaunchHonours
  <2> QED BY <1>1, <1>5, <2>3, OneHonours DEF Stop, group
<1>6. CASE Run(s)
  <2> DEFINE y == [x EXCEPT !.lifecycle = FALSE, !.fails = 0, !.breaker = FALSE]
  <2>1. ~x.owned
    BY <1>6 DEF Run
  <2>2. y \in Entry /\ ~y.restartAfter /\ (stopped[s] => Quiet(y))
    <3> HIDE DEF x
    <3> QED BY <1>2, <2>1, NoFailures DEF Entry, Quiet
  <2> HIDE DEF y
  <2>3. PICK r \in StartOutcomes(s, y, FALSE) :
          /\ Launched(s, y, r)
          /\ \E v \in BOOLEAN : svc' = [svc EXCEPT ![s] =
               CASE r = "ok"    -> [Started(s, y, r) EXCEPT !.session = TRUE]
                 [] r = "stale" -> [Started(s, y, r) EXCEPT !.session = v, !.state = "stale"]
                 [] OTHER       -> Started(s, y, r)]
    BY <1>6 DEF Run, y
  <2> DEFINE z == Started(s, y, r)
  <2>4. PICK v \in BOOLEAN : svc'[s] =
               CASE r = "ok"    -> [z EXCEPT !.session = TRUE]
                 [] r = "stale" -> [z EXCEPT !.session = v, !.state = "stale"]
                 [] OTHER       -> z
    BY <1>1, <2>3
  <2>5. Attempt(s, y, z, r)
    BY <2>2, <2>3, AttemptFacts
  <2> HIDE DEF z, x
  <2>6. stopped'[s] => Quiet(svc'[s])
    BY <2>2, <2>4, <2>5 DEF Attempt, Quiet, Entry
  <2>7. leader'[s] = "live" => svc'[s].session \/ svc'[s].reason # "none"
    BY <2>4, <2>5 DEF Attempt, Entry
  <2>8. Honours(s)
    BY <1>1, <2>6, <2>7 DEF Honours, Starts, Launches
  <2>9. \A t \in Services \ {s} : svc'[t] = svc[t]
    BY <1>1, <2>3
  <2> QED BY <1>1, <2>5, <2>8, <2>9, OneHonours DEF Attempt
<1>7. CASE Restart(s)
  <2> DEFINE y == [x EXCEPT !.lifecycle = FALSE, !.fails = 0, !.breaker = FALSE,
                            !.session = TRUE]
  <2>1. y \in Entry /\ y.owned = x.owned /\ y.restartAfter = x.restartAfter /\ y.session
        /\ (stopped[s] => Quiet(y))
    <3> HIDE DEF x
    <3> QED BY <1>2, NoFailures DEF Entry, Quiet
  <2> HIDE DEF y
  <2>2. CASE x.owned
    <3>1. svc'[s] = AsyncStopping(y, "intentional", TRUE) /\ UNCHANGED <<group, stopped>>
      BY <1>1, <1>7, <2>2 DEF Restart, y
    <3>2. stopped'[s] => Quiet(svc'[s])
      BY <2>1, <2>2, <3>1 DEF AsyncStopping, Quiet, Entry, Deliberate
    <3>3. Honours(s)
      BY <1>1, <3>1, <3>2, NoLaunchHonours DEF group
    <3> QED BY <1>1, <1>7, <3>1, <3>3, OneHonours DEF Restart, group
  <2>3. CASE ~x.owned
    <3>1. PICK r \in StartOutcomes(s, y, FALSE) :
            /\ Launched(s, y, r)
            /\ svc' = [svc EXCEPT ![s] =
                 CASE r = "ok"    -> Started(s, y, r)
                   [] r = "stale" -> [Started(s, y, r) EXCEPT !.state = "stale"]
                   [] OTHER       -> [Started(s, y, r) EXCEPT !.session = x.session]]
      BY <1>7, <2>3 DEF Restart, y
    <3> DEFINE z == Started(s, y, r)
    <3>2. Attempt(s, y, z, r)
      BY <2>1, <3>1, AttemptFacts
    <3>3. svc'[s] = CASE r = "ok"    -> z
                      [] r = "stale" -> [z EXCEPT !.state = "stale"]
                      [] OTHER       -> [z EXCEPT !.session = x.session]
      BY <1>1, <3>1
    <3>4. ~y.restartAfter
      BY <1>2, <2>1, <2>3
    <3> HIDE DEF z, x
    <3>5. stopped'[s] => Quiet(svc'[s])
      BY <2>1, <3>2, <3>3, <3>4 DEF Attempt, Quiet, Entry
    <3>6. leader'[s] = "live" => svc'[s].session \/ svc'[s].reason # "none"
      BY <2>1, <3>2, <3>3 DEF Attempt, Entry
    <3>7. Honours(s)
      BY <1>1, <3>5, <3>6 DEF Honours, Starts, Launches
    <3>8. \A t \in Services \ {s} : svc'[t] = svc[t]
      BY <1>1, <3>1
    <3> QED BY <1>1, <3>2, <3>7, <3>8, OneHonours DEF Attempt
  <2> QED BY <2>2, <2>3
<1> QED BY <1>3, <1>4, <1>5, <1>6, <1>7 DEF UserStep

-----------------------------------------------------------------------------
(* The tick *)

\* What follows a verified release: the replacement, if a Restart asked for it.
LEMMA ReleaseHonours ==
    ASSUME IInv, StopsKept, up, up' = up, NEW s \in Services, NEW x \in Entry, x.owned,
           stopped[s] => Quiet(x), NEW o \in ReleaseOutcomes(s, x),
           svc' = [svc EXCEPT ![s] = o[1]], Launched(s, x, o[2])
    PROVE  \A t \in Services : Honours(t)
PROOF
<1> DEFINE f == Freed(x)
<1>1. f \in Entry /\ ~f.owned /\ ~f.restartAfter /\ f.session = x.session
      /\ (Quiet(x) => Quiet(f))
  <2>1. f \in Entry /\ ~f.owned /\ ~f.restartAfter
    BY FreedFacts
  <2>2. /\ f.session = x.session /\ f.lifecycle = x.lifecycle
        /\ f.gameLatch = x.gameLatch /\ f.autostart = x.autostart
    BY DEF Freed, Entry
  <2>3. f.state = "backoff" => x.state = "backoff"
    BY DEF Freed, Entry, IdleState
  <2> HIDE DEF f
  <2> QED BY <2>1, <2>2, <2>3 DEF Quiet
<1>2. /\ svc \in [Services -> Entry] /\ stopped \in [Services -> BOOLEAN]
      /\ leader \in [Services -> {"none", "live", "zombie"}]
      /\ svc'[s] = o[1] /\ \A t \in Services \ {s} : svc'[t] = svc[t]
  BY DEF IInv, TypeOK
<1>3. CASE o[2] = "none"
  <2>1. o[1] = f \/ o[1] = [f EXCEPT !.state = IdleState(x)]
    BY <1>3 DEF ReleaseOutcomes, StartOutcomes
  <2>2. /\ \A t \in Services \ {s} : leader'[t] = leader[t] /\ stopped'[t] = stopped[t]
        /\ leader'[s] = "none" /\ (stopped'[s] => stopped[s])
    BY <1>2, <1>3 DEF Launched, LeaderAfter
  <2> HIDE DEF f
  <2>3. stopped'[s] => Quiet(svc'[s])
    BY <1>1, <1>2, <2>1, <2>2 DEF Quiet, Entry, IdleState
  <2>4. Honours(s)
    BY <2>2, <2>3, NoLaunchHonours
  <2> QED BY <1>2, <2>2, <2>4, OneHonours
<1>4. CASE o[2] # "none"
  <2> DEFINE r == o[2]
             z == Started(s, f, r)
  <2>1. x.restartAfter /\ r \in StartOutcomes(s, x, pkg)
        /\ o[1] = CASE r = "ok"    -> z
                    [] r = "stale" -> [z EXCEPT !.state = "stale"]
                    [] OTHER       -> [z EXCEPT !.session = FALSE, !.state = IdleState(f)]
    <3>1. x.restartAfter /\ Available(x)
      BY <1>4 DEF ReleaseOutcomes
    <3>2. PICK u \in StartOutcomes(s, x, pkg) : o = <<Replaced(s, Freed(x), u), u>>
      BY <3>1 DEF ReleaseOutcomes
    <3>3. u = r /\ o[1] = Replaced(s, Freed(x), r)
      BY <3>2
    <3> QED BY <3>1, <3>2, <3>3 DEF Replaced
  <2>2. Launched(s, f, r)
    BY <1>1 DEF Launched, Freed, Entry
  <2> HIDE DEF f, z, r
  <2>3. Attempt(s, f, z, r)
    BY <1>1, <2>1, <2>2, AttemptFacts DEF z
  <2>4. stopped'[s] => Quiet(svc'[s])
    BY <1>1, <1>2, <2>1, <2>3 DEF Attempt, Quiet, Entry, IdleState
  <2>5. stopped[s] /\ leader'[s] = "live" => svc'[s].session \/ svc'[s].reason # "none"
    BY <1>1, <1>2, <2>1, <2>3 DEF Attempt, Quiet, Entry
  <2>6. Honours(s)
    BY <2>4, <2>5 DEF Honours, Starts, Launches
  <2> QED BY <1>2, <2>3, <2>6, OneHonours DEF Attempt
<1> QED BY <1>3, <1>4

\* The exit of a leader that the user stopped is deliberate: it is not a failure.
LEMMA ExitHonours ==
    ASSUME IInv, StopsKept, NEW s \in Services, LeaderExitObserved(s)
    PROVE  \A t \in Services : Honours(t)
PROOF
<1>1. /\ up /\ up' = up /\ svc[s] \in Entry /\ svc \in [Services -> Entry] /\ svc[s].owned
      /\ leader \in [Services -> {"none", "live", "zombie"}]
  BY DEF LeaderExitObserved, Ready, ExitDue, IInv, TypeOK
<1>2. PICK failed \in BOOLEAN : \E x \in ExitRecorded(svc[s], failed) :
        \/ /\ svc' = [svc EXCEPT ![s] = LeftBehind(x)]
           /\ UNCHANGED <<group, stopped>>
        \/ /\ svc' = [svc EXCEPT ![s] = [x EXCEPT !.state = "stopping", !.reapPending = TRUE]]
           /\ UNCHANGED <<group, stopped>>
        \/ \E o \in ReleaseOutcomes(s, x) : svc' = [svc EXCEPT ![s] = o[1]] /\ Launched(s, x, o[2])
  BY DEF LeaderExitObserved
<1>0. PICK x \in ExitRecorded(svc[s], failed) :
        \/ /\ svc' = [svc EXCEPT ![s] = LeftBehind(x)]
           /\ UNCHANGED <<group, stopped>>
        \/ /\ svc' = [svc EXCEPT ![s] = [x EXCEPT !.state = "stopping", !.reapPending = TRUE]]
           /\ UNCHANGED <<group, stopped>>
        \/ \E o \in ReleaseOutcomes(s, x) : svc' = [svc EXCEPT ![s] = o[1]] /\ Launched(s, x, o[2])
  BY <1>2
<1>3. x \in Entry /\ x.owned /\ (stopped[s] => Quiet(x))
  <2> DEFINE y == [svc[s] EXCEPT !.session = @ /\ svc[s].restartAfter]
  <2>1. x \in Entry /\ x.owned = svc[s].owned
    BY <1>1, <1>0, ExitRecordedFacts DEF SameRuntime
  <2>2. stopped[s] => x = [y EXCEPT !.state = "stopping"]
    BY <1>1, <1>0 DEF ExitRecorded, StopsKept, Quiet
  <2>3. stopped[s] => Quiet(svc[s])
    BY DEF StopsKept
  <2>4. Quiet(svc[s]) => Quiet([y EXCEPT !.state = "stopping"])
    BY <1>1 DEF Quiet, Entry
  <2> QED BY <1>1, <2>1, <2>2, <2>3, <2>4
<1>4. ASSUME NEW y, svc' = [svc EXCEPT ![s] = y], UNCHANGED <<group, stopped>>,
             stopped[s] => Quiet(y)
      PROVE  \A t \in Services : Honours(t)
  <2>1. svc'[s] = y /\ leader' = leader /\ stopped' = stopped
    BY <1>1, <1>4 DEF group
  <2>2. Honours(s)
    BY <1>1, <1>4, <2>1, NoLaunchHonours
  <2> QED BY <1>1, <1>4, <2>1, <2>2, OneHonours
<1>5. /\ Quiet(x) => Quiet(LeftBehind(x))
      /\ Quiet(x) => Quiet([x EXCEPT !.state = "stopping", !.reapPending = TRUE])
  BY <1>3 DEF LeftBehind, Quiet, Entry, Deliberate
<1>6. CASE \E o \in ReleaseOutcomes(s, x) : svc' = [svc EXCEPT ![s] = o[1]] /\ Launched(s, x, o[2])
  BY <1>1, <1>3, <1>6, ReleaseHonours
<1>7. CASE svc' = [svc EXCEPT ![s] = LeftBehind(x)] /\ UNCHANGED <<group, stopped>>
  BY <1>3, <1>4, <1>5, <1>7
<1>8. CASE /\ svc' = [svc EXCEPT ![s] = [x EXCEPT !.state = "stopping", !.reapPending = TRUE]]
           /\ UNCHANGED <<group, stopped>>
  BY <1>3, <1>4, <1>5, <1>8
<1> QED BY <1>0, <1>6, <1>7, <1>8

\* The daemon launches from a latch, an enablement or a delay, or retries a
\* stale generation.
LEMMA TickHonours ==
    ASSUME IInv, StopsKept, NEW s \in Services, TickStep(s)
    PROVE  \A t \in Services : Honours(t)
PROOF
<1>1. /\ up /\ up' = up /\ svc[s] \in Entry /\ svc \in [Services -> Entry]
      /\ stopped \in [Services -> BOOLEAN]
  BY DEF TickStep, LeaderExitObserved, NoExitFound, Settle, Escalate, Release, StopUnverified,
     GameResume, LifecycleResume, Resume, BackoffRetry, StaleRetry, StaleCleared, Autostart,
     PassDone, Stopping, RestartPhases, Ready, loop, IInv, TypeOK
<1>2. stopped[s] => Quiet(svc[s])
  BY DEF StopsKept
<1>3. ASSUME NEW y, svc' = [svc EXCEPT ![s] = y], UNCHANGED <<group, stopped>>,
             stopped[s] => Quiet(y)
      PROVE  \A t \in Services : Honours(t)
  <2>1. svc'[s] = y /\ leader' = leader /\ stopped' = stopped
    BY <1>1, <1>3 DEF group
  <2>2. Honours(s)
    BY <1>1, <1>3, <2>1, NoLaunchHonours
  <2> QED BY <1>1, <1>3, <2>1, <2>2, OneHonours
<1>4. CASE NoExitFound(s) \/ PassDone(s)
  <2>1. UNCHANGED <<svc, group, stopped>> /\ svc = [svc EXCEPT ![s] = svc[s]]
    BY <1>1, <1>4 DEF NoExitFound, PassDone
  <2> QED BY <1>2, <1>3, <2>1
<1>5. CASE Settle(s) \/ Escalate(s) \/ StopUnverified(s) \/ StaleCleared(s)
  <2>1. UNCHANGED <<group, stopped>>
    BY <1>5 DEF Settle, Escalate, StopUnverified, StaleCleared
  <2>2. PICK y \in {[svc[s] EXCEPT !.state = "running"], [svc[s] EXCEPT !.killSent = TRUE],
                    [svc[s] EXCEPT !.unverified = TRUE],
                    [svc[s] EXCEPT !.state = IdleState(svc[s])]} :
           svc' = [svc EXCEPT ![s] = y]
    BY <1>5 DEF Settle, Escalate, StopUnverified, StaleCleared
  <2>3. Quiet(svc[s]) => Quiet(y)
    BY <1>1, <2>2 DEF Quiet, Entry, IdleState
  <2> QED BY <1>2, <1>3, <2>1, <2>2, <2>3
<1>6. CASE Release(s)
  BY <1>1, <1>2, <1>6, ReleaseHonours DEF Release, Stopping
\* What the user stopped has no latch, enablement or retry to start it.
<1>7. CASE GameResume(s) \/ LifecycleResume(s) \/ BackoffRetry(s) \/ Autostart(s)
  <2>1. ~stopped[s]
    BY <1>2, <1>7 DEF GameResume, GameResumeDue, LifecycleResume, LifecycleResumeDue,
       BackoffRetry, Autostart, AutostartDue, Quiet
  <2>2. \E x, r : Launched(s, x, r)
    BY <1>7 DEF GameResume, LifecycleResume, Resume, BackoffRetry, Autostart
  <2>3. /\ ~stopped'[s]
        /\ \A t \in Services \ {s} : leader'[t] = leader[t] /\ stopped'[t] = stopped[t]
    BY <1>1, <2>1, <2>2 DEF Launched, IInv, TypeOK
  <2>4. \A t \in Services \ {s} : svc'[t] = svc[t]
    BY <1>1, <1>7 DEF GameResume, LifecycleResume, Resume, BackoffRetry, Autostart
  <2>5. Honours(s)
    BY <2>1, <2>3 DEF Honours
  <2> QED BY <1>1, <2>3, <2>4, <2>5, OneHonours
<1>8. CASE StaleRetry(s)
  <2>1. PICK r \in StartOutcomes(s, svc[s], pkg) :
          LET x == Started(s, svc[s], r)
          IN  /\ Launched(s, svc[s], r)
              /\ svc' = [svc EXCEPT ![s] =
                   CASE r = "ok" -> [x EXCEPT !.lifecycle = FALSE]
                     [] r = "stale" -> x
                     [] OTHER -> [x EXCEPT !.session = FALSE, !.autostart = FALSE,
                                           !.state = IF x.owned THEN @ ELSE IdleState(x)]]
    BY <1>8 DEF StaleRetry
  <2> DEFINE z == Started(s, svc[s], r)
  <2>2. Attempt(s, svc[s], z, r)
    BY <1>1, <2>1, AttemptFacts
  <2>3. svc[s].state = "stale" /\ ~svc[s].restartAfter
    BY <1>8, EntryFacts DEF StaleRetry, RestartPhases
  <2>4. /\ svc'[s] = CASE r = "ok" -> [z EXCEPT !.lifecycle = FALSE]
                       [] r = "stale" -> z
                       [] OTHER -> [z EXCEPT !.session = FALSE, !.autostart = FALSE,
                                             !.state = IF z.owned THEN @ ELSE IdleState(z)]
        /\ \A t \in Services \ {s} : svc'[t] = svc[t]
    BY <1>1, <2>1
  <2> HIDE DEF z
  <2>5. stopped'[s] => Quiet(svc'[s])
    BY <1>2, <2>2, <2>3, <2>4 DEF Attempt, Quiet, Entry, IdleState
  <2>6. Honours(s)
    BY <1>1, <2>3, <2>5 DEF Honours
  <2> QED BY <1>1, <2>2, <2>4, <2>6, OneHonours DEF Attempt
<1> QED BY <1>4, <1>5, <1>6, <1>7, <1>8, ExitHonours DEF TickStep

-----------------------------------------------------------------------------
(* The steps over all services *)

\* A scan starts nothing and leaves no latch behind.
LEMMA ScanQuiet ==
    ASSUME TypeOK, NEW entries \in [Services -> Entry], NEW disk \in Disks, NEW lost,
           NEW s \in Services, Quiet(entries[s])
    PROVE  Quiet(Scanned(entries, disk, lost)[s])
PROOF
<1> DEFINE e == entries[s]
           x == Reconciled(e, disk[s])
           p == Probed(s, x)
           y == Scanned(entries, disk, lost)[s]
<1>1. e \in Entry /\ disk[s] \in Findings
  BY DEF Disks
<1>2. x \in Entry
  BY <1>1, ReconciledType
<1>3. y = IF Exhausted(p) /\ s \notin lost THEN Unlisted ELSE p
  BY DEF Scanned
<1>4. Quiet(x)
  <2> DEFINE pak == FoundPak(e, disk[s].found)
             pol == CASE pak \in {"ok", "secondary"} -> disk[s].policy
                      [] pak = "invalid" -> ZeroPolicy
                      [] OTHER -> e.policy
             z == [e EXCEPT !.pak = pak, !.policy = pol]
             v == IF e.reapPending \/ e.killSent THEN "stopping" ELSE "running"
  <2>1. \/ x = [z EXCEPT !.state = "unavailable"]
        \/ x = z
        \/ x = [z EXCEPT !.state = IdleState(z)]
        \/ x = [z EXCEPT !.state = v]
    BY <1>1 DEF Reconciled, Entry
  <2>2. Quiet(z)
    BY <1>1 DEF Quiet, Entry
  <2>3. \A u : u # "backoff" => Quiet([z EXCEPT !.state = u])
    <3> HIDE DEF e
    <3> QED BY <1>1, <2>2 DEF Quiet, Entry
  <2>4. IdleState(z) # "backoff" /\ v # "backoff"
    BY DEF IdleState
  <2> HIDE DEF x, z, v
  <2> QED BY <2>1, <2>2, <2>3, <2>4
<1> HIDE DEF x
<1>5. Quiet(p)
  BY <1>2, <1>4 DEF Probed, Quiet, Entry
<1>6. Quiet(Unlisted)
  BY DEF Quiet, Unlisted, LoadControl, NoRow
<1> HIDE DEF p
<1> QED BY <1>3, <1>5, <1>6

\* Steps that launch nothing.
LEMMA StillHonours ==
    ASSUME up', \A s \in Services : leader'[s] = "live" => leader[s] = "live",
           \A s \in Services : stopped'[s] => Quiet(svc'[s])
    PROVE  \A s \in Services : Honours(s)
PROOF BY NoLaunchHonours

\* A blocking stop, with the reason of its caller.
LEMMA SyncQuiet ==
    ASSUME NEW x \in Entry, NEW o, Deliberate(x.reason),
           ~x.lifecycle, ~x.gameLatch, ~x.autostart, ~x.restartAfter
    PROVE  Quiet(SyncStopped(x, o))
PROOF
<1>1. CASE o = "stopped"
  <2> DEFINE f == Freed(x)
  <2>1. f \in Entry /\ ~f.owned /\ ~f.restartAfter
    BY FreedFacts
  <2>2. f.lifecycle = x.lifecycle /\ f.gameLatch = x.gameLatch /\ f.autostart = x.autostart
    BY DEF Freed, Entry
  <2>3. SyncStopped(x, o) = [f EXCEPT !.state = IdleState(x)] /\ IdleState(x) # "backoff"
    BY <1>1 DEF SyncStopped, IdleState
  <2> HIDE DEF f
  <2> QED BY <2>1, <2>2, <2>3 DEF Quiet, Entry
<1>2. CASE o # "stopped"
  BY <1>2 DEF SyncStopped, Quiet, Entry
<1> QED BY <1>1, <1>2

\* The package barrier takes the latches away, and stops with a reason of its own.
LEMMA PackageBeginHonours ==
    ASSUME IInv, StopsKept, PackageBegin
    PROVE  \A s \in Services : Honours(s)
PROOF
<1>1. PICK out \in [Services -> StopOutcomes] :
        /\ svc' = [s \in Services |->
                     IF s \in Owned THEN SyncStopped(Quiesced(svc[s]), out[s])
                     ELSE Quiesced(svc[s])]
        /\ GroupsStopped(Owned, out)
  BY DEF PackageBegin
<1>2. up' /\ stopped' = stopped
  BY DEF PackageBegin, Ready, loop
<1>3. \A s \in Services : leader'[s] = "live" => leader[s] = "live"
  BY <1>1 DEF GroupsStopped
<1>4. ASSUME NEW s \in Services, stopped[s]
      PROVE  Quiet(svc'[s])
  <2> DEFINE x == svc[s]
             y == Quiesced(x)
  <2>1. x \in Entry /\ Quiet(x) /\ (x.restartAfter => x.owned) /\ ~x.restartAfter
    BY <1>4, EntryFacts DEF StopsKept, PackageBegin, PackageBusy
  <2>2. y \in Entry
    BY <2>1, QuiescedFacts
  <2>3. x = Unlisted => Quiet(y) /\ ~x.owned
    BY <2>1 DEF Quiesced, Unlisted, LoadControl
  <2>4. x # Unlisted => /\ y.reason = "package" /\ ~y.lifecycle /\ ~y.gameLatch
                        /\ ~y.autostart /\ ~y.restartAfter /\ y.state = x.state
    <3> HIDE DEF x
    <3> QED BY <2>1 DEF Quiesced, Entry
  <2> HIDE DEF y, x
  <2>5. x # Unlisted => Quiet(y) /\ Quiet(SyncStopped(y, out[s]))
    BY <2>1, <2>2, <2>4, SyncQuiet DEF Quiet, Deliberate
  <2>6. svc'[s] = IF x.owned THEN SyncStopped(y, out[s]) ELSE y
    BY <1>1 DEF Owned, x, y
  <2> QED BY <2>3, <2>5, <2>6
<1> QED BY <1>2, <1>3, <1>4, StillHonours

\* The entries that package_end() restores have no group, so no reason and no
\* replacement of theirs counts.
LEMMA PackageEndHonours ==
    ASSUME IInv, StopsKept, PackageEnd
    PROVE  \A s \in Services : Honours(s)
PROOF
<1>1. PICK disk \in Disks, lost \in Losses :
        LET free == [s \in Services |-> Unquiesced(Scanned(svc, disk, lost)[s])]
        IN  \E r \in [Services -> Outcomes] :
               /\ \A s \in Services : r[s] \in RestoreOutcomes(s, free[s])
               /\ svc' = [s \in Services |-> Restored(s, free[s], r[s])]
               /\ stopped' = [s \in Services |->
                                stopped[s] /\ LeaderAfter(r[s]) = "none"]
  BY DEF PackageEnd, Outcomes
<1> DEFINE free == [s \in Services |-> Unquiesced(Scanned(svc, disk, lost)[s])]
<1>2. PICK r \in [Services -> Outcomes] :
        /\ svc' = [s \in Services |-> Restored(s, free[s], r[s])]
        /\ stopped' = [s \in Services |-> stopped[s] /\ LeaderAfter(r[s]) = "none"]
  BY <1>1
<1>3. up' /\ pkg /\ TypeOK /\ svc \in [Services -> Entry]
  BY DEF PackageEnd, Ready, loop, IInv, TypeOK
<1>4. ASSUME NEW s \in Services, stopped'[s]
      PROVE  Quiet(svc'[s])
  <2> DEFINE x == Scanned(svc, disk, lost)[s]
             y == free[s]
  <2>1. Quiet(svc[s]) /\ r[s] \in {"none", "stale", "failed"}
    BY <1>2, <1>4 DEF StopsKept, LeaderAfter, Outcomes
  <2>2. ~svc[s].owned /\ ~svc[s].restartAfter
    BY <1>3 DEF PackageEnd, IInv, EntryInv, Behind, Linked
  <2>3. x \in Entry /\ Quiet(x) /\ ~x.owned /\ ~x.restartAfter
    BY <1>3, <2>1, <2>2, ScannedFacts, ScanQuiet DEF SameRuntime
  <2>4. y = Unquiesced(x)
    OBVIOUS
  <2> HIDE DEF x, free
  <2>5. y \in Entry /\ ~y.owned /\ ~y.restartAfter
    BY <2>3, <2>4, UnquiescedFacts
  <2>6. ~y.lifecycle /\ ~y.gameLatch /\ ~y.autostart /\ y.state # "backoff"
    BY <2>3, <2>4 DEF Unquiesced, Quiet, Entry, IdleState
  <2> DEFINE z == [y EXCEPT !.fails = 0, !.breaker = FALSE]
  <2>7. z \in Entry /\ Quiet(z) /\ Quiet(y)
    <3> HIDE DEF y
    <3> QED BY <2>5, <2>6, NoFailures DEF Quiet, Entry
  <2>8. svc'[s] = Restored(s, y, r[s])
    BY <1>2
  <2> HIDE DEF y
  <2>9. \/ svc'[s] = y
        \/ svc'[s] = Started(s, z, r[s])
        \/ svc'[s] = [Started(s, z, r[s]) EXCEPT !.state = "stale"]
    BY <2>8 DEF Restored
  <2> HIDE DEF z
  <2>10. r[s] # "none" => Started(s, z, r[s]) \in Entry /\ Quiet(Started(s, z, r[s]))
    <3>1. Started(s, z, r[s]) \in Entry
      BY <1>3, <2>7, StartedType DEF TypeOK
    <3>2. r[s] # "none" => \/ Started(s, z, r[s]) = z
                           \/ Started(s, z, r[s]) = [z EXCEPT !.active = StalePolicy(s, z)]
      BY <2>1, <2>7 DEF Started, Entry
    <3> QED BY <2>7, <3>1, <3>2 DEF Quiet, Entry
  <2>11. r[s] = "none" => svc'[s] = y
    BY <2>8 DEF Restored
  <2> QED BY <2>7, <2>9, <2>10, <2>11 DEF Quiet, Entry
<1> QED BY <1>3, <1>4 DEF Honours, Starts

\* A barrier stops only groups that nobody stopped yet, and a user's stop is
\* one.
LEMMA LifecycleHonours ==
    ASSUME IInv, StopsKept, up', stopped' = stopped,
           NEW t, NEW fires, NEW out, NEW scans, LifecycleStop(t, fires, out, scans)
    PROVE  \A s \in Services : Honours(s)
PROOF
<1> DEFINE entries == IF fires THEN AfterStops(t, out) ELSE svc
<1>1. \A s \in Services : leader'[s] = "live" => leader[s] = "live"
  BY DEF LifecycleStop, GroupsStopped
<1>2. TypeOK /\ svc \in [Services -> Entry]
  BY DEF IInv, TypeOK
<1>3. ASSUME NEW s \in Services, stopped[s]
      PROVE  Quiet(svc'[s])
  <2>1. Quiet(svc[s])
    BY <1>3 DEF StopsKept
  <2>2. s \notin StoppedFor(t)
    BY <2>1 DEF StoppedFor, Owned, Quiet, Deliberate
  <2>3. entries[s] = svc[s]
    BY <2>2 DEF AfterStops
  <2>4. CASE svc' = entries
    BY <2>1, <2>3, <2>4
  <2>5. CASE svc' # entries
    <3>1. PICK disk \in Disks, lost \in Losses : svc' = Scanned(entries, disk, lost)
      BY <2>5 DEF LifecycleStop
    <3>2. Scanned(entries, disk, lost)[s] = Scanned(svc, disk, lost)[s]
      BY <2>3 DEF Scanned
    <3>3. Quiet(Scanned(svc, disk, lost)[s])
      BY <1>2, <2>1, <3>1, ScanQuiet
    <3> QED BY <3>1, <3>2, <3>3
  <2> QED BY <2>4, <2>5
<1> QED BY <1>1, <1>3, StillHonours

\* Every step.
LEMMA StepHonours ==
    ASSUME IInv, StopsKept, [Next]_vars
    PROVE  \A s \in Services : Honours(s)
PROOF
<1>1. ASSUME up' = up, stopped' = stopped, svc' = svc,
             \A s \in Services : leader'[s] = "live" => leader[s] = "live"
      PROVE  \A s \in Services : Honours(s)
  BY <1>1, NoLaunchHonours DEF StopsKept
<1>2. CASE DaemonStart
  <2>1. \A s \in Services : ~stopped'[s] /\ leader'[s] = leader[s]
    BY <1>2 DEF DaemonStart, StopsKept, group
  <2> QED BY <2>1, NoLaunchHonours
<1>3. CASE Crash \/ Shutdown
  <2>1. \A s \in Services : ~stopped'[s] /\ leader'[s] = "none"
    BY <1>3 DEF Crash, Shutdown, DaemonGone
  <2> QED BY <2>1, NoLaunchHonours
<1>4. ASSUME NEW s \in Services, ProcessStep(s)
      PROVE  \A t \in Services : Honours(t)
  <2>1. up' = up /\ stopped' = stopped /\ svc' = svc
    BY <1>4 DEF ProcessStep, LeaderExits, Fork, DescendantsExit, Escape, StrayExits, loop
  <2>2. \A t \in Services : leader'[t] = "live" => leader[t] = "live"
    BY <1>4 DEF ProcessStep, LeaderExits, Fork, DescendantsExit, Escape, StrayExits,
       IInv, TypeOK
  <2> QED BY <1>1, <2>1, <2>2
<1>5. CASE NoteChildExit \/ CardMoves \/ GameBegin \/ GameFinish \/ UNCHANGED vars
  <2>1. UNCHANGED <<svc, leader, up, stopped>>
    BY <1>5 DEF NoteChildExit, CardMoves, GameBegin, GameFinish, vars, loop, group
  <2> QED BY <1>1, <2>1
<1>6. ASSUME NEW s \in Services, GameStopService(s)
      PROVE  \A t \in Services : Honours(t)
  <2>1. ~stopped[s]
    BY <1>6 DEF GameStopService, StopsKept, Quiet, Deliberate
  <2>2. /\ up' = up /\ stopped' = stopped
        /\ \A t \in Services \ {s} : svc'[t] = svc[t] /\ leader'[t] = leader[t]
        /\ leader'[s] = "live" => leader[s] = "live"
    BY <1>6 DEF GameStopService, loop, GroupsStopped, IInv, TypeOK
  <2>3. Honours(s)
    BY <2>1, <2>2, NoLaunchHonours
  <2> QED BY <2>2, <2>3, OneHonours
<1>7. CASE Suspend \/ SafeUnmount \/ StorageTick
  <2>1. up' = up /\ up /\ stopped' = stopped
    BY <1>7 DEF Suspend, SafeUnmount, StorageTick, Ready, loop
  <2>2. \/ UNCHANGED <<svc, group>>
        \/ \E t, fires, out, scans : LifecycleStop(t, fires, out, scans)
    BY <1>7 DEF Suspend, SafeUnmount, StorageTick
  <2>3. CASE UNCHANGED <<svc, group>>
    BY <1>1, <2>1, <2>3 DEF group
  <2> QED BY <2>1, <2>2, <2>3, LifecycleHonours
<1>8. CASE Rescan
  <2>1. PICK disk \in Disks, lost \in Losses : svc' = Scanned(svc, disk, lost)
    BY <1>8 DEF Rescan
  <2>2. up' /\ stopped' = stopped /\ leader' = leader /\ TypeOK /\ svc \in [Services -> Entry]
    BY <1>8 DEF Rescan, Ready, loop, group, IInv, TypeOK
  <2>3. ASSUME NEW s \in Services, stopped[s]
        PROVE  Quiet(svc'[s])
    BY <2>1, <2>2, <2>3, ScanQuiet DEF StopsKept
  <2> QED BY <2>2, <2>3, StillHonours
<1> QED BY <1>2, <1>3, <1>4, <1>5, <1>6, <1>7, <1>8, UserHonours, TickHonours,
           PackageBeginHonours, PackageEndHonours DEF Next, BarrierStep

-----------------------------------------------------------------------------
\* For every set of services and every policy: no launch by the daemon ends a
\* stop that the user asked for, save a package restore and the retry of a stale
\* generation (jw_svc_supervisor_control_stop, jw__begin_async_stop and the
\* phases of jw_svc_supervisor_tick).
THEOREM StopsAreHonoured == Spec => StopHonoured
PROOF
<1>1. Init => StopsKept
  BY DEF Init, StopsKept
<1>2. IInv /\ StopsKept /\ [Next]_vars => StopsKept'
  BY StepHonours DEF StopsKept, Honours
<1>3. IInv /\ StopsKept /\ [Next]_vars
      => [\A s \in Services : Starts(s) /\ stopped[s]
            => svc'[s].session \/ pkg \/ svc[s].state = "stale"]_vars
  BY StepHonours DEF Honours
<1> QED BY <1>1, <1>2, <1>3, Invariance, PTL DEF Spec, StopHonoured

-----------------------------------------------------------------------------
(* Safe unmounts: the groups of this daemon are seen to by its stops, for  *)
(* Linked has that an entry owns exactly the groups that exist.  What      *)
(* survived an earlier daemon is judged by the policy its entry shows, so  *)
(* that what is left to show is that this policy is the one the survivor   *)
(* reserved.                                                               *)

\* The entry of a survivor shows the policy the survivor reserved.
Shows(x, s) == x.active.stopOn = resv[s].stopOn

SurvivorsKnown == up => \A s \in Services : stray[s] = "orphan" => Shows(svc[s], s)

\* What a step of the running daemon does to the entry of a survivor.
KeepsShown(s) ==
    stray'[s] = "orphan" =>
        /\ stray[s] = "orphan" /\ resv'[s] = resv[s]
        /\ svc'[s].active = svc[s].active \/ Shows(svc'[s], s)

\* A survivor has no entry of its own that could be stopped.
LEMMA SurvivorFacts ==
    ASSUME IInv, up, NEW s \in Services, stray[s] = "orphan"
    PROVE  /\ svc[s] \in Entry /\ svc[s].state = "stale" /\ ~svc[s].owned
           /\ ~svc[s].stopRequested /\ ~svc[s].reapPending /\ ~svc[s].restartAfter
PROOF BY DEF IInv, EntryInv, TypeOK, Linked, Visible

\* A launch of a survivor's service is refused by a gate or by the lease.
LEMMA BarredFacts ==
    ASSUME IInv, up, NEW s \in Services, stray[s] = "orphan",
           NEW x \in Entry, NEW quiesced, NEW r \in StartOutcomes(s, x, quiesced)
    PROVE  /\ r \in {"failed", "stale"}
           /\ Started(s, x, r) \in Entry
           /\ Started(s, x, r).active = x.active \/ Shows(Started(s, x, r), s)
PROOF
<1>1. r \in {"failed", "stale"}
  BY DEF StartOutcomes
<1>2. Started(s, x, r) \in Entry
  BY StartedType DEF IInv, TypeOK
<1>3. CASE r = "failed"
  BY <1>1, <1>2, <1>3 DEF Started
<1>4. CASE r = "stale"
  <2>1. StalePolicy(s, x).stopOn = resv[s].stopOn
    BY DEF StalePolicy, IInv, TypeOK, Policy
  <2>2. Started(s, x, r).active = StalePolicy(s, x)
    BY <1>4 DEF Started, Entry
  <2> QED BY <1>1, <1>2, <2>1, <2>2 DEF Shows
<1> QED BY <1>1, <1>2, <1>3, <1>4

\* A step on the entry of one service.
LEMMA OneShown ==
    ASSUME IInv, up, NEW s \in Services, NEW y,
           svc' = [svc EXCEPT ![s] = y], stray' = stray,
           resv' = resv \/ (stray[s] # "orphan" /\ \E p : resv' = [resv EXCEPT ![s] = p]),
           stray[s] = "orphan" => y.active = svc[s].active \/ Shows(y, s)
    PROVE  \A t \in Services : KeepsShown(t)
PROOF BY DEF IInv, TypeOK, KeepsShown, Shows

\* A launch records a policy only where nobody else holds the lease.
LEMMA LaunchKeeps ==
    ASSUME IInv, up, NEW s \in Services, NEW x, NEW quiesced, NEW w,
           NEW r \in StartOutcomes(s, w, quiesced) \cup {"none"}, Launched(s, x, r)
    PROVE  /\ stray' = stray
           /\ resv' = resv \/ (stray[s] # "orphan" /\ \E p : resv' = [resv EXCEPT ![s] = p])
PROOF
<1>1. r = "ok" => stray[s] # "orphan"
  BY DEF StartOutcomes
<1>2. r # "ok" => resv' = resv
  BY DEF Launched, IInv, TypeOK
<1>3. r = "ok" => resv' = [resv EXCEPT ![s] = x.policy]
  BY DEF Launched
<1> QED BY <1>1, <1>2, <1>3 DEF Launched

-----------------------------------------------------------------------------
(* The steps of one service *)

\* A request changes what the entry of a survivor shows only to what it reserved.
LEMMA UserKeeps ==
    ASSUME IInv, NEW s \in Services, UserStep(s)
    PROVE  \A t \in Services : KeepsShown(t)
PROOF
<1>1. up /\ svc[s] \in Entry
  BY DEF UserStep, Enable, Disable, Run, Stop, Restart, Request, Ready, IInv, TypeOK
<1>2. CASE Enable(s)
  <2>1. [svc[s] EXCEPT !.desired = TRUE].active = svc[s].active
    BY <1>1 DEF Entry
  <2> QED BY <1>1, <1>2, <2>1, OneShown DEF Enable, group
<1>3. CASE Disable(s) \/ Stop(s)
  <2>1. stray[s] = "orphan" => ~svc[s].owned /\ svc[s].state = "stale"
    BY <1>1, SurvivorFacts
  <2>2. stray[s] = "orphan" => Disabled(svc[s]).active = svc[s].active
    BY <1>1, <2>1 DEF Disabled, Entry
  <2> QED BY <1>1, <1>3, <2>1, <2>2, OneShown DEF Disable, Stop, group
<1>4. CASE Run(s)
  <2> DEFINE y == [svc[s] EXCEPT !.lifecycle = FALSE, !.fails = 0, !.breaker = FALSE]
  <2>1. y \in Entry /\ y.active = svc[s].active
    BY <1>1, NoFailures DEF Entry
  <2> HIDE DEF y
  <2>2. PICK r \in StartOutcomes(s, y, FALSE) :
          /\ Launched(s, y, r)
          /\ \E v \in BOOLEAN : svc' = [svc EXCEPT ![s] =
               CASE r = "ok"    -> [Started(s, y, r) EXCEPT !.session = TRUE]
                 [] r = "stale" -> [Started(s, y, r) EXCEPT !.session = v, !.state = "stale"]
                 [] OTHER       -> Started(s, y, r)]
    BY <1>4 DEF Run, y
  <2>3. ASSUME stray[s] = "orphan", NEW v \in BOOLEAN
        PROVE  LET z == CASE r = "ok" -> [Started(s, y, r) EXCEPT !.session = TRUE]
                          [] r = "stale" -> [Started(s, y, r) EXCEPT !.session = v,
                                                                     !.state = "stale"]
                          [] OTHER -> Started(s, y, r)
               IN  z.active = svc[s].active \/ Shows(z, s)
    <3>1. /\ r \in {"failed", "stale"} /\ Started(s, y, r) \in Entry
          /\ Started(s, y, r).active = y.active \/ Shows(Started(s, y, r), s)
      BY <1>1, <2>1, <2>3, BarredFacts
    <3> QED BY <2>1, <3>1 DEF Entry, Shows
  <2>4. /\ stray' = stray
        /\ resv' = resv \/ (stray[s] # "orphan" /\ \E p : resv' = [resv EXCEPT ![s] = p])
    BY <1>1, <2>2, LaunchKeeps
  <2> QED BY <1>1, <2>2, <2>3, <2>4, OneShown
<1>5. CASE Restart(s)
  <2> DEFINE y == [svc[s] EXCEPT !.lifecycle = FALSE, !.fails = 0, !.breaker = FALSE,
                                 !.session = TRUE]
  <2>1. y \in Entry /\ y.active = svc[s].active
    BY <1>1, NoFailures DEF Entry
  <2> HIDE DEF y
  <2>2. CASE svc[s].owned
    <3>1. /\ svc' = [svc EXCEPT ![s] = AsyncStopping(y, "intentional", TRUE)]
          /\ UNCHANGED group
      BY <1>5, <2>2 DEF Restart, y
    <3>2. stray[s] # "orphan"
      BY <1>1, <2>2, SurvivorFacts
    <3> QED BY <1>1, <3>1, <3>2, OneShown DEF group
  <2>3. CASE ~svc[s].owned
    <3>1. PICK r \in StartOutcomes(s, y, FALSE) :
            /\ Launched(s, y, r)
            /\ svc' = [svc EXCEPT ![s] =
                 CASE r = "ok"    -> Started(s, y, r)
                   [] r = "stale" -> [Started(s, y, r) EXCEPT !.state = "stale"]
                   [] OTHER       -> [Started(s, y, r) EXCEPT !.session = svc[s].session]]
      BY <1>5, <2>3 DEF Restart, y
    <3>2. ASSUME stray[s] = "orphan"
          PROVE  LET z == CASE r = "ok" -> Started(s, y, r)
                            [] r = "stale" -> [Started(s, y, r) EXCEPT !.state = "stale"]
                            [] OTHER -> [Started(s, y, r) EXCEPT !.session = svc[s].session]
                 IN  z.active = svc[s].active \/ Shows(z, s)
      <4>1. /\ r \in {"failed", "stale"} /\ Started(s, y, r) \in Entry
            /\ Started(s, y, r).active = y.active \/ Shows(Started(s, y, r), s)
        BY <1>1, <2>1, <3>2, BarredFacts
      <4> QED BY <2>1, <4>1 DEF Entry, Shows
    <3>3. /\ stray' = stray
          /\ resv' = resv \/ (stray[s] # "orphan" /\ \E p : resv' = [resv EXCEPT ![s] = p])
      BY <1>1, <3>1, LaunchKeeps
    <3> QED BY <1>1, <3>1, <3>2, <3>3, OneShown
  <2> QED BY <2>2, <2>3
<1> QED BY <1>2, <1>3, <1>4, <1>5 DEF UserStep

\* So does a step of the tick: it acts on owned groups, or probes the lease.
LEMMA TickKeeps ==
    ASSUME IInv, NEW s \in Services, TickStep(s)
    PROVE  \A t \in Services : KeepsShown(t)
PROOF
<1>1. svc[s] \in Entry
  BY DEF IInv, TypeOK
<1>2. up
  BY DEF TickStep, LeaderExitObserved, NoExitFound, Settle, Escalate, Release, StopUnverified,
     GameResume, LifecycleResume, BackoffRetry, StaleRetry, StaleCleared, Autostart, PassDone,
     Stopping, RestartPhases, Ready
<1>3. CASE NoExitFound(s) \/ PassDone(s)
  BY <1>3 DEF NoExitFound, PassDone, KeepsShown, group
<1>4. CASE Settle(s) \/ Escalate(s) \/ StopUnverified(s) \/ StaleCleared(s)
  <2>1. stray[s] # "orphan"
    BY <1>2, <1>4, SurvivorFacts DEF Settle, Escalate, StopUnverified, Stopping, StaleCleared
  <2>2. /\ UNCHANGED group
        /\ \E y : svc' = [svc EXCEPT ![s] = y]
    BY <1>4 DEF Settle, Escalate, StopUnverified, StaleCleared
  <2> QED BY <1>2, <2>1, <2>2, OneShown DEF group
<1>5. CASE LeaderExitObserved(s) \/ Release(s)
  <2>1. stray[s] # "orphan"
    BY <1>2, <1>5, SurvivorFacts DEF LeaderExitObserved, ExitDue, Release, Stopping
  <2>2. /\ stray' = stray
        /\ \E p : resv' = [resv EXCEPT ![s] = p]
        /\ \E y : svc' = [svc EXCEPT ![s] = y]
    <3>1. resv = [resv EXCEPT ![s] = resv[s]]
      BY DEF IInv, TypeOK
    <3>2. CASE Release(s)
      BY <3>2 DEF Release, Launched
    <3>3. CASE LeaderExitObserved(s)
      BY <3>1, <3>3 DEF LeaderExitObserved, Launched, group
    <3> QED BY <1>5, <3>2, <3>3
  <2> QED BY <1>2, <2>1, <2>2, OneShown
<1>6. CASE GameResume(s) \/ LifecycleResume(s)
  <2>1. stray[s] # "orphan"
    BY <1>2, <1>6, SurvivorFacts DEF GameResume, LifecycleResume, GameResumeDue,
       LifecycleResumeDue, Resumable
  <2>2. /\ stray' = stray
        /\ \E p : resv' = [resv EXCEPT ![s] = p]
        /\ \E y : svc' = [svc EXCEPT ![s] = y]
    BY <1>6 DEF GameResume, LifecycleResume, Resume, Launched
  <2> QED BY <1>2, <2>1, <2>2, OneShown
<1>7. CASE BackoffRetry(s) \/ Autostart(s)
  <2>1. stray[s] # "orphan"
    BY <1>2, <1>7, SurvivorFacts DEF BackoffRetry, Autostart, AutostartDue
  <2>2. /\ stray' = stray
        /\ \E p : resv' = [resv EXCEPT ![s] = p]
        /\ \E y : svc' = [svc EXCEPT ![s] = y]
    BY <1>7 DEF BackoffRetry, Autostart, Launched
  <2> QED BY <1>2, <2>1, <2>2, OneShown
<1>8. CASE StaleRetry(s)
  <2>1. PICK r \in StartOutcomes(s, svc[s], pkg) :
          LET x == Started(s, svc[s], r)
          IN  /\ Launched(s, svc[s], r)
              /\ svc' = [svc EXCEPT ![s] =
                   CASE r = "ok" -> [x EXCEPT !.lifecycle = FALSE]
                     [] r = "stale" -> x
                     [] OTHER -> [x EXCEPT !.session = FALSE, !.autostart = FALSE,
                                           !.state = IF x.owned THEN @ ELSE IdleState(x)]]
    BY <1>8 DEF StaleRetry
  <2> DEFINE x == Started(s, svc[s], r)
             y == CASE r = "ok" -> [x EXCEPT !.lifecycle = FALSE]
                    [] r = "stale" -> x
                    [] OTHER -> [x EXCEPT !.session = FALSE, !.autostart = FALSE,
                                          !.state = IF x.owned THEN @ ELSE IdleState(x)]
  <2>2. stray[s] = "orphan" => y.active = svc[s].active \/ Shows(y, s)
    <3>1. SUFFICES ASSUME stray[s] = "orphan"
                   PROVE  y.active = svc[s].active \/ Shows(y, s)
      OBVIOUS
    <3>2. r \in {"failed", "stale"} /\ x \in Entry /\ (x.active = svc[s].active \/ Shows(x, s))
      BY <1>1, <1>2, <3>1, BarredFacts
    <3> HIDE DEF x
    <3>3. y.active = x.active
      BY <3>2 DEF Entry
    <3> HIDE DEF y
    <3> QED BY <3>2, <3>3 DEF Shows
  <2>3. /\ stray' = stray
        /\ resv' = resv \/ (stray[s] # "orphan" /\ \E p : resv' = [resv EXCEPT ![s] = p])
    BY <1>2, <2>1, LaunchKeeps
  <2>4. svc' = [svc EXCEPT ![s] = y]
    BY <2>1
  <2> HIDE DEF y
  <2> QED BY <1>2, <2>2, <2>3, <2>4, OneShown
<1> QED BY <1>3, <1>4, <1>5, <1>6, <1>7, <1>8 DEF TickStep

-----------------------------------------------------------------------------
(* The steps over all services *)

\* A scan keeps the policy of a running generation, and shows that of whoever
\* else holds the lease.
LEMMA ScanShows ==
    ASSUME TypeOK, NEW entries, NEW disk \in Disks, NEW lost,
           NEW s \in Services, entries[s] \in Entry
    PROVE  LET y == Scanned(entries, disk, lost)[s]
           IN  /\ entries[s].owned => y.active = entries[s].active
               /\ ~entries[s].owned /\ stray[s] # "none" => Shows(y, s)
PROOF
<1> DEFINE e == entries[s]
           x == Reconciled(e, disk[s])
           p == Probed(s, x)
           y == Scanned(entries, disk, lost)[s]
<1>1. e \in Entry /\ disk[s] \in Findings
  BY DEF Disks
<1>2. x \in Entry /\ SameRuntime(e, x)
  BY <1>1, ReconciledType, ReconciledRuntime
<1>3. x.active = e.active
  <2> HIDE DEF e
  <2> QED BY <1>1 DEF Reconciled, Entry
<1>4. y = IF Exhausted(p) /\ s \notin lost THEN Unlisted ELSE p
  BY DEF Scanned
<1> HIDE DEF x, e
<1>5. CASE e.owned
  <2>1. x.owned
    BY <1>2, <1>5 DEF SameRuntime
  <2>2. p = x /\ ~Exhausted(p)
    BY <2>1 DEF Probed, Exhausted
  <2> QED BY <1>3, <1>4, <1>5, <2>2 DEF e
<1>6. CASE ~e.owned /\ stray[s] # "none"
  <2>1. p = [x EXCEPT !.active = StalePolicy(s, x), !.state = "stale"]
    BY <1>2, <1>6 DEF Probed, SameRuntime
  <2>2. p.state = "stale" /\ p.active = StalePolicy(s, x)
    BY <1>2, <2>1 DEF Entry
  <2>3. StalePolicy(s, x).stopOn = resv[s].stopOn
    BY DEF StalePolicy, TypeOK, Policy
  <2>4. y = p
    BY <1>4, <2>2 DEF Exhausted
  <2> QED BY <1>6, <2>2, <2>3, <2>4 DEF Shows, e
<1> QED BY <1>5, <1>6 DEF e

\* Stops before a scan do not touch the entry of a survivor.
LEMMA LifecycleStopKeeps ==
    ASSUME IInv, up, NEW t, NEW fires, NEW out, NEW scans, LifecycleStop(t, fires, out, scans)
    PROVE  \A s \in Services : KeepsShown(s)
PROOF
<1> DEFINE entries == IF fires THEN AfterStops(t, out) ELSE svc
<1>1. UNCHANGED <<stray, resv>>
  BY DEF LifecycleStop
<1> SUFFICES ASSUME NEW s \in Services, stray[s] = "orphan"
             PROVE  svc'[s].active = svc[s].active \/ Shows(svc'[s], s)
  BY <1>1 DEF KeepsShown, Shows
<1>2. entries[s] = svc[s]
  BY SurvivorFacts DEF AfterStops, StoppedFor, Owned
<1>3. ~scans => svc' = entries
  BY DEF LifecycleStop
<1>4. ASSUME scans
      PROVE  Shows(svc'[s], s)
  <2>1. PICK disk \in Disks, lost \in Losses : svc' = Scanned(entries, disk, lost)
    BY <1>4 DEF LifecycleStop
  <2>2. ~entries[s].owned
    BY <1>2, SurvivorFacts
  <2>3. Shows(Scanned(entries, disk, lost)[s], s)
    <3>1. TypeOK /\ entries[s] \in Entry /\ stray[s] # "none"
      BY <1>2 DEF IInv, TypeOK
    <3> HIDE DEF entries
    <3> QED BY <2>2, <3>1, ScanShows
  <2> QED BY <2>1, <2>3
<1> QED BY <1>2, <1>3, <1>4

\* An entry that package_end() scanned and took the barrier from.
LEMMA PackageEndKeeps ==
    ASSUME IInv, PackageEnd
    PROVE  \A s \in Services : KeepsShown(s)
PROOF
<1>1. PICK disk \in Disks, lost \in Losses :
        LET free == [s \in Services |-> Unquiesced(Scanned(svc, disk, lost)[s])]
        IN  \E r : /\ \A s \in Services : r[s] \in RestoreOutcomes(s, free[s])
                   /\ svc' = [s \in Services |-> Restored(s, free[s], r[s])]
                   /\ resv' = [s \in Services |->
                                 IF r[s] = "ok" THEN free[s].policy ELSE resv[s]]
  BY DEF PackageEnd
<1> DEFINE free == [s \in Services |-> Unquiesced(Scanned(svc, disk, lost)[s])]
<1>2. PICK r : /\ \A s \in Services : r[s] \in RestoreOutcomes(s, free[s])
               /\ svc' = [s \in Services |-> Restored(s, free[s], r[s])]
               /\ resv' = [s \in Services |->
                             IF r[s] = "ok" THEN free[s].policy ELSE resv[s]]
  BY <1>1
<1>3. up /\ stray' = stray /\ TypeOK /\ svc \in [Services -> Entry]
  BY DEF PackageEnd, Ready, IInv, TypeOK
<1> SUFFICES ASSUME NEW s \in Services, stray[s] = "orphan"
             PROVE  resv'[s] = resv[s] /\ Shows(svc'[s], s)
  BY <1>3 DEF KeepsShown
<1> DEFINE x == Scanned(svc, disk, lost)[s]
           y == free[s]
<1>4. x \in Entry /\ Shows(x, s)
  <2>1. ~svc[s].owned /\ ~svc[s].restartAfter
    BY <1>3, SurvivorFacts
  <2> QED BY <1>3, <2>1, ScannedFacts, ScanShows
<1>5. y = Unquiesced(x)
  OBVIOUS
<1> HIDE DEF x, free
<1>6. y \in Entry /\ y.active = x.active
  <2>1. Unquiesced(x) \in Entry
    BY <1>4, UnquiescedFacts
  <2> QED BY <1>4, <1>5, <2>1 DEF Unquiesced, Entry
<1> HIDE DEF y
<1>7. /\ r[s] \in RestoreOutcomes(s, y) /\ svc'[s] = Restored(s, y, r[s])
      /\ r[s] # "ok" => resv'[s] = resv[s]
  BY <1>2 DEF y
<1> DEFINE z == [y EXCEPT !.fails = 0, !.breaker = FALSE]
<1>8. z \in Entry /\ z.active = y.active
  BY <1>6, NoFailures DEF Entry
<1>9. CASE r[s] = "none"
  BY <1>4, <1>6, <1>7, <1>9 DEF Restored, Shows
<1>10. CASE r[s] # "none"
  <2>1. r[s] \in StartOutcomes(s, y, FALSE)
    BY <1>7, <1>10 DEF RestoreOutcomes
  <2>2. r[s] \in {"failed", "stale"}
    BY <1>3, <1>6, <2>1, BarredFacts
  <2>3. StartOutcomes(s, z, FALSE) = StartOutcomes(s, y, FALSE)
    BY <1>6 DEF StartOutcomes, Gated, Entry
  <2> HIDE DEF z
  <2>4. /\ Started(s, z, r[s]) \in Entry
        /\ Started(s, z, r[s]).active = z.active \/ Shows(Started(s, z, r[s]), s)
    BY <1>3, <1>8, <2>1, <2>3, BarredFacts
  <2>5. \/ svc'[s] = Started(s, z, r[s])
        \/ svc'[s] = [Started(s, z, r[s]) EXCEPT !.state = "stale"]
    BY <1>7, <2>2 DEF Restored, z
  <2>6. svc'[s].active = Started(s, z, r[s]).active
    BY <2>4, <2>5 DEF Entry
  <2> QED BY <1>4, <1>6, <1>7, <1>8, <2>2, <2>4, <2>6 DEF Shows
<1> QED BY <1>9, <1>10

\* The policy shown for a survivor is the reserved one as long as it lives.
LEMMA StepKnown == IInv /\ SurvivorsKnown /\ [Next]_vars => SurvivorsKnown'
PROOF
<1> SUFFICES ASSUME IInv, SurvivorsKnown, [Next]_vars, up'
             PROVE  \A s \in Services : stray'[s] = "orphan" => Shows(svc[s], s)'
  BY DEF SurvivorsKnown
<1>1. ASSUME up, \A s \in Services : KeepsShown(s)
      PROVE  \A s \in Services : stray'[s] = "orphan" => Shows(svc[s], s)'
  BY <1>1 DEF SurvivorsKnown, KeepsShown, Shows
<1>2. UNCHANGED <<svc, group>> => \A s \in Services : KeepsShown(s)
  BY DEF group, KeepsShown
<1>3. CASE DaemonStart
  <2> SUFFICES ASSUME NEW s \in Services, stray'[s] = "orphan"
               PROVE  Shows(svc'[s], s) /\ resv'[s] = resv[s]
    BY DEF Shows
  <2> DEFINE loaded == [t \in Services |-> LoadControl(store[t])]
  <2>1. PICK disk \in Disks, lost \in Losses : svc' = Scanned(loaded, disk, lost)
    BY <1>3 DEF DaemonStart
  <2>2. loaded[s] \in Entry /\ ~loaded[s].owned
    BY LoadControlType DEF IInv, TypeOK, LoadControl
  <2>3. UNCHANGED <<stray, resv>> /\ TypeOK
    BY <1>3 DEF DaemonStart, group, IInv
  <2> HIDE DEF loaded
  <2> QED BY <2>1, <2>2, <2>3, ScanShows
<1>4. CASE Crash \/ Shutdown
  BY <1>4 DEF Crash, Shutdown, DaemonGone
<1>5. ASSUME NEW s \in Services, UserStep(s)
      PROVE  up /\ \A t \in Services : KeepsShown(t)
  BY <1>5, UserKeeps DEF UserStep, Enable, Disable, Run, Stop, Restart, Request, Ready
<1>6. ASSUME NEW s \in Services, TickStep(s)
      PROVE  up /\ \A t \in Services : KeepsShown(t)
  BY <1>6, TickKeeps DEF TickStep, LeaderExitObserved, NoExitFound, Settle, Escalate, Release,
     StopUnverified, GameResume, LifecycleResume, BackoffRetry, StaleRetry, StaleCleared,
     Autostart, PassDone, Stopping, RestartPhases, Ready
<1>7. ASSUME NEW s \in Services, ProcessStep(s)
      PROVE  up /\ \A t \in Services : KeepsShown(t)
  <2>1. up' = up /\ UNCHANGED <<svc, resv>>
    BY <1>7 DEF ProcessStep, LeaderExits, Fork, DescendantsExit, Escape, StrayExits, loop
  <2>2. \A t \in Services : stray'[t] = "orphan" => stray[t] = "orphan"
    BY <1>7 DEF ProcessStep, LeaderExits, Fork, DescendantsExit, Escape, StrayExits,
       IInv, TypeOK
  <2> QED BY <2>1, <2>2 DEF KeepsShown
<1>8. CASE NoteChildExit \/ CardMoves \/ GameBegin \/ GameFinish \/ UNCHANGED vars
  <2>1. UNCHANGED <<svc, group, up>>
    BY <1>8 DEF NoteChildExit, CardMoves, GameBegin, GameFinish, vars, loop
  <2> QED BY <1>1, <1>2, <2>1
<1>9. CASE PackageBegin
  <2>1. up /\ UNCHANGED <<stray, resv>> /\ \A s \in Services : svc[s].state # "stale"
    BY <1>9 DEF PackageBegin, Ready, PackageBusy
  <2>2. \A s \in Services : stray[s] # "orphan"
    BY <2>1, SurvivorFacts
  <2> QED BY <1>1, <2>1, <2>2 DEF KeepsShown
<1>10. ASSUME NEW s \in Services, GameStopService(s)
       PROVE  up /\ \A t \in Services : KeepsShown(t)
  <2>1. up /\ svc[s].owned /\ UNCHANGED <<stray, resv>> /\ \E y : svc' = [svc EXCEPT ![s] = y]
    BY <1>10 DEF GameStopService, Ready
  <2>2. stray[s] # "orphan"
    BY <2>1, SurvivorFacts
  <2> QED BY <2>1, <2>2, OneShown
<1>11. CASE Suspend \/ SafeUnmount \/ StorageTick
  <2>1. up
    BY <1>11 DEF Suspend, SafeUnmount, StorageTick, Ready
  <2>2. \/ UNCHANGED <<svc, group>>
        \/ \E t, fires, out, scans : LifecycleStop(t, fires, out, scans)
    BY <1>11 DEF Suspend, SafeUnmount, StorageTick
  <2> QED BY <1>1, <1>2, <2>1, <2>2, LifecycleStopKeeps
<1>12. CASE Rescan
  <2>1. PICK disk \in Disks, lost \in Losses : svc' = Scanned(svc, disk, lost)
    BY <1>12 DEF Rescan
  <2>2. up /\ UNCHANGED <<stray, resv>> /\ TypeOK
    BY <1>12 DEF Rescan, Ready, group, IInv
  <2>3. ASSUME NEW s \in Services, stray[s] = "orphan"
        PROVE  Shows(svc'[s], s)
    BY <2>1, <2>2, <2>3, SurvivorFacts, ScanShows
  <2> QED BY <1>1, <2>2, <2>3 DEF KeepsShown
<1> QED BY <1>1, <1>3, <1>4, <1>5, <1>6, <1>7, <1>8, <1>9, <1>10, <1>11, <1>12,
           PackageEndKeeps DEF Next, BarrierStep, PackageEnd, Ready

-----------------------------------------------------------------------------
\* Every service whose stop was not verified bars the unmount, so that what is
\* left beside an unmounted card is not sensitive to it.
LEMMA UnmountStep ==
    ASSUME IInv, SurvivorsKnown, [Next]_vars,
           card = "mounted", card' = "gone", seen' # seen, NEW s \in Services
    PROVE  /\ leader'[s] = "live" \/ kids'[s] => ~Sensitive(svc'[s], "storage")
           /\ stray'[s] = "orphan" => "storage" \notin resv[s].stopOn
PROOF
<1>1. SafeUnmount /\ up
  <2>1. SafeUnmount
    BY DEF Next, DaemonStart, Crash, Shutdown, DaemonGone, UserStep, Enable, Disable, Run, Stop,
       Restart, TickStep, LeaderExitObserved, NoExitFound, Settle, Escalate, Release,
       StopUnverified, GameResume, LifecycleResume, Resume, BackoffRetry, StaleRetry,
       StaleCleared, Autostart, PassDone, ProcessStep, LeaderExits, Fork, DescendantsExit,
       Escape, StrayExits, NoteChildExit, BarrierStep, PackageBegin, PackageEnd, GameBegin,
       GameFinish, GameStopService, Suspend, StorageTick, Rescan, CardMoves, barriers, vars
  <2> QED BY <2>1 DEF SafeUnmount, Ready
<1>2. PICK out : /\ StuckFor("storage", out) = {}
                 /\ LifecycleStop("storage", TRUE, out, TRUE)
  BY <1>1 DEF SafeUnmount
<1>3. svc[s] \in Entry /\ TypeOK /\ Linked(svc[s], leader[s], kids[s])
  BY DEF IInv, TypeOK, EntryInv
<1>4. ASSUME stray'[s] = "orphan"
      PROVE  "storage" \notin resv[s].stopOn
  <2>1. stray[s] = "orphan"
    BY <1>2, <1>4 DEF LifecycleStop
  <2>2. svc[s].state = "stale" /\ Shows(svc[s], s)
    BY <1>1, <2>1, SurvivorFacts DEF SurvivorsKnown
  <2>3. ~Sensitive(svc[s], "storage")
    BY <1>2, <2>2 DEF StuckFor
  <2> QED BY <2>2, <2>3 DEF Sensitive, Shows
<1>5. ASSUME leader'[s] = "live" \/ kids'[s]
      PROVE  ~Sensitive(svc'[s], "storage")
  <2>1. s \notin StoppedFor("storage")
    <3>1. s \in StoppedFor("storage") => out[s] = "stopped"
      BY <1>2 DEF StuckFor, StoppedFor
    <3> QED BY <1>2, <1>5, <3>1 DEF LifecycleStop, GroupsStopped
  <2>2. svc[s].owned
    BY <1>2, <1>3, <1>5, <2>1 DEF LifecycleStop, GroupsStopped, Linked
  <2>3. ~Sensitive(svc[s], "storage")
    BY <1>2, <2>1, <2>2 DEF StuckFor, StoppedFor, Owned
  <2>4. AfterStops("storage", out)[s] = svc[s]
    BY <2>1 DEF AfterStops
  <2>5. svc'[s].active = svc[s].active
    BY <1>2, <1>3, <2>2, <2>4, ScanShows DEF LifecycleStop
  <2> QED BY <2>3, <2>5 DEF Sensitive
<1> QED BY <1>4, <1>5

\* For every set of services and every policy: a safe unmount happens only when
\* nothing that declared itself sensitive to storage is alive, neither a group
\* of this daemon nor a survivor of an earlier one (jw__handle_storage_action,
\* jw_svc_supervisor_storage_change_blocked).
THEOREM UnmountsAreVerified == Spec => UnmountVerified
PROOF
<1>1. Init => SurvivorsKnown
  BY DEF Init, SurvivorsKnown
<1>2. IInv /\ SurvivorsKnown /\ [Next]_vars
      => [card = "mounted" /\ card' = "gone" /\ seen' # seen =>
            \A s \in Services :
                /\ leader'[s] = "live" \/ kids'[s] => ~Sensitive(svc'[s], "storage")
                /\ stray'[s] = "orphan" => "storage" \notin resv[s].stopOn]_vars
  BY UnmountStep
<1> QED BY <1>1, <1>2, StepKnown, Invariance, PTL DEF Spec, UnmountVerified

-----------------------------------------------------------------------------
(* Idle states: the property is inductive beside IInv, except where a      *)
(* launch cannot be undone.  A group whose reservation could not be        *)
(* written, and whose stop or reaping failed on top, is owned by an entry  *)
(* that the failure branches of the resumes and of a Restart's replacement *)
(* then report as idle.                                                    *)

\* An entry reported stopped or disabled owns no group.
Truthful(x) == x.state \in {"disabled", "stopped"} => ~x.owned

\* A launch that cannot record its reservation is always undone.
LaunchesUndone == "reservation" \in Faults => {"stuck", "reap"} \cap Faults = {}

\* A launch from an entry without a group starts one or leaves none behind.
LEMMA LaunchTruth ==
    ASSUME IInv, LaunchesUndone, NEW s \in Services, NEW x \in Entry, ~x.owned,
           NEW quiesced, NEW r \in StartOutcomes(s, x, quiesced),
           NEW w \in Entry, ~w.owned
    PROVE  LET z == Started(s, w, r)
           IN  /\ r \in {"ok", "stale", "failed"}
               /\ z \in Entry
               /\ r = "ok" => z.state = "starting"
               /\ r # "ok" => ~z.owned /\ z.state = w.state
PROOF
<1>1. r \in {"ok", "stale", "failed"}
  BY DEF StartOutcomes, LaunchesUndone
<1>2. Started(s, w, r) \in Entry
  BY StartedType DEF IInv, TypeOK
<1>3. CASE r = "ok"
  BY <1>2, <1>3 DEF Started, Entry
<1>4. CASE r # "ok"
  BY <1>1, <1>2, <1>4 DEF Started, Entry
<1> QED BY <1>1, <1>2, <1>3, <1>4

\* A release frees the entry, or replaces what it freed.
LEMMA ReleaseTruth ==
    ASSUME IInv, LaunchesUndone, NEW s \in Services, NEW x \in Entry, NEW o \in ReleaseOutcomes(s, x)
    PROVE  Truthful(o[1])
PROOF
<1> DEFINE f == Freed(x)
<1>1. f \in Entry /\ ~f.owned
  BY FreedFacts
<1> HIDE DEF f
<1>2. CASE ~x.restartAfter
  <2>1. o = <<f, "none">>
    BY <1>2 DEF ReleaseOutcomes, f
  <2> QED BY <1>1, <2>1 DEF Truthful
<1>3. CASE x.restartAfter /\ ~Available(x)
  <2>1. o = <<[f EXCEPT !.state = IdleState(x)], "none">>
    BY <1>3 DEF ReleaseOutcomes, f
  <2> QED BY <1>1, <2>1 DEF Truthful, Entry
<1>4. CASE x.restartAfter /\ Available(x)
  <2>1. PICK r \in StartOutcomes(s, x, pkg) : o = <<Replaced(s, f, r), r>>
    BY <1>4 DEF ReleaseOutcomes, f
  <2> DEFINE z == Started(s, f, r)
  <2>2. StartOutcomes(s, x, pkg) = StartOutcomes(s, f, pkg)
    <3>1. f.blocked = x.blocked /\ f.policy = x.policy /\ f.pak = x.pak
      BY FreedFacts DEF f
    <3> QED BY <3>1 DEF StartOutcomes, Gated
  <2>3. /\ r \in {"ok", "stale", "failed"} /\ z \in Entry
        /\ r = "ok" => z.state = "starting"
        /\ r # "ok" => ~z.owned
    BY <1>1, <2>1, <2>2, LaunchTruth
  <2>4. Replaced(s, f, r) = CASE r = "ok" -> z
                              [] r = "stale" -> [z EXCEPT !.state = "stale"]
                              [] OTHER -> [z EXCEPT !.session = FALSE, !.state = IdleState(f)]
    BY DEF Replaced
  <2> HIDE DEF z
  <2>5. Truthful(Replaced(s, f, r))
    BY <2>3, <2>4 DEF Truthful, Entry
  <2> QED BY <2>1, <2>5
<1> QED BY <1>2, <1>3, <1>4

\* A blocking stop reports idle only what it verified.
LEMMA StopTruth ==
    ASSUME NEW x \in Entry, NEW o
    PROVE  Truthful(SyncStopped(x, o))
PROOF
<1>1. CASE o = "stopped"
  <2>1. Freed(x) \in Entry /\ ~Freed(x).owned
    BY FreedFacts
  <2>2. SyncStopped(x, o) = [Freed(x) EXCEPT !.state = IdleState(x)]
    BY <1>1 DEF SyncStopped
  <2> QED BY <2>1, <2>2 DEF Truthful, Entry
<1>2. CASE o # "stopped"
  BY <1>2 DEF SyncStopped, Truthful, Entry
<1> QED BY <1>1, <1>2

\* A scan gives an idle state only to an entry without a group.
LEMMA ScanTruth ==
    ASSUME NEW entries, NEW disk \in Disks, NEW lost, NEW s \in Services,
           entries[s] \in Entry, Truthful(entries[s])
    PROVE  Truthful(Scanned(entries, disk, lost)[s])
PROOF
<1> DEFINE e == entries[s]
           x == Reconciled(e, disk[s])
           p == Probed(s, x)
<1>1. e \in Entry /\ disk[s] \in Findings /\ Truthful(e)
  BY DEF Disks
<1>2. Scanned(entries, disk, lost)[s] = IF Exhausted(p) /\ s \notin lost THEN Unlisted ELSE p
  BY DEF Scanned
<1> HIDE DEF e
<1>3. x \in Entry /\ x.owned = e.owned
  BY <1>1, ReconciledType, ReconciledRuntime DEF SameRuntime
<1>4. Truthful(x)
  <2> DEFINE pak == FoundPak(e, disk[s].found)
             y == [e EXCEPT !.pak = pak,
                            !.policy = CASE pak \in {"ok", "secondary"} -> disk[s].policy
                                         [] pak = "invalid" -> ZeroPolicy
                                         [] OTHER -> e.policy]
  <2>1. y.owned = e.owned /\ y.state = e.state /\ \A v : [y EXCEPT !.state = v].state = v
    BY <1>1 DEF Entry
  <2>2. \/ x = [y EXCEPT !.state = "unavailable"]
        \/ x = y
        \/ ~e.owned
        \/ x = [y EXCEPT !.state = IF e.reapPending \/ e.killSent THEN "stopping" ELSE "running"]
    BY <1>1 DEF Reconciled, Entry
  <2> HIDE DEF y, x
  <2> QED BY <1>1, <1>3, <2>1, <2>2 DEF Truthful
<1> HIDE DEF x
<1>5. Truthful(p)
  BY <1>3, <1>4 DEF Probed, Truthful, Entry
<1>6. Truthful(Unlisted)
  BY DEF Unlisted, LoadControl, Truthful
<1> QED BY <1>2, <1>5, <1>6

\* A step on the entry of one service.
LEMMA OneTruth ==
    ASSUME IInv, IdleMeansNotRunning, NEW s \in Services, NEW y,
           svc' = [svc EXCEPT ![s] = y], Truthful(y)
    PROVE  IdleMeansNotRunning'
PROOF BY DEF IInv, TypeOK, IdleMeansNotRunning, Truthful

-----------------------------------------------------------------------------
(* The steps of one service *)

LEMMA UserTruth ==
    ASSUME IInv, LaunchesUndone, IdleMeansNotRunning, NEW s \in Services, UserStep(s)
    PROVE  IdleMeansNotRunning'
PROOF
<1>1. svc[s] \in Entry /\ Truthful(svc[s])
  BY DEF IInv, TypeOK, IdleMeansNotRunning, Truthful
<1>2. CASE Enable(s)
  <2>1. Truthful([svc[s] EXCEPT !.desired = TRUE])
    BY <1>1 DEF Entry, Truthful
  <2> QED BY <1>2, <2>1, OneTruth DEF Enable
<1>3. CASE Disable(s)
  <2> DEFINE y == [svc[s] EXCEPT !.desired = FALSE, !.session = FALSE, !.autostart = FALSE,
                                 !.lifecycle = FALSE, !.gameLatch = FALSE]
  <2>1. y \in Entry /\ y.owned = svc[s].owned /\ y.state = svc[s].state
    BY <1>1, ZenonT(60) DEF Entry
  <2>2. \/ svc[s].owned /\ Disabled(svc[s]) = AsyncStopping(y, "intentional", FALSE)
        \/ ~svc[s].owned /\ Disabled(svc[s]) = y
        \/ ~svc[s].owned /\ Disabled(svc[s]) = [y EXCEPT !.state = IdleState(y)]
    BY <1>1 DEF Disabled, Entry
  <2> HIDE DEF y
  <2>3. Truthful(Disabled(svc[s]))
    BY <1>1, <2>1, <2>2, ZenonT(60) DEF AsyncStopping, Truthful, Entry
  <2> QED BY <1>3, <2>3, OneTruth DEF Disable
<1>4. CASE Stop(s)
  <2> DEFINE y == [svc[s] EXCEPT !.lifecycle = FALSE, !.gameLatch = FALSE, !.session = FALSE]
  <2>1. y \in Entry /\ y.owned
    BY <1>1, <1>4 DEF Stop, Entry
  <2>2. svc' = [svc EXCEPT ![s] = AsyncStopping(y, "intentional", FALSE)]
    BY <1>4 DEF Stop
  <2> HIDE DEF y
  <2>3. Truthful(AsyncStopping(y, "intentional", FALSE))
    BY <2>1 DEF AsyncStopping, Truthful, Entry
  <2> QED BY <2>2, <2>3, OneTruth
<1>5. CASE Run(s)
  <2> DEFINE y == [svc[s] EXCEPT !.lifecycle = FALSE, !.fails = 0, !.breaker = FALSE]
  <2>1. y \in Entry /\ ~y.owned
    BY <1>1, <1>5, NoFailures DEF Run, Entry
  <2>2. PICK r \in StartOutcomes(s, y, FALSE) :
          \E v \in BOOLEAN : svc' = [svc EXCEPT ![s] =
             CASE r = "ok"    -> [Started(s, y, r) EXCEPT !.session = TRUE]
               [] r = "stale" -> [Started(s, y, r) EXCEPT !.session = v, !.state = "stale"]
               [] OTHER       -> Started(s, y, r)]
    BY <1>5 DEF Run, y
  <2> HIDE DEF y
  <2> DEFINE z == Started(s, y, r)
  <2>3. /\ r \in {"ok", "stale", "failed"} /\ z \in Entry
        /\ r = "ok" => z.state = "starting"
        /\ r # "ok" => ~z.owned
    BY <2>1, LaunchTruth
  <2>4. PICK v \in BOOLEAN : svc' = [svc EXCEPT ![s] =
             CASE r = "ok"    -> [z EXCEPT !.session = TRUE]
               [] r = "stale" -> [z EXCEPT !.session = v, !.state = "stale"]
               [] OTHER       -> z]
    BY <2>2
  <2> HIDE DEF z
  <2>5. Truthful(CASE r = "ok"    -> [z EXCEPT !.session = TRUE]
                   [] r = "stale" -> [z EXCEPT !.session = v, !.state = "stale"]
                   [] OTHER       -> z)
    BY <2>3 DEF Truthful, Entry
  <2> QED BY <2>4, <2>5, OneTruth
<1>6. CASE Restart(s)
  <2> DEFINE y == [svc[s] EXCEPT !.lifecycle = FALSE, !.fails = 0, !.breaker = FALSE,
                                 !.session = TRUE]
  <2>1. y \in Entry /\ y.owned = svc[s].owned
    BY <1>1, NoFailures DEF Entry
  <2>2. CASE svc[s].owned
    <3>1. svc' = [svc EXCEPT ![s] = AsyncStopping(y, "intentional", TRUE)]
      BY <1>6, <2>2 DEF Restart, y
    <3> HIDE DEF y
    <3>2. Truthful(AsyncStopping(y, "intentional", TRUE))
      BY <2>1, <2>2 DEF AsyncStopping, Truthful, Entry
    <3> QED BY <3>1, <3>2, OneTruth
  <2>3. CASE ~svc[s].owned
    <3>1. PICK r \in StartOutcomes(s, y, FALSE) :
            svc' = [svc EXCEPT ![s] =
               CASE r = "ok"    -> Started(s, y, r)
                 [] r = "stale" -> [Started(s, y, r) EXCEPT !.state = "stale"]
                 [] OTHER       -> [Started(s, y, r) EXCEPT !.session = svc[s].session]]
      BY <1>6, <2>3 DEF Restart, y
    <3> HIDE DEF y
    <3> DEFINE z == Started(s, y, r)
    <3>2. /\ r \in {"ok", "stale", "failed"} /\ z \in Entry
          /\ r = "ok" => z.state = "starting"
          /\ r # "ok" => ~z.owned
      BY <2>1, <2>3, LaunchTruth
    <3>3. svc' = [svc EXCEPT ![s] =
               CASE r = "ok"    -> z
                 [] r = "stale" -> [z EXCEPT !.state = "stale"]
                 [] OTHER       -> [z EXCEPT !.session = svc[s].session]]
      BY <3>1
    <3> HIDE DEF z
    <3>4. Truthful(CASE r = "ok"    -> z
                     [] r = "stale" -> [z EXCEPT !.state = "stale"]
                     [] OTHER       -> [z EXCEPT !.session = svc[s].session])
      BY <3>2 DEF Truthful, Entry
    <3> QED BY <3>3, <3>4, OneTruth
  <2> QED BY <2>2, <2>3
<1> QED BY <1>2, <1>3, <1>4, <1>5, <1>6 DEF UserStep

\* A failure is reported as a backoff or as the open breaker.
LEMMA FailureState ==
    ASSUME NEW x \in Entry, NEW y \in RecordFailure(x)
    PROVE  y.state \in {"backoff", "failed"}
PROOF
<1>1. y \in Entry
  BY RecordFailureFacts
<1> QED BY <1>1 DEF RecordFailure, Entry

LEMMA TickTruth ==
    ASSUME IInv, LaunchesUndone, IdleMeansNotRunning, NEW s \in Services, TickStep(s)
    PROVE  IdleMeansNotRunning'
PROOF
<1>1. svc[s] \in Entry /\ Truthful(svc[s])
  BY DEF IInv, TypeOK, IdleMeansNotRunning, Truthful
<1>2. CASE NoExitFound(s) \/ PassDone(s)
  BY <1>2 DEF NoExitFound, PassDone, IdleMeansNotRunning
<1>3. CASE LeaderExitObserved(s)
  <2>0. PICK failed \in BOOLEAN : \E x \in ExitRecorded(svc[s], failed) :
          \/ svc' = [svc EXCEPT ![s] = LeftBehind(x)]
          \/ svc' = [svc EXCEPT ![s] = [x EXCEPT !.state = "stopping", !.reapPending = TRUE]]
          \/ \E o \in ReleaseOutcomes(s, x) : svc' = [svc EXCEPT ![s] = o[1]]
    BY <1>3 DEF LeaderExitObserved
  <2>1. PICK x \in ExitRecorded(svc[s], failed) :
          \/ svc' = [svc EXCEPT ![s] = LeftBehind(x)]
          \/ svc' = [svc EXCEPT ![s] = [x EXCEPT !.state = "stopping", !.reapPending = TRUE]]
          \/ \E o \in ReleaseOutcomes(s, x) : svc' = [svc EXCEPT ![s] = o[1]]
    BY <2>0
  <2>2. x \in Entry
    BY <1>1, ExitRecordedFacts
  <2>3. x.state \in {"backoff", "failed", "stopping"}
    <3> DEFINE z == [svc[s] EXCEPT !.session = @ /\ svc[s].restartAfter]
    <3>1. z \in Entry
      BY <1>1 DEF Entry
    <3>2. x \in RecordFailure(z) \/ x = [z EXCEPT !.state = "stopping"]
      BY DEF ExitRecorded
    <3> HIDE DEF z
    <3>3. CASE x \in RecordFailure(z)
      BY <3>1, <3>3, FailureState
    <3>4. CASE x = [z EXCEPT !.state = "stopping"]
      BY <3>1, <3>4 DEF Entry
    <3> QED BY <3>2, <3>3, <3>4
  <2>4. Truthful(LeftBehind(x))
    BY <2>2, <2>3 DEF LeftBehind, Truthful, Entry
  <2>5. Truthful([x EXCEPT !.state = "stopping", !.reapPending = TRUE])
    BY <2>2 DEF Truthful, Entry
  <2>6. \A o \in ReleaseOutcomes(s, x) : Truthful(o[1])
    BY <2>2, ReleaseTruth
  <2> QED BY <2>1, <2>4, <2>5, <2>6, OneTruth
<1>4. CASE Settle(s) \/ StaleCleared(s)
  <2>1. \/ svc' = [svc EXCEPT ![s].state = "running"]
        \/ ~svc[s].owned /\ svc' = [svc EXCEPT ![s].state = IdleState(svc[s])]
    BY <1>4 DEF Settle, StaleCleared, RestartPhases
  <2>2. Truthful([svc[s] EXCEPT !.state = "running"])
    BY <1>1 DEF Truthful, Entry
  <2>3. ~svc[s].owned => Truthful([svc[s] EXCEPT !.state = IdleState(svc[s])])
    BY <1>1 DEF Truthful, Entry
  <2> QED BY <2>1, <2>2, <2>3, OneTruth
<1>5. CASE Escalate(s) \/ StopUnverified(s)
  <2>1. /\ Truthful([svc[s] EXCEPT !.killSent = TRUE])
        /\ Truthful([svc[s] EXCEPT !.unverified = TRUE])
    BY <1>1 DEF Truthful, Entry
  <2> QED BY <1>5, <2>1, OneTruth DEF Escalate, StopUnverified
<1>6. CASE Release(s)
  <2>1. PICK o \in ReleaseOutcomes(s, svc[s]) : svc' = [svc EXCEPT ![s] = o[1]]
    BY <1>6 DEF Release
  <2>2. Truthful(o[1])
    BY <1>1, ReleaseTruth
  <2> QED BY <2>1, <2>2, OneTruth
<1>7. CASE GameResume(s) \/ LifecycleResume(s)
  <2>1. PICK w \in {[svc[s] EXCEPT !.gameLatch = FALSE], [svc[s] EXCEPT !.lifecycle = FALSE]} :
          Resume(s, w)
    BY <1>7 DEF GameResume, LifecycleResume
  <2>2. ~svc[s].owned
    BY <1>7 DEF GameResume, LifecycleResume, RestartPhases
  <2>3. w \in Entry /\ ~w.owned
    BY <1>1, <2>2, ZenonT(60) DEF Entry
  <2>4. PICK r \in StartOutcomes(s, svc[s], pkg) :
          svc' = [svc EXCEPT ![s] = Resumed(s, svc[s], w, r)]
    BY <2>1 DEF Resume
  <2> DEFINE y == Started(s, w, r)
             z == Started(s, svc[s], r)
  <2>5. /\ r \in {"ok", "stale", "failed"} /\ y \in Entry /\ z \in Entry
        /\ r = "ok" => y.state = "starting"
        /\ r # "ok" => ~y.owned
    BY <1>1, <2>2, <2>3, LaunchTruth
  <2>6. Resumed(s, svc[s], w, r) =
          CASE r = "ok" -> y
            [] r = "stale" -> [z EXCEPT !.state = "stale"]
            [] OTHER -> [y EXCEPT !.state = IdleState(svc[s])]
    BY DEF Resumed
  <2> HIDE DEF y, z
  <2>7. Truthful(Resumed(s, svc[s], w, r))
    BY <2>5, <2>6 DEF Truthful, Entry
  <2> QED BY <2>4, <2>7, OneTruth
<1>8. ASSUME BackoffRetry(s) \/ StaleRetry(s) \/ Autostart(s)
      PROVE  IdleMeansNotRunning'
  <2>1. ~svc[s].owned
    BY <1>8 DEF BackoffRetry, StaleRetry, Autostart, RestartPhases
  <2>2. PICK r \in StartOutcomes(s, svc[s], pkg) :
          LET x == Started(s, svc[s], r)
          IN  \/ r = "ok" /\ svc' = [svc EXCEPT ![s] = x]
              \/ r = "ok" /\ svc' = [svc EXCEPT ![s] = [x EXCEPT !.lifecycle = FALSE]]
              \/ r = "stale" /\ svc' = [svc EXCEPT ![s] = [x EXCEPT !.state = "stale"]]
              \/ r = "stale" /\ svc' = [svc EXCEPT ![s] = x]
              \/ r \notin {"ok", "stale"} /\ svc[s].state = "backoff"
                    /\ \E y \in RetryFailed(x) : svc' = [svc EXCEPT ![s] = y]
              \/ r \notin {"ok", "stale"} /\ svc' = [svc EXCEPT ![s] =
                    [x EXCEPT !.session = FALSE, !.autostart = FALSE,
                              !.state = IF x.owned THEN @ ELSE IdleState(x)]]
              \/ r = "failed" /\ svc' = [svc EXCEPT ![s] =
                    [x EXCEPT !.autostart = FALSE, !.state = IdleState(x)]]
              \/ r \notin {"ok", "stale", "failed"}
    <3>1. CASE BackoffRetry(s)
      BY <3>1 DEF BackoffRetry
    <3>2. CASE StaleRetry(s)
      BY <3>2 DEF StaleRetry
    <3>3. CASE Autostart(s)
      BY <3>3 DEF Autostart
    <3> QED BY <1>8, <3>1, <3>2, <3>3
  <2> DEFINE x == Started(s, svc[s], r)
  <2>3. /\ r \in {"ok", "stale", "failed"} /\ x \in Entry
        /\ r = "ok" => x.state = "starting"
        /\ r # "ok" => ~x.owned
    BY <1>1, <2>1, LaunchTruth
  <2>4. \/ r = "ok" /\ svc' = [svc EXCEPT ![s] = x]
        \/ r = "ok" /\ svc' = [svc EXCEPT ![s] = [x EXCEPT !.lifecycle = FALSE]]
        \/ r = "stale" /\ svc' = [svc EXCEPT ![s] = [x EXCEPT !.state = "stale"]]
        \/ r = "stale" /\ svc' = [svc EXCEPT ![s] = x]
        \/ r = "failed" /\ \E y \in RetryFailed(x) : svc' = [svc EXCEPT ![s] = y]
        \/ r = "failed" /\ svc' = [svc EXCEPT ![s] =
              [x EXCEPT !.session = FALSE, !.autostart = FALSE,
                        !.state = IF x.owned THEN @ ELSE IdleState(x)]]
        \/ r = "failed" /\ svc' = [svc EXCEPT ![s] =
              [x EXCEPT !.autostart = FALSE, !.state = IdleState(x)]]
    BY <2>2, <2>3
  <2> HIDE DEF x
  <2>5. r = "ok" => Truthful(x) /\ Truthful([x EXCEPT !.lifecycle = FALSE])
    BY <2>3 DEF Truthful, Entry
  <2>6. r = "stale" => Truthful(x) /\ Truthful([x EXCEPT !.state = "stale"])
    BY <2>3 DEF Truthful, Entry
  <2>7. r = "failed" => \A y \in RetryFailed(x) : Truthful(y)
    BY <2>3, RetryFailedFacts DEF Truthful, SameRuntime
  <2>8. r = "failed" =>
          /\ Truthful([x EXCEPT !.session = FALSE, !.autostart = FALSE,
                                !.state = IF x.owned THEN @ ELSE IdleState(x)])
          /\ Truthful([x EXCEPT !.autostart = FALSE, !.state = IdleState(x)])
    BY <2>3 DEF Truthful, Entry
  <2> QED BY <2>4, <2>5, <2>6, <2>7, <2>8, OneTruth
<1> QED BY <1>2, <1>3, <1>4, <1>5, <1>6, <1>7, <1>8 DEF TickStep

-----------------------------------------------------------------------------
(* The steps over all services *)

LEMMA PackageTruth ==
    ASSUME IInv, LaunchesUndone, IdleMeansNotRunning, PackageBegin \/ PackageEnd
    PROVE  IdleMeansNotRunning'
PROOF
<1> SUFFICES ASSUME NEW s \in Services
             PROVE  Truthful(svc'[s])
  BY DEF IdleMeansNotRunning, Truthful
<1>1. svc[s] \in Entry /\ svc \in [Services -> Entry] /\ Truthful(svc[s]) /\ TypeOK
  BY DEF IInv, TypeOK, IdleMeansNotRunning, Truthful
<1>2. CASE PackageBegin
  <2>1. \/ \E o : svc'[s] = SyncStopped(Quiesced(svc[s]), o)
        \/ ~svc[s].owned /\ svc'[s] = Quiesced(svc[s])
    BY <1>2 DEF PackageBegin, Owned
  <2>2. Quiesced(svc[s]) \in Entry /\ Quiesced(svc[s]).owned = svc[s].owned
    BY <1>1, QuiescedFacts
  <2> QED BY <2>1, <2>2, StopTruth DEF Truthful
<1>3. CASE PackageEnd
  <2>1. PICK disk \in Disks, lost \in Losses :
          LET free == [t \in Services |-> Unquiesced(Scanned(svc, disk, lost)[t])]
          IN  \E r : /\ \A t \in Services : r[t] \in RestoreOutcomes(t, free[t])
                     /\ svc' = [t \in Services |-> Restored(t, free[t], r[t])]
    BY <1>3 DEF PackageEnd
  <2> DEFINE x == Scanned(svc, disk, lost)[s]
             y == Unquiesced(x)
  <2>2. PICK r : r \in RestoreOutcomes(s, y) /\ svc'[s] = Restored(s, y, r)
    BY <2>1
  <2>3. x \in Entry /\ Truthful(x)
    <3>1. svc[s].restartAfter => svc[s].owned
      BY DEF IInv, EntryInv, Linked
    <3> QED BY <1>1, <3>1, ScannedFacts, ScanTruth
  <2>4. ~x.owned
    <3>1. svc[s].restartAfter => svc[s].owned
      BY DEF IInv, EntryInv, Linked
    <3>2. ~svc[s].owned
      BY <1>3 DEF PackageEnd, IInv, EntryInv, Behind
    <3> QED BY <1>1, <3>1, <3>2, ScannedFacts DEF SameRuntime
  <2> HIDE DEF x
  <2>5. y \in Entry /\ ~y.owned
    BY <2>3, <2>4, UnquiescedFacts
  <2> HIDE DEF y
  <2> DEFINE w == [y EXCEPT !.fails = 0, !.breaker = FALSE]
             z == Started(s, w, r)
  <2>6. CASE r = "none"
    BY <2>2, <2>5, <2>6 DEF Restored, Truthful
  <2>7. CASE r # "none"
    <3>1. r \in StartOutcomes(s, y, FALSE)
      BY <2>2, <2>7 DEF RestoreOutcomes
    <3>2. w \in Entry /\ ~w.owned
      BY <2>5, NoFailures DEF Entry
    <3> HIDE DEF w
    <3>3. /\ r \in {"ok", "stale", "failed"} /\ z \in Entry
          /\ r = "ok" => z.state = "starting"
          /\ r # "ok" => ~z.owned
      BY <2>5, <3>1, <3>2, LaunchTruth
    <3>4. svc'[s] = z \/ svc'[s] = [z EXCEPT !.state = "stale"]
      BY <2>2, <2>7 DEF Restored, w
    <3> HIDE DEF z
    <3> QED BY <3>3, <3>4 DEF Truthful, Entry
  <2> QED BY <2>6, <2>7
<1> QED BY <1>2, <1>3

LEMMA LifecycleStopTruth ==
    ASSUME IInv, IdleMeansNotRunning,
           NEW t \in Triggers, NEW fires, NEW out, NEW scans,
           LifecycleStop(t, fires, out, scans)
    PROVE  IdleMeansNotRunning'
PROOF
<1> DEFINE entries == IF fires THEN AfterStops(t, out) ELSE svc
<1> SUFFICES ASSUME NEW s \in Services
             PROVE  Truthful(svc'[s])
  BY DEF IdleMeansNotRunning, Truthful
<1>1. svc[s] \in Entry /\ Truthful(svc[s]) /\ TypeOK
  BY DEF IInv, TypeOK, IdleMeansNotRunning, Truthful
<1>2. entries[s] \in Entry /\ Truthful(entries[s])
  <2> DEFINE x == [svc[s] EXCEPT !.reason = t, !.autostart = FALSE,
                                 !.restartAfter = FALSE, !.lifecycle = TRUE]
  <2>1. x \in Entry
    BY <1>1 DEF Entry, Triggers, Reasons
  <2>2. entries[s] = svc[s] \/ entries[s] = SyncStopped(x, out[s])
    BY DEF AfterStops
  <2> HIDE DEF x, entries
  <2>3. SyncStopped(x, out[s]) \in Entry
    <3>1. CASE out[s] = "stopped"
      BY <2>1, <3>1, FreedFacts, IdleStateType, StateType DEF SyncStopped
    <3>2. CASE out[s] # "stopped"
      BY <2>1, <3>2 DEF SyncStopped, Entry, EffectiveStates
    <3> QED BY <3>1, <3>2
  <2> QED BY <1>1, <2>1, <2>2, <2>3, StopTruth
<1>3. \/ svc' = entries
      \/ \E disk \in Disks, lost \in Losses : svc' = Scanned(entries, disk, lost)
  BY DEF LifecycleStop
<1> HIDE DEF entries
<1> QED BY <1>2, <1>3, ScanTruth

LEMMA StepTruth ==
    ASSUME IInv, LaunchesUndone, IdleMeansNotRunning, [Next]_vars
    PROVE  IdleMeansNotRunning'
PROOF
<1>1. UNCHANGED svc => IdleMeansNotRunning'
  BY DEF IdleMeansNotRunning
<1>2. CASE DaemonStart
  <2> DEFINE loaded == [s \in Services |-> LoadControl(store[s])]
  <2>1. PICK disk \in Disks, lost \in Losses : svc' = Scanned(loaded, disk, lost)
    BY <1>2 DEF DaemonStart
  <2>2. ASSUME NEW s \in Services
        PROVE  loaded[s] \in Entry /\ Truthful(loaded[s])
    BY LoadControlType DEF IInv, TypeOK, LoadControl, Truthful
  <2> HIDE DEF loaded
  <2>3. \A s \in Services : Truthful(svc'[s])
    BY <2>1, <2>2, ScanTruth
  <2> QED BY <2>3 DEF IdleMeansNotRunning, Truthful
<1>3. CASE Crash \/ Shutdown
  <2>1. svc' = [s \in Services |-> Unlisted]
    BY <1>3 DEF Crash, Shutdown, DaemonGone
  <2>2. Truthful(Unlisted)
    BY DEF Unlisted, LoadControl, Truthful
  <2> QED BY <2>1, <2>2 DEF IdleMeansNotRunning, Truthful
<1>4. ASSUME NEW s \in Services, ProcessStep(s)
      PROVE  UNCHANGED svc
  BY <1>4 DEF ProcessStep, LeaderExits, Fork, DescendantsExit, Escape, StrayExits
<1>5. CASE NoteChildExit \/ CardMoves \/ GameBegin \/ GameFinish \/ UNCHANGED vars
  BY <1>1, <1>5 DEF NoteChildExit, CardMoves, GameBegin, GameFinish, vars
<1>6. ASSUME NEW s \in Services, GameStopService(s)
      PROVE  IdleMeansNotRunning'
  <2> DEFINE y == [svc[s] EXCEPT !.lifecycle = FALSE, !.gameLatch = TRUE,
                                 !.restartAfter = FALSE, !.reason = "game",
                                 !.autostart = FALSE]
  <2>1. y \in Entry
    <3>1. svc[s] \in Entry
      BY DEF IInv, TypeOK
    <3> QED BY <3>1 DEF Entry, Reasons
  <2>2. PICK o \in StopOutcomes : svc' = [svc EXCEPT ![s] = SyncStopped(y, o)]
    BY <1>6 DEF GameStopService
  <2> HIDE DEF y
  <2> QED BY <2>1, <2>2, StopTruth, OneTruth
<1>7. CASE Suspend \/ SafeUnmount \/ StorageTick
  <2>1. \/ UNCHANGED svc
        \/ \E t \in Triggers : \E fires, out, scans : LifecycleStop(t, fires, out, scans)
    BY <1>7 DEF Suspend, SafeUnmount, StorageTick, Triggers
  <2> QED BY <1>1, <2>1, LifecycleStopTruth
<1>8. CASE Rescan
  <2>1. PICK disk \in Disks, lost \in Losses : svc' = Scanned(svc, disk, lost)
    BY <1>8 DEF Rescan
  <2>2. \A s \in Services : svc[s] \in Entry /\ Truthful(svc[s])
    BY DEF IInv, TypeOK, IdleMeansNotRunning, Truthful
  <2>3. \A s \in Services : Truthful(svc'[s])
    BY <2>1, <2>2, ScanTruth
  <2> QED BY <2>3 DEF IdleMeansNotRunning, Truthful
<1> QED BY <1>1, <1>2, <1>3, <1>4, <1>5, <1>6, <1>7, <1>8, UserTruth, TickTruth,
           PackageTruth DEF Next, BarrierStep

\* For every set of services and every policy, with the store, the stops and
\* the reaping free to fail: where a launch that cannot be recorded is undone,
\* no request, exit, retry, resume, scan or barrier reports a service stopped or
\* disabled whose group is still owned (jw__entry_idle_state,
\* jw__entry_release_runtime and their callers).
THEOREM IdleIsTruthful == LaunchesUndone => (Spec => []IdleMeansNotRunning)
PROOF
<1> SUFFICES ASSUME LaunchesUndone PROVE Spec => []IdleMeansNotRunning
  OBVIOUS
<1>1. Init => IdleMeansNotRunning
  BY DEF Init, IdleMeansNotRunning, Unlisted, LoadControl
<1>2. IInv /\ IdleMeansNotRunning /\ [Next]_vars => IdleMeansNotRunning'
  BY StepTruth
<1> QED BY <1>1, <1>2, Invariance, PTL DEF Spec

-----------------------------------------------------------------------------
(* Restart backoff: the breaker of SvcBackoff opens exactly when it        *)
(* should, for every window, limit and range of the clock.                 *)

\* The comparisons that avoid an overflow decide what the difference would.
LEMMA WithinExact ==
    \A o, n \in Stamps : Within(o, n) <=> n - o <= Window
  BY BackoffAssumption DEF Within, Stamps

\* A time is a number.
LEMMA StampsAreIntegers == \A s \in Stamps : s \in Int
  BY BackoffAssumption DEF Stamps

\* Before the first failure nothing is kept.
LEMMA EmptyStreak ==
    ASSUME NEW s, s = <<>>
    PROVE  s \in Seq(Stamps) /\ Len(s) = 0
  OBVIOUS

\* At each failure one time is the latest shown.
LEMMA PeakUnique ==
    ASSUME NEW l \in Seq(Stamps), NEW i \in 1..Len(l), NEW a \in Stamps, NEW b \in Stamps,
           IsPeak(l, a, i), IsPeak(l, b, i)
    PROVE  a = b
  <1>1. a <= b
    BY DEF IsPeak
  <1>2. b <= a
    BY DEF IsPeak
  <1> QED
    BY <1>1, <1>2, StampsAreIntegers

\* A failure more leaves what was shown before as it was.
LEMMA PeaksStay ==
    ASSUME NEW l \in Seq(Stamps), NEW t \in Stamps, NEW m \in Stamps, NEW i \in 1..Len(l)
    PROVE  IsPeak(Append(l, t), m, i) <=> IsPeak(l, m, i)
  <1>1. \A j \in 1..i : Append(l, t)[j] = l[j]
    OBVIOUS
  <1> QED
    BY <1>1 DEF IsPeak

\* The later of the new time and the latest shown is the latest shown.
LEMMA PeakGrows ==
    ASSUME NEW l \in Seq(Stamps), l # <<>>, NEW t \in Stamps, NEW p \in Stamps,
           IsPeak(l, p, Len(l))
    PROVE  IsPeak(Append(l, t), IF t < p THEN p ELSE t, Len(l) + 1)
  <1>1. /\ Len(l) \in Nat /\ Append(l, t)[Len(l) + 1] = t
        /\ \A j \in 1..Len(l) : Append(l, t)[j] = l[j] /\ l[j] \in Int
        /\ p \in Int /\ t \in Int
    <2>1. \A j \in 1..Len(l) : l[j] \in Stamps /\ Append(l, t)[j] = l[j]
      OBVIOUS
    <2>2. Len(l) \in Nat /\ Append(l, t)[Len(l) + 1] = t
      OBVIOUS
    <2> QED
      BY <2>1, <2>2, StampsAreIntegers
  <1>2. PICK j \in 1..Len(l) : l[j] = p
    BY DEF IsPeak
  <1>3. \A k \in 1..Len(l) : l[k] <= p
    BY DEF IsPeak
  <1>4. \A k \in 1..(Len(l) + 1) : k \in 1..Len(l) \/ k = Len(l) + 1
    BY <1>1
  <1>5. CASE t < p
    <2>1. j \in 1..(Len(l) + 1) /\ Append(l, t)[j] = p
      BY <1>1, <1>2
    <2>2. \A k \in 1..(Len(l) + 1) : Append(l, t)[k] <= p
      BY <1>1, <1>3, <1>4, <1>5
    <2> QED
      BY <1>5, <2>1, <2>2 DEF IsPeak
  <1>6. CASE ~(t < p)
    <2>1. Len(l) + 1 \in 1..(Len(l) + 1)
      BY <1>1
    <2>2. \A k \in 1..(Len(l) + 1) : Append(l, t)[k] <= t
      BY <1>1, <1>3, <1>4, <1>6
    <2> QED
      BY <1>1, <1>6, <2>1, <2>2 DEF IsPeak
  <1> QED
    BY <1>5, <1>6

-----------------------------------------------------------------------------
\* What the code keeps is the latest time shown at each of the last failures.
KeptArePeaks ==
    /\ Len(times) = (IF Len(log) < Tracked THEN Len(log) ELSE Tracked)
    /\ \A k \in 1..Len(times) : IsPeak(log, times[k], Len(log) - Len(times) + k)

BackoffInv == BackoffTypeOK /\ KeptArePeaks /\ BreakerFair

\* The clamped time is the latest shown, this failure included.
LEMMA ClampedIsPeak ==
    ASSUME BackoffTypeOK, KeptArePeaks, NEW t \in Stamps
    PROVE  Clamped(t) \in Stamps /\ IsPeak(Append(log, t), Clamped(t), Len(log) + 1)
  <1>1. CASE times = <<>>
    <2>1. log = <<>>
      BY <1>1, BackoffAssumption DEF KeptArePeaks, BackoffTypeOK
    <2>2. Append(log, t) = <<t>> /\ Len(log) + 1 = 1 /\ t <= t
      BY <2>1, StampsAreIntegers
    <2>3. IsPeak(Append(log, t), t, Len(log) + 1)
      BY <2>2 DEF IsPeak
    <2> QED
      BY <1>1, <2>3 DEF Clamped
  <1>2. CASE times # <<>>
    <2>1. Len(times) \in 1..Len(times) /\ times[Len(times)] \in Stamps
      BY <1>2 DEF BackoffTypeOK
    <2>2. log # <<>> /\ Len(log) - Len(times) + Len(times) = Len(log)
      BY <2>1, BackoffAssumption DEF KeptArePeaks, BackoffTypeOK
    <2>3. IsPeak(log, times[Len(times)], Len(log))
      BY <2>1, <2>2 DEF KeptArePeaks
    <2>4. IsPeak(Append(log, t), IF t < times[Len(times)] THEN times[Len(times)] ELSE t,
                 Len(log) + 1)
      BY <2>1, <2>2, <2>3, PeakGrows DEF BackoffTypeOK
    <2> QED
      BY <1>2, <2>1, <2>4 DEF Clamped
  <1> QED
    BY <1>1, <1>2

\* A failure keeps the latest times shown.
LEMMA RecordKeepsPeaks ==
    ASSUME BackoffTypeOK, KeptArePeaks, NEW t \in Stamps, RecordAt(t)
    PROVE  BackoffTypeOK' /\ KeptArePeaks'
  <1> DEFINE c == Clamped(t)
  <1>1. c \in Stamps /\ IsPeak(Append(log, t), c, Len(log) + 1)
    BY ClampedIsPeak
  <1>2. /\ times \in Seq(Stamps) /\ log \in Seq(Stamps)
        /\ Len(times) \in Nat /\ Len(log) \in Nat /\ Tracked \in Nat \ {0}
    BY BackoffAssumption DEF BackoffTypeOK
  <1>3. /\ log' = Append(log, t) /\ log' \in Seq(Stamps) /\ Len(log') = Len(log) + 1
        /\ Len(log') <= MaxLog /\ open' \in BOOLEAN
    BY <1>2, BackoffAssumption DEF RecordAt
  <1>4. CASE Len(times) < Tracked
    <2>1. Len(times) = Len(log)
      BY <1>2, <1>4 DEF KeptArePeaks
    <2>2. times' = Append(times, c)
      BY <1>4 DEF RecordAt, Pushed
    <2> HIDE DEF c
    <2>3. /\ times' \in Seq(Stamps) /\ Len(times') = Len(times) + 1
          /\ \A k \in 1..Len(times) : times'[k] = times[k] /\ times[k] \in Stamps
          /\ times'[Len(times) + 1] = c
      BY <1>1, <1>2, <2>2
    <2>4. \A k \in 1..Len(times) : IsPeak(log', times'[k], Len(log') - Len(times') + k)
      <3> TAKE k \in 1..Len(times)
      <3>1. IsPeak(log, times[k], Len(log) - Len(times) + k)
        BY DEF KeptArePeaks
      <3>2. Len(log) - Len(times) + k = k /\ Len(log') - Len(times') + k = k /\ k \in 1..Len(log)
        BY <1>2, <1>3, <2>1, <2>3
      <3> QED
        BY <1>2, <1>3, <2>3, <3>1, <3>2, PeaksStay
    <2>5. IsPeak(log', times'[Len(times')], Len(log'))
      BY <1>1, <1>3, <2>3
    <2>6. \A k \in 1..Len(times') : k \in 1..Len(times) \/ k = Len(times')
      BY <1>2, <2>3
    <2>7. Len(log') - Len(times') + Len(times') = Len(log')
      BY <1>2, <1>3, <2>3
    <2>8. KeptArePeaks'
      BY <1>2, <1>3, <1>4, <2>1, <2>3, <2>4, <2>5, <2>6, <2>7 DEF KeptArePeaks
    <2> QED
      BY <1>2, <1>3, <1>4, <2>3, <2>8 DEF BackoffTypeOK
  <1>5. CASE Len(times) >= Tracked
    <2>1. Len(times) = Tracked /\ Len(log) >= Tracked /\ times # <<>>
      BY <1>2, <1>5 DEF KeptArePeaks
    <2>2. times' = Append(Tail(times), c)
      BY <1>2, <2>1 DEF RecordAt, Pushed
    <2> HIDE DEF c
    <2>3. /\ Tail(times) \in Seq(Stamps) /\ Len(Tail(times)) = Tracked - 1
          /\ \A k \in 1..(Tracked - 1) : Tail(times)[k] = times[k + 1]
      BY <1>2, <2>1
    <2>4. /\ times' \in Seq(Stamps) /\ Len(times') = Tracked
          /\ \A k \in 1..(Tracked - 1) : times'[k] = times[k + 1] /\ times[k + 1] \in Stamps
          /\ times'[Tracked] = c
      BY <1>1, <1>2, <2>1, <2>2, <2>3
    <2>5. \A k \in 1..(Tracked - 1) : IsPeak(log', times'[k], Len(log') - Len(times') + k)
      <3> TAKE k \in 1..(Tracked - 1)
      <3>1. k + 1 \in 1..Len(times)
        BY <1>2, <2>1
      <3>2. IsPeak(log, times[k + 1], Len(log) - Len(times) + (k + 1))
        BY <3>1 DEF KeptArePeaks
      <3>3. /\ Len(log') - Len(times') + k = Len(log) - Len(times) + (k + 1)
            /\ Len(log) - Len(times) + (k + 1) \in 1..Len(log)
        BY <1>2, <1>3, <2>1, <2>4
      <3> QED
        BY <1>2, <1>3, <2>4, <3>2, <3>3, PeaksStay
    <2>6. IsPeak(log', times'[Tracked], Len(log'))
      BY <1>1, <1>3, <2>4
    <2>7. \A k \in 1..Len(times') : k \in 1..(Tracked - 1) \/ k = Tracked
      BY <1>2, <2>4
    <2>8. Len(log') - Len(times') + Tracked = Len(log')
      BY <1>2, <1>3, <2>4
    <2>9. KeptArePeaks'
      <3>1. Len(times') = (IF Len(log') < Tracked THEN Len(log') ELSE Tracked)
        BY <1>2, <1>3, <2>1, <2>4
      <3>2. \A k \in 1..Len(times') : IsPeak(log', times'[k], Len(log') - Len(times') + k)
        <4> TAKE k \in 1..Len(times')
        <4>1. CASE k = Tracked
          BY <2>4, <2>6, <2>8, <4>1
        <4> QED
          BY <2>5, <2>7, <4>1
      <3> QED
        BY <3>1, <3>2 DEF KeptArePeaks
    <2> QED
      BY <1>2, <1>3, <2>4, <2>9 DEF BackoffTypeOK
  <1> QED
    BY <1>2, <1>4, <1>5

\* The breaker opens at the failure that completes a burst.
LEMMA RecordIsFair ==
    ASSUME BackoffInv, NEW t \in Stamps, RecordAt(t)
    PROVE  BreakerFair'
  <1> DEFINE n == Len(log) + 1
             i0 == n - Tracked + 1
  <1>1. BackoffTypeOK' /\ KeptArePeaks'
    BY RecordKeepsPeaks DEF BackoffInv
  <1>2. /\ log \in Seq(Stamps) /\ Len(log) \in Nat /\ Tracked \in Nat \ {0}
        /\ log' = Append(log, t) /\ Len(log') = n /\ log' \in Seq(Stamps)
    BY BackoffAssumption DEF BackoffInv, BackoffTypeOK, RecordAt
  <1>3. \A i \in 1..(Len(log) - Tracked + 1) : ~Burst(log', i)
    <2> TAKE i \in 1..(Len(log) - Tracked + 1)
    <2>1. ~Burst(log, i)
      BY DEF BackoffInv, BreakerFair, RecordAt
    <2>2. i \in 1..Len(log) /\ i + Tracked - 1 \in 1..Len(log)
      BY <1>2
    <2>3. ASSUME NEW a \in Stamps, NEW b \in Stamps, b - a <= Window,
                 IsPeak(log', a, i), IsPeak(log', b, i + Tracked - 1)
          PROVE  FALSE
      <3>1. IsPeak(log, a, i) /\ IsPeak(log, b, i + Tracked - 1)
        BY <1>2, <2>2, <2>3, PeaksStay
      <3> QED
        BY <2>1, <2>3, <3>1 DEF Burst
    <2> HIDE DEF n, i0
    <2> QED
      BY <2>3 DEF Burst
  <1>4. CASE n < Tracked
    <2>1. Len(times') # Tracked
      BY <1>1, <1>2, <1>4 DEF KeptArePeaks
    <2>2. ~open'
      BY <2>1 DEF RecordAt
    <2>3. 1..(Len(log') - Tracked + 1) = {}
      BY <1>2, <1>4
    <2> QED
      BY <2>2, <2>3 DEF BreakerFair
  <1>5. CASE n >= Tracked
    <2>1. /\ Len(times') = Tracked /\ i0 \in 1..n /\ i0 + Tracked - 1 = n /\ n \in 1..n
          /\ n - Tracked + 1 = i0 /\ n - Tracked + Tracked = n
      BY <1>1, <1>2, <1>5 DEF KeptArePeaks
    <2>2. /\ times'[1] \in Stamps /\ times'[Tracked] \in Stamps
          /\ 1 \in 1..Len(times') /\ Tracked \in 1..Len(times')
      BY <1>1, <1>2, <2>1 DEF BackoffTypeOK
    <2>3. IsPeak(log', times'[1], i0) /\ IsPeak(log', times'[Tracked], n)
      BY <1>1, <1>2, <2>1, <2>2 DEF KeptArePeaks
    <2>4. open' <=> times'[Tracked] - times'[1] <= Window
      BY <2>1, <2>2, WithinExact DEF RecordAt
    <2> HIDE DEF n, i0
    <2>5. ASSUME Burst(log', i0)
          PROVE  times'[Tracked] - times'[1] <= Window
      <3>1. PICK a \in Stamps, b \in Stamps :
                IsPeak(log', a, i0) /\ IsPeak(log', b, n) /\ b - a <= Window
        BY <2>1, <2>5 DEF Burst
      <3>2. a = times'[1]
        BY <1>2, <2>1, <2>2, <2>3, <3>1, PeakUnique
      <3>3. b = times'[Tracked]
        BY <1>2, <2>1, <2>2, <2>3, <3>1, PeakUnique
      <3> QED
        BY <3>1, <3>2, <3>3
    <2>6. open' <=> Burst(log', i0)
      BY <2>1, <2>2, <2>3, <2>4, <2>5 DEF Burst
    <2>7. /\ i0 \in 1..(Len(log') - Tracked + 1)
          /\ \A i \in 1..(Len(log') - Tracked + 1) :
                i \in 1..(Len(log) - Tracked + 1) \/ i = i0
      BY <1>2, <2>1 DEF n, i0
    <2> QED
      BY <1>3, <2>6, <2>7 DEF BreakerFair
  <1> QED
    BY <1>2, <1>4, <1>5

\* The times kept, the breaker and the streak fit each other in every state.
THEOREM BackoffInvariant == BackoffSpec => []BackoffInv
  <1>1. ASSUME BackoffInit
        PROVE  BackoffInv
    <2>1. /\ times \in Seq(Stamps) /\ Len(times) = 0
          /\ log \in Seq(Stamps) /\ Len(log) = 0
      BY <1>1, EmptyStreak DEF BackoffInit
    <2>2. open = FALSE
      BY <1>1 DEF BackoffInit
    <2>3. BackoffTypeOK
      <3>1. open \in BOOLEAN
        BY <2>2
      <3> QED
        BY <2>1, <3>1, BackoffAssumption DEF BackoffTypeOK
    <2>4. KeptArePeaks
      BY <2>1, BackoffAssumption DEF KeptArePeaks
    <2>5. 1..(Len(log) - Tracked + 1) = {}
      BY <2>1, BackoffAssumption
    <2> QED
      BY <2>2, <2>3, <2>4, <2>5 DEF BackoffInv, BreakerFair
  <1>2. BackoffInv /\ [BackoffNext]_backoffVars => BackoffInv'
    <2> SUFFICES ASSUME BackoffInv, [BackoffNext]_backoffVars
                 PROVE  BackoffInv'
      OBVIOUS
    <2>1. ASSUME NEW t \in Stamps, RecordAt(t)
          PROVE  BackoffInv'
      BY <2>1, RecordKeepsPeaks, RecordIsFair DEF BackoffInv
    <2>2. CASE ResetBackoff
      <3>1. /\ times' \in Seq(Stamps) /\ Len(times') = 0
            /\ log' \in Seq(Stamps) /\ Len(log') = 0
        BY <2>2, EmptyStreak DEF ResetBackoff
      <3>2. open' = FALSE
        BY <2>2 DEF ResetBackoff
      <3>3. BackoffTypeOK'
        <4>1. open' \in BOOLEAN
          BY <3>2
        <4> QED
          BY <3>1, <4>1, BackoffAssumption DEF BackoffTypeOK
      <3>4. KeptArePeaks'
        BY <3>1, BackoffAssumption DEF KeptArePeaks
      <3>5. 1..(Len(log') - Tracked + 1) = {}
        BY <3>1, BackoffAssumption
      <3> QED
        BY <3>2, <3>3, <3>4, <3>5 DEF BackoffInv, BreakerFair
    <2>3. CASE UNCHANGED backoffVars
      BY <2>3 DEF backoffVars, BackoffInv, BackoffTypeOK, KeptArePeaks, BreakerFair
    <2> QED
      BY <2>1, <2>2, <2>3 DEF BackoffNext
  <1> QED
    BY <1>1, <1>2, PTL DEF BackoffSpec

\* The breaker is open exactly when the failures since the last reset call for it.
THEOREM BreakerIsFair == BackoffSpec => []BreakerFair
  <1>1. BackoffInv => BreakerFair
    BY DEF BackoffInv
  <1> QED
    BY <1>1, BackoffInvariant, PTL
=============================================================================
