---------------------------- MODULE SvcGeneration ----------------------------
(***************************************************************************)
(* What SVC-1 promises about the processes of background services, without *)
(* saying how the supervisor keeps the promise: at any time a service has  *)
(* at most one generation.  The daemon holds a generation from its launch  *)
(* until nothing of its process group is left; whoever leaves the group    *)
(* with the inherited lease, or outlives the daemon, bars the next launch  *)
(* for as long as it lives.                                                *)
(*                                                                         *)
(* Services move independently, and several may move in one step: a scan,  *)
(* a barrier or a lifecycle trigger of the daemon handles all of them.     *)
(***************************************************************************)
CONSTANT Services

VARIABLES
    up,        \* the daemon runs
    held,      \* services whose generation the daemon holds
    groups,    \* services with a live process in the group the daemon started
    holders,   \* services with a live lease holder outside any such group
    permit     \* somebody may replace the packages

generationVars == <<up, held, groups, holders, permit>>

Init ==
    /\ up = FALSE /\ permit = FALSE
    /\ held = {} /\ groups = {} /\ holders = {}

\* A new generation needs that nothing of the earlier ones lives.
Launch(s) ==
    /\ s \notin groups /\ s \in groups'
    /\ s \notin holders /\ s \notin holders'
    /\ s \in held'

\* Processes die, and the daemon lets go of a group only when it is empty.  What
\* it takes hold of without a launch is a dead leader still to be reaped.
Ends(s) ==
    /\ s \in groups' => s \in groups
    /\ s \in holders' => s \in holders
    /\ s \in held /\ s \notin held' => s \notin groups'

\* A member leaves the group and keeps the lease.
Detach(s) ==
    /\ s \in groups /\ s \in groups'
    /\ s \notin holders /\ s \in holders'
    /\ s \in held /\ s \in held'

\* Packages may be replaced only while no generation is held.
Serve ==
    /\ up' = up
    /\ permit' => up /\ held' = {}
    /\ \A s \in Services : Launch(s) \/ Ends(s) \/ Detach(s)

\* A daemon starts with nothing but what earlier ones left behind.
Open ==
    /\ ~up /\ up'
    /\ UNCHANGED <<held, groups, holders, permit>>

\* The daemon dies or shuts down; what is still alive holds its lease.
Close ==
    /\ up /\ ~up'
    /\ held' = {} /\ groups' = {} /\ ~permit'
    /\ holders \subseteq holders'
    /\ holders' \subseteq holders \cup groups

Next == Serve \/ Open \/ Close

Spec == Init /\ [][Next]_generationVars
=============================================================================
