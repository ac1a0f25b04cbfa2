----------------------------- MODULE LeafUpdate -----------------------------
(***************************************************************************)
(* The update of Leaf itself: the status and the three jobs jawakad keeps  *)
(* (internal/update/update.c and its request handlers in jawakad/main.c),  *)
(* the process that installs (jawaka-update-runner) and the package        *)
(* barrier jawakad holds while the runner replaces the live payload.       *)
(*                                                                         *)
(* Every handler polls the jobs before it acts.  A poll that finds one     *)
(* finished is a step of its own here, as it is when the main loop gets    *)
(* there first.  A runner is a plain child of the daemon, and outlives it. *)
(* What it writes lies in the page cache until its one sync: a power cut   *)
(* before that brings back, of each thing on the card, the value before or *)
(* after any of the writes since the last sync.                            *)
(***************************************************************************)
EXTENDS Naturals, FiniteSets, Sequences

CONSTANTS Releases,     \* the releases the feed offers
          Stock,        \* those installed by the stock boot, not by the runner
          Lean,         \* those that ship no optional directory
          MishapKinds,  \* of "runner", "marker", "busy", "stop", "scan", "restore",
                        \* "power", "restart"
          MaxMishaps,   \* bound: failures and crashes in one behaviour
          MaxDownloads  \* bound: downloads begun in one behaviour

Nothing == "none"
Shipped == "shipped"    \* the release the device has at first
Partial == "torn"       \* a tree removed and not yet copied to its end
Parts == <<"launcher", "optional", "the rest">>   \* in the order they are replaced
\* Those a release ships; what it does not ship is left as it was.
Ships(r) == {p \in 1 .. Len(Parts) : Parts[p] = "optional" => r \notin Lean}

VARIABLES
    update,     \* jw_update_status: [up: jawakad runs, candidate, downloaded,
                \*   fetched: the status is still DOWNLOADED, armed]
    check,      \* the check thread that runs: [scope, queued]
    download,   \* the download child: [release, count: of those begun so far]
    artifact,   \* what lies at the download path
    installing, \* update_install_job.active
    runner,     \* the runners: the child of the running daemon, and the orphan a
                \*   restarted one left (bound: one); each is [at, release, part,
                \*   torn: another one of its release took its stage away]
    result,     \* install-result.json: [state, release]
    live,       \* the payload Leaf runs from
    record,     \* release.json
    marker,     \* the marker without which the next boot does not start Leaf
    payload,    \* releases copied whole to the card for the stock boot
    trigger,    \* the file that makes the next boot install one of them
    kept,       \* what a power cut may bring back of live, record, marker and
                \*   trigger, and the releases in payload it cannot take away
    exposed,    \* history: a write was lost before the install that made it
                \*   reported its end, a marker was not withdrawn, or two runners
                \*   met on the card
    barrier,    \* who holds the supervisor's package barrier
    stuck,      \* a service it stopped is not verified gone
    quiesce,    \* update_package_quiesce_active
    mishaps     \* failures so far

jobs == <<check, download, installing>>
services == <<barrier, stuck, quiesce>>
card == <<live, record, marker, payload, trigger, kept, exposed>>
updateVars == <<update, jobs, artifact, runner, result, card, services, mishaps>>

Owners == {Nothing, "update", "caller"}
NoCheck == [scope |-> Nothing, queued |-> FALSE]
Slots == {"child", "orphan"}
NoRunner == [at |-> "off", release |-> Nothing, part |-> 1, torn |-> FALSE]
Fresh == [up |-> TRUE, fetched |-> FALSE, candidate |-> Nothing, downloaded |-> FALSE,
          armed |-> FALSE]

UpdateTypeOK ==
    /\ update.candidate \in Releases \cup {Nothing}
    /\ {update.up, update.downloaded, update.fetched, update.armed} \subseteq BOOLEAN
    /\ check.scope \in {Nothing, "latest", "all"}
    /\ download.release \in Releases \cup {Nothing} /\ download.count \in 0 .. MaxDownloads
    /\ artifact \in Releases \cup {Nothing}
    /\ \A i \in Slots : runner[i].part \in 1 .. Len(Parts) + 1
    /\ live \in [1 .. Len(Parts) -> Releases \cup {Shipped, Partial}]
    /\ record \in Releases \cup {Shipped}
    /\ payload \subseteq Releases /\ trigger \in Releases \cup {Nothing}
    /\ kept.payload \subseteq payload
    /\ barrier \in Owners
    /\ {installing, marker, exposed, stuck, quiesce} \subseteq BOOLEAN
    /\ mishaps \in 0 .. MaxMishaps

\* The card when all that was written to it has been synced.
OnlyOf(l, r, m, copied, t) ==
    [live |-> [p \in 1 .. Len(Parts) |-> {l[p]}], record |-> {r}, marker |-> {m},
     payload |-> copied, trigger |-> {t}]

UpdateInit ==
    /\ update = Fresh /\ check = NoCheck /\ download = [release |-> Nothing, count |-> 0]
    /\ artifact = Nothing /\ installing = FALSE /\ runner = [i \in Slots |-> NoRunner]
    /\ result = [state |-> Nothing, release |-> Nothing]
    /\ live = [p \in 1 .. Len(Parts) |-> Shipped] /\ record = Shipped /\ marker = TRUE
    /\ payload = {} /\ trigger = Nothing
    /\ kept = OnlyOf(live, record, marker, payload, trigger) /\ exposed = FALSE
    /\ barrier = Nothing /\ stuck = FALSE /\ quiesce = FALSE /\ mishaps = 0

Happens(f) == f \in MishapKinds /\ mishaps < MaxMishaps /\ mishaps' = mishaps + 1
\* Any status but DOWNLOADED: no handler tells them apart.
Says(u) == [u EXCEPT !.fetched = FALSE]

-----------------------------------------------------------------------------
(* What the handlers share.                                                *)

\* jw__clear_candidate
Cleared(u) == [u EXCEPT !.candidate = Nothing, !.downloaded = FALSE, !.armed = FALSE]

\* jw_update_select_option
Selected(u, r) ==
    [Cleared(u) EXCEPT !.candidate = r, !.fetched = FALSE]

\* jw__reply_update_status: refresh_install_result tells an install that
\* awaits its reboot from one that the reboot has finished.
Reply(u) ==
    IF installing \/ result.state # "armed" THEN u
    ELSE IF trigger # Nothing THEN [Says(u) EXCEPT !.armed = TRUE]
    ELSE IF result.release = record THEN [u EXCEPT !.armed = FALSE]
    ELSE u

\* The runner has not ended without a poll that saw it.
Polled == ~(installing /\ runner["child"].at = "exited")

Downloading == download.release # Nothing
DownloadEnds == download' = [download EXCEPT !.release = Nothing]
Checking == check.scope # Nothing

-----------------------------------------------------------------------------
(* The check for releases: a thread that works on a copy of the status.    *)

StartCheck(scope) ==
    /\ check' = [NoCheck EXCEPT !.scope = scope]
    /\ update' = IF scope = "all" THEN update ELSE Says(update)

\* update-check
Check ==
    /\ Polled /\ ~Downloading /\ ~installing /\ ~Checking
    /\ StartCheck("latest")
    /\ UNCHANGED <<download, installing, artifact, runner, result, card, services, mishaps>>

\* update-releases: a load asked for during a routine check runs once that
\* check lands.
LoadReleases ==
    /\ Polled /\ ~Downloading /\ ~installing
    /\ \/ ~Checking /\ StartCheck("all")
       \/ /\ check.scope = "latest"
          /\ check' = [check EXCEPT !.queued = TRUE]
          /\ UNCHANGED update
    /\ UNCHANGED <<download, installing, artifact, runner, result, card, services, mishaps>>

\* jw_update_check_poll over jw__finish_check_job: a routine check replaces the
\* whole status by what it found, one release or none; a load for the picker
\* replaces only the list.  A load that was queued behind starts, unless the
\* check has read every release.
PollCheck ==
    /\ Checking
    /\ \/ check.scope = "all" /\ UNCHANGED update
       \/ check.scope = "latest" /\ update' = Says(Cleared(update))
       \/ check.scope = "latest" /\ \E r \in Releases : update' = Selected(update, r)
    /\ \/ check' = NoCheck
       \/ check.queued /\ check' = [NoCheck EXCEPT !.scope = "all"]
    /\ UNCHANGED <<download, installing, artifact, runner, result, card, services, mishaps>>

\* Mutant of SelectOption: a selection is taken while a download runs.
SelectAnytime(r) ==
    /\ Polled /\ ~Checking /\ ~installing
    /\ update' \in {Reply(Selected(update, r)), Reply(Says(update))}
    /\ UNCHANGED <<jobs, artifact, runner, result, card, services, mishaps>>

\* update-select.  The list it indexes is left out: any release may be on it,
\* or no longer.
SelectOption(r) ==
    /\ Polled /\ ~Checking /\ ~Downloading /\ ~installing
    /\ update' \in {Reply(Selected(update, r)), Reply(Says(update))}
    /\ UNCHANGED <<jobs, artifact, runner, result, card, services, mishaps>>

-----------------------------------------------------------------------------
(* The download: a child that fetches to a temporary file.                 *)

\* update-download
Download ==
    /\ Polled /\ ~Checking /\ ~Downloading /\ ~installing
    /\ ~update.fetched /\ update.candidate # Nothing
    /\ download.count < MaxDownloads
    /\ download' = [release |-> update.candidate, count |-> download.count + 1]
    /\ update' = Reply([Says(update) EXCEPT !.downloaded = FALSE])
    /\ UNCHANGED <<check, installing, artifact, runner, result, card, services, mishaps>>

\* jw__finish_download_job: renamed into place, then verified, and removed
\* again when its hash is not the candidate's; a download that failed before
\* leaves what lies there alone.
PollDownload ==
    /\ Downloading /\ DownloadEnds
    /\ \/ /\ artifact' = download.release
          /\ update' = [update EXCEPT !.downloaded = TRUE, !.fetched = TRUE]
       \/ /\ artifact' \in {Nothing, artifact}
          /\ update' = Says([update EXCEPT !.downloaded = FALSE])
    /\ UNCHANGED <<check, installing, runner, result, card, services, mishaps>>

\* update-cancel
Cancel ==
    /\ Polled /\ ~Checking /\ Downloading /\ DownloadEnds
    /\ update' = Reply([Says(update) EXCEPT !.downloaded = FALSE])
    /\ UNCHANGED <<check, installing, artifact, runner, result, card, services, mishaps>>

-----------------------------------------------------------------------------
(* The install and the package barrier.                                    *)

\* jw_update_install_preflight, for a device that is idle and charged.
Ready == /\ ~installing /\ ~update.armed /\ ~Downloading
         /\ update.downloaded /\ artifact # Nothing

\* jw_svc_supervisor_package_end of operation leaf-update: refused while a
\* survivor is not proved gone or the rescan fails.  A service that cannot be
\* restored is an error that does not keep the barrier.
EndBarrier(ended) ==
    \/ /\ barrier = "update" /\ ~stuck
       /\ barrier' = Nothing /\ quiesce' = FALSE /\ UNCHANGED stuck
       /\ (ended /\ UNCHANGED mishaps) \/ (~ended /\ Happens("restore"))
    \/ /\ barrier = "update" /\ ~ended
       /\ (stuck /\ UNCHANGED mishaps) \/ (~stuck /\ Happens("scan"))
       /\ quiesce' = TRUE
       /\ UNCHANGED <<barrier, stuck>>
    \/ /\ barrier # "update" /\ ~ended
       /\ quiesce' = (barrier # Nothing)
       /\ UNCHANGED <<barrier, stuck, mishaps>>

StartRunner ==
    /\ installing' = TRUE
    /\ runner' = [runner EXCEPT !["child"] =
                     [NoRunner EXCEPT !.at = "verify", !.release = update.candidate]]
    /\ result' = [state |-> "installing", release |-> update.candidate]
    /\ update' = [Says(update) EXCEPT !.armed = FALSE]

CannotStart ==
    /\ result' = [state |-> Nothing, release |-> Nothing]
    /\ update' = Says(update)
    /\ UNCHANGED <<installing, runner>>

\* Mutant of InstallDownload: the runner starts although a stop was not verified.
InstallRegardless ==
    /\ Polled /\ ~Checking /\ Ready
    /\ IF update.candidate \in Stock
       THEN StartRunner /\ UNCHANGED <<services, mishaps>>
       ELSE /\ barrier = Nothing
            /\ barrier' = "update" /\ quiesce' = TRUE
            /\ StartRunner
            /\ \/ UNCHANGED <<stuck, mishaps>>
               \/ Happens("stop") /\ stuck' = TRUE
    /\ UNCHANGED <<check, download, artifact, card>>

\* update-install: the runner starts only behind a barrier whose stops were
\* verified, unless the stock boot is to replace the payload.
InstallDownload ==
    /\ Polled /\ ~Checking /\ Ready
    /\ IF update.candidate \in Stock
       THEN /\ \/ StartRunner /\ UNCHANGED mishaps
               \/ Happens("runner") /\ CannotStart
            /\ UNCHANGED services
       ELSE \/ /\ barrier = Nothing
               /\ barrier' = "update" /\ quiesce' = TRUE
               /\ StartRunner
               /\ UNCHANGED <<stuck, mishaps>>
            \/ /\ barrier = Nothing /\ Happens("runner")
               /\ barrier' \in {Nothing, "update"} /\ quiesce' = (barrier' # Nothing)
               /\ CannotStart
               /\ UNCHANGED stuck
            \/ /\ Happens("busy")
               /\ update' = Says(update) /\ quiesce' = (barrier # Nothing)
               /\ UNCHANGED <<installing, runner, result, barrier, stuck>>
            \/ /\ barrier = Nothing /\ Happens("stop")
               /\ barrier' = "update" /\ stuck' = TRUE /\ quiesce' = TRUE
               /\ update' = Says(update)
               /\ UNCHANGED <<installing, runner, result>>
            \/ /\ barrier # Nothing /\ quiesce' = TRUE
               /\ update' = Says(update)
               /\ UNCHANGED <<installing, runner, result, barrier, stuck, mishaps>>
    /\ UNCHANGED <<check, download, artifact, card>>

\* jw__read_install_result
Finished ==
    IF result.state \in {"armed", "installed"}
    THEN [Says(update) EXCEPT !.armed = TRUE]
    ELSE [Says(update) EXCEPT !.armed = FALSE]

\* Mutant of PollInstall: a release that failed is not tried again.
PollInstallOnce ==
    /\ installing /\ runner["child"].at = "exited"
    /\ installing' = FALSE /\ runner' = [runner EXCEPT !["child"] = NoRunner]
    /\ \/ /\ quiesce
          /\ \E ended \in BOOLEAN :
                EndBarrier(ended) /\ update' = IF ended THEN Finished ELSE Says(Finished)
       \/ ~quiesce /\ update' = Finished /\ UNCHANGED <<services, mishaps>>
    /\ UNCHANGED <<check, download, artifact, result, card>>

\* jw__poll_update_install: once no install runs the barrier is released, and
\* a release refused is tried again on every poll.
PollInstall ==
    /\ IF installing
       THEN /\ runner["child"].at = "exited" /\ installing' = FALSE
            /\ runner' = [runner EXCEPT !["child"] = NoRunner]
       ELSE quiesce /\ UNCHANGED <<installing, runner>>
    /\ \E polled \in {IF installing THEN Finished ELSE update} :
          \/ /\ quiesce
             /\ \E ended \in BOOLEAN :
                   EndBarrier(ended) /\ update' = IF ended THEN polled ELSE Says(polled)
          \/ ~quiesce /\ update' = polled /\ UNCHANGED <<services, mishaps>>
    /\ UNCHANGED <<check, download, artifact, result, card>>

\* A caller of package-quiesce-begin and -end takes the same barrier.
CallerBegins ==
    /\ barrier = Nothing /\ ~installing
    /\ barrier' = "caller"
    /\ (UNCHANGED <<stuck, mishaps>>) \/ (Happens("stop") /\ stuck' = TRUE)
    /\ UNCHANGED <<update, jobs, artifact, runner, result, card, quiesce>>

CallerEnds ==
    /\ barrier = "caller" /\ ~stuck
    /\ barrier' = Nothing
    /\ UNCHANGED <<update, jobs, artifact, runner, result, card, stuck, quiesce, mishaps>>

\* The tick proves the survivor gone.
Reaped ==
    /\ stuck /\ stuck' = FALSE
    /\ UNCHANGED <<update, jobs, artifact, runner, result, card, barrier, quiesce, mishaps>>

-----------------------------------------------------------------------------
(* jawaka-update-runner.                                                   *)

Working(i) == runner[i].at \notin {"off", "exited"}
Alone(i) == \A j \in Slots \ {i} : ~Working(j)
Direct(i) == runner[i].release \notin Stock

\* A step of runner i; each writes the result "installing" first.
SaysInstalling(i) == result' = [state |-> "installing", release |-> runner[i].release]
\* One that ends: the daemon polls its child, and nobody an orphan.
Moved(i, place) ==
    IF place = "exited" /\ i = "orphan" THEN NoRunner ELSE [runner[i] EXCEPT !.at = place]
Goes(i, place) == runner' = [runner EXCEPT ![i] = Moved(i, place)] /\ SaysInstalling(i)
\* A write the next sync makes durable.
Writes(thing, value) == kept' = [kept EXCEPT ![thing] = @ \cup {value}]
Installs == UNCHANGED <<update, jobs, services>>

\* jw__verify_artifact
Verify(i) ==
    /\ runner[i].at = "verify"
    /\ Goes(i, IF artifact = runner[i].release THEN "extract" ELSE "exited")
    /\ Installs /\ UNCHANGED <<artifact, card, mishaps>>

\* jw__extract_artifact, which another runner may have left nothing to extract,
\* into a stage named for the release; a direct install then withdraws the
\* marker.  Nobody looks whether the unlink succeeds, nor is there one if the
\* request names no marker.
Extract(i) ==
    LET Takes(place) ==
            /\ runner' = [j \in Slots |->
                  IF j = i THEN Moved(i, place)
                  ELSE [runner[j] EXCEPT !.torn = @ \/ runner[j].release = runner[i].release]]
            /\ SaysInstalling(i)
    IN  /\ runner[i].at = "extract"
        /\ \/ /\ artifact # runner[i].release
              /\ Takes("exited")
              /\ exposed' = (exposed \/ ~Alone(i))
              /\ UNCHANGED <<marker, kept, mishaps>>
           \/ /\ artifact = runner[i].release /\ ~Direct(i)
              /\ Takes("copy")
              /\ exposed' = (exposed \/ ~Alone(i))
              /\ UNCHANGED <<marker, kept, mishaps>>
           \/ /\ artifact = runner[i].release /\ Direct(i)
              /\ Takes("replace")
              /\ \/ /\ marker' = FALSE /\ Writes("marker", FALSE)
                    /\ exposed' = (exposed \/ ~Alone(i))
                    /\ UNCHANGED mishaps
                 \/ /\ Happens("marker") /\ exposed' = TRUE
                    /\ UNCHANGED <<marker, kept>>
        /\ Installs /\ UNCHANGED <<artifact, live, record, payload, trigger>>

\* jw__replace_tree: a tree is removed, then copied; the copy may not be whole
\* if the stage is torn, or another runner replaces trees meanwhile.  An
\* optional tree the release does not ship is passed over.
Replace(i) ==
    LET p == runner[i].part
        Becomes(tree) ==
            /\ live' = [live EXCEPT ![p] = tree]
            /\ kept' = [kept EXCEPT !.live[p] = @ \cup {tree, Partial}]
        Done == runner' = [runner EXCEPT ![i].part = @ + 1] /\ SaysInstalling(i)
        meets == runner[i].torn \/ \E j \in Slots \ {i} : runner[j].at = "replace"
    IN  /\ runner[i].at = "replace" /\ p <= Len(Parts)
        /\ \/ /\ p \in Ships(runner[i].release) /\ live[p] # Partial
              /\ Becomes(Partial) /\ Goes(i, "replace")
           \/ /\ p \in Ships(runner[i].release) /\ live[p] = Partial
              /\ \/ Becomes(runner[i].release)
                 \/ meets /\ Becomes(Partial)
              /\ Done
           \/ /\ p \notin Ships(runner[i].release)
              /\ UNCHANGED <<live, kept>> /\ Done
        /\ Installs
        /\ UNCHANGED <<artifact, record, marker, payload, trigger, exposed, mishaps>>

\* jw__write_release_json
WriteRelease(i) ==
    /\ runner[i].at = "replace" /\ runner[i].part > Len(Parts)
    /\ Goes(i, "mark")
    /\ record' = runner[i].release /\ Writes("record", runner[i].release)
    /\ Installs
    /\ UNCHANGED <<artifact, live, marker, payload, trigger, exposed, mishaps>>

Mark(i) ==
    /\ runner[i].at = "mark"
    /\ Goes(i, "sync")
    /\ marker' = TRUE /\ Writes("marker", TRUE)
    /\ Installs
    /\ UNCHANGED <<artifact, live, record, payload, trigger, exposed, mishaps>>

\* jw__stock_loong_prepare: the whole stage but the trigger, then the trigger.
Copy(i) ==
    /\ runner[i].at = "copy"
    /\ Goes(i, "arm")
    /\ \/ payload' = payload \cup {runner[i].release}
       \/ runner[i].torn /\ UNCHANGED payload
    /\ Installs
    /\ UNCHANGED <<artifact, live, record, marker, trigger, kept, exposed, mishaps>>

Arm(i) ==
    /\ runner[i].at = "arm"
    /\ Goes(i, "sync")
    /\ trigger' = runner[i].release /\ Writes("trigger", runner[i].release)
    /\ Installs
    /\ UNCHANGED <<artifact, live, record, marker, payload, exposed, mishaps>>

Reports(i) ==
    /\ runner' = [runner EXCEPT ![i] = Moved(i, "exited")]
    /\ artifact' = Nothing
    /\ result' = [state |-> IF Direct(i) THEN "installed" ELSE "armed",
                  release |-> runner[i].release]
    /\ Installs

\* Mutant of SyncAndReport: the end is reported before the card is synced.
ReportOnly(i) ==
    /\ runner[i].at = "sync"
    /\ Reports(i)
    /\ UNCHANGED <<card, mishaps>>

\* sync, for all that anybody wrote; then the artifact is removed.
SyncAndReport(i) ==
    /\ runner[i].at = "sync"
    /\ kept' = OnlyOf(live, record, marker, payload, trigger)
    /\ Reports(i)
    /\ UNCHANGED <<live, record, marker, payload, trigger, exposed, mishaps>>

\* A step of a runner fails, or it is killed.  What it has reported is then an
\* error or still "installing", which are read alike.
RunnerFails(i) ==
    /\ Working(i) /\ Happens("runner")
    /\ runner' = [runner EXCEPT ![i] = Moved(i, "exited")]
    /\ UNCHANGED result \/ SaysInstalling(i)
    /\ Installs /\ UNCHANGED <<artifact, card>>

-----------------------------------------------------------------------------
(* Restarts.                                                               *)

\* jw_update_status_init; the barrier lives in the daemon's memory.
Restarted ==
    /\ check' = NoCheck /\ DownloadEnds /\ installing' = FALSE
    /\ barrier' = Nothing /\ stuck' = FALSE /\ quiesce' = FALSE

\* jawakad alone restarts; a runner that works goes on without it (bound: that
\* counts for two mishaps).
DaemonRestarts ==
    /\ update.up
    /\ \/ ~Working("child") /\ Happens("restart")
       \/ /\ Working("child") /\ ~Working("orphan") /\ "restart" \in MishapKinds
          /\ mishaps + 2 <= MaxMishaps /\ mishaps' = mishaps + 2
    /\ Restarted /\ update' = Reply(Fresh)
    /\ runner' = [runner EXCEPT
                     !["child"] = NoRunner,
                     !["orphan"] = IF Working("child") THEN runner["child"] ELSE @]
    /\ UNCHANGED <<artifact, result, card>>

\* The stock boot installs what a trigger names, from a payload that is whole
\* or not, and removes the trigger.
StockBoot(l, r, m, copied, t) ==
    /\ IF t \in copied
       THEN /\ live' = [p \in 1 .. Len(Parts) |-> IF p \in Ships(t) THEN t ELSE l[p]]
            /\ record' = t
       ELSE /\ live' = [p \in 1 .. Len(Parts) |-> Partial]
            /\ record' = r
    /\ marker' = TRUE /\ trigger' = Nothing

\* Power is lost and Leaf boots again: the stock boot acts on a trigger, and
\* Leaf is started only if its marker is there.  (The download path is not
\* read again before the next download.)
PowerCut ==
    /\ update.up /\ Happens("power")
    /\ \E l \in [1 .. Len(Parts) -> UNION {kept.live[p] : p \in 1 .. Len(Parts)}],
          r \in kept.record, m \in kept.marker, t \in kept.trigger,
          copied \in SUBSET payload :
          /\ \A p \in 1 .. Len(Parts) : l[p] \in kept.live[p]
          /\ kept.payload \subseteq copied
          /\ payload' = copied
          /\ exposed' = (exposed \/ /\ <<l, r, m, t, copied>>
                                          # <<live, record, marker, trigger, payload>>
                                    /\ result.state \notin {"installed", "armed"})
          /\ IF t # Nothing THEN StockBoot(l, r, m, copied, t)
             ELSE live' = l /\ record' = r /\ marker' = m /\ trigger' = t
    /\ kept' = OnlyOf(live', record', marker', payload', trigger')
    /\ result' \in {result, [result EXCEPT !.state = "installing"]}
    /\ artifact' \in {artifact, Nothing}
    /\ Restarted /\ update' = IF marker' THEN Fresh ELSE [Fresh EXCEPT !.up = FALSE]
    /\ runner' = [i \in Slots |-> NoRunner]

-----------------------------------------------------------------------------
Requests ==
    /\ update.up
    /\ \/ Check \/ LoadReleases \/ Download \/ Cancel \/ InstallDownload
       \/ \E r \in Releases : SelectOption(r)
       \/ CallerBegins \/ CallerEnds

Poll == PollCheck \/ PollDownload \/ PollInstall

RunnerStep(i) ==
    \/ Verify(i) \/ Extract(i) \/ Replace(i) \/ WriteRelease(i) \/ Mark(i)
    \/ Copy(i) \/ Arm(i) \/ SyncAndReport(i)

UpdateNext ==
    \/ Requests \/ Poll \/ Reaped
    \/ \E i \in Slots : RunnerStep(i) \/ RunnerFails(i)
    \/ DaemonRestarts \/ PowerCut

UpdateSpec == UpdateInit /\ [][UpdateNext]_updateVars

UpdateFairSpec ==
    /\ UpdateSpec
    /\ WF_updateVars(PollInstall) /\ WF_updateVars(RunnerStep("child")) /\ WF_updateVars(Reaped)

-----------------------------------------------------------------------------
\* Whatever step a kill, a failure or a power cut falls on, what the next boot
\* starts is whole: of one release, the one the record names, every part it
\* ships, or a release copied to its end for the stock boot to install.  A power
\* cut may take back no write of an install that reported its end.  The code
\* does not keep this once the card loses a write of an install that had not,
\* the withdrawal of the marker fails or names none, or an orphaned runner and
\* a second install meet.
BootIsWhole ==
    \/ exposed
    \/ IF trigger # Nothing
       THEN trigger \in payload
       ELSE marker => \A p \in Ships(record) : live[p] = record

\* The runner installs the verified artifact of the release the player sees:
\* neither a check that lands late, nor a selection, nor a second download
\* comes between what was downloaded and what is installed.
InstallsTheCandidate ==
    /\ update.downloaded => artifact \in {update.candidate, Nothing}
    /\ installing /\ Working("child") => runner["child"].release = update.candidate

\* As long as the daemon that started it lives, a runner replaces the live
\* payload only behind the package barrier, held by this update, with every
\* service verified gone.  The barrier does not outlive that daemon, whose
\* orphan goes on without it.
ReplacedBehindBarrier ==
    installing /\ Working("child") /\ Direct("child") => barrier = "update" /\ ~stuck

\* The barrier of an update is always given up again, whether it succeeded,
\* failed, was killed, or never got to start its runner.
BarrierReleased == []<>(barrier # "update")
=============================================================================
