----------------------------- MODULE AppUpdate -----------------------------
(***************************************************************************)
(* The update of FloppyGuard to a new release: scripts/update.sh, which    *)
(* runs in a systemd unit of its own, its rollback, and                    *)
(* backend/internal/app-update.js, which starts it and reads its status.   *)
(*                                                                         *)
(* The installation is in version "old" or "new" in four places: the       *)
(* commit that is checked out, the backend's dependencies, the built       *)
(* frontend ("mixed" when an installation of either broke off) and the     *)
(* process that answers.  The database has the new release's migrations or *)
(* not; the old code refuses to start when it has.                         *)
(***************************************************************************)
EXTENDS Naturals

CONSTANTS
    Releases,      \* what the new release may be like: "good", "crash" (does not start), or
                   \* "sick" (applies its migrations, never answers)
    MaxUpdates,    \* updates that are started
    MaxFaults      \* failing steps, terminated updaters and restarts of the machine

ASSUME ConstantsAssumption ==
    /\ Releases \subseteq {"good", "crash", "sick"} /\ Releases # {}
    /\ MaxUpdates \in Nat /\ MaxFaults \in Nat

VARIABLES
    release,     \* what the new release is like
    migrates,    \* whether it adds migrations
    code,        \* the commit that is checked out
    deps,        \* backend/node_modules
    ui,          \* the built frontend
    migrated,    \* the database has the new migrations
    running,     \* the version that answers, "none" when the backend is down or does not answer
    stopped,     \* the service was stopped by systemctl stop
    at,          \* the step the updater is in, "none" when its unit is not active
    prevHead,    \* prev_head is set
    restarted,   \* restarted=1
    status,      \* update-status.json
    seen,        \* the status a request for it has read, "none" when there is no request
    early,       \* history: systemd has started the new code, and it has applied its migrations,
                 \* between the merge and the updater's own restart
    updates, faults

machine == << release, migrates >>
tree    == << code, deps, ui >>
service == << migrated, running, stopped >>
updater == << at, prevHead, restarted >>
bounds  == << updates, faults >>
vars    == << machine, tree, service, updater, status, seen, early, bounds >>

ActiveStates == {"queued", "running", "restarting"}
\* The ends of an update: installed, nothing to do, and the failures with what became of the
\* previous version (none is told of where it was never touched, or the updater was stopped).
FinalStates  == {"idle", "completed", "uptodate", "failed", "restored", "kept", "repair",
                 "terminated", "stale"}

Fault == faults < MaxFaults /\ faults' = faults + 1

(***************************************************************************)
(* The backend's service.                                                  *)
(***************************************************************************)

\* systemd starts what is checked out; new code applies its migrations first (migrateUp), the
\* old code refuses a database that lists migrations it does not have.  With the other
\* version's dependencies the start may work or not.
StartBackend ==
    /\ running = "none" /\ ~stopped
    /\ \E works \in IF deps = code THEN {TRUE} ELSE BOOLEAN :
         LET starts == works /\ (code = "new" => release # "crash")
         IN  /\ migrated' = (migrated \/ (starts /\ code = "new" /\ migrates))
             /\ running' = IF starts /\ (code = "new" => release = "good") /\ (code = "old" => ~migrated)
                           THEN code ELSE "none"
    /\ early' = (early \/ (migrated' # migrated /\ at # "none" /\ prevHead /\ ~restarted))
    /\ UNCHANGED << machine, tree, stopped, updater, status, seen, bounds >>

\* The backend stops without having been asked to, also while the updater installs; systemd
\* starts it again.
BackendCrash ==
    /\ running # "none"
    /\ Fault
    /\ running' = "none"
    /\ seen' = "none"
    /\ UNCHANGED << machine, early, tree, migrated, stopped, updater, status, updates >>

(***************************************************************************)
(* app-update.js.                                                          *)
(***************************************************************************)

\* _start, after getStatus has told that no update is active: systemd-run starts the unit, or
\* fails.
Start ==
    /\ running # "none" /\ status \notin ActiveStates
    /\ updates < MaxUpdates /\ updates' = updates + 1
    /\ \/ /\ at = "none"
          /\ at' = "fetch" /\ prevHead' = FALSE /\ restarted' = FALSE
          /\ status' = "queued"
          /\ UNCHANGED faults
       \/ /\ Fault
          /\ status' = IF at = "none" THEN "failed" ELSE "queued"
          /\ UNCHANGED updater
    /\ UNCHANGED << machine, early, tree, service, seen >>

\* getStatus reads the file; when it tells of an update that wrote nothing for a minute,
\* reconcileStale asks systemd for the unit.
GetStatus ==
    /\ running # "none" /\ seen = "none" /\ status \in ActiveStates
    /\ seen' = status
    /\ UNCHANGED << machine, early, tree, service, updater, status, bounds >>

\* Fault injection: what an updater that is gone has left is believed.
ReconcileNever ==
    /\ running # "none" /\ seen # "none"
    /\ seen' = "none"
    /\ UNCHANGED << machine, early, tree, service, updater, status, bounds >>

\* The unit is not active: the status becomes "failed".
ReconcileStale ==
    /\ running # "none" /\ seen # "none"
    /\ seen' = "none"
    /\ status' = IF at = "none" THEN "stale" ELSE status
    /\ UNCHANGED << machine, early, tree, service, updater, bounds >>

(***************************************************************************)
(* update.sh.                                                              *)
(***************************************************************************)

End(result) == /\ at' = "none" /\ status' = result

\* fail: with prev_head set the previous version is restored, beginning with the migrations
\* if the new version was started.
Fail == IF prevHead
        THEN at' = (IF restarted /\ migrates THEN "stop" ELSE "reset") /\ status' = "running"
        ELSE End("failed")

\* The release is fetched and verified; it may be installed already.
Fetch ==
    /\ at = "fetch"
    /\ \/ /\ Fault /\ End("failed")
       \/ /\ IF code = "new" THEN End("uptodate") ELSE at' = "merge" /\ status' = "running"
          /\ UNCHANGED faults
    /\ UNCHANGED << machine, early, tree, service, prevHead, restarted, seen, updates >>

Merge ==
    /\ at = "merge"
    /\ \/ /\ Fault /\ Fail /\ UNCHANGED << code, prevHead >>
       \/ /\ code' = "new" /\ prevHead' = TRUE /\ at' = "backend"
          /\ UNCHANGED << status, faults >>
    /\ UNCHANGED << machine, early, deps, ui, service, restarted, seen, updates >>

BackendDependencies ==
    /\ at = "backend"
    /\ \/ /\ Fault /\ Fail /\ deps' = "mixed"
       \/ /\ deps' = "new" /\ at' = "frontend" /\ UNCHANGED << status, faults >>
    /\ UNCHANGED << machine, early, code, ui, service, prevHead, restarted, seen, updates >>

\* Dependencies and build of the frontend.
FrontendBuild ==
    /\ at = "frontend"
    /\ \/ /\ Fault /\ Fail /\ ui' = "mixed"
       \/ /\ ui' = "new" /\ at' = "restart" /\ UNCHANGED << status, faults >>
    /\ UNCHANGED << machine, early, code, deps, service, prevHead, restarted, seen, updates >>

\* From here on a rollback takes the migrations back.  When systemctl restart fails, the old
\* process may be stopped or not.
RestartNew ==
    /\ at = "restart"
    /\ restarted' = TRUE /\ early' = FALSE
    /\ \/ /\ at' = "health" /\ status' = "restarting" /\ running' = "none" /\ seen' = "none"
          /\ UNCHANGED faults
       \/ /\ Fault
          /\ at' = (IF migrates THEN "stop" ELSE "reset") /\ status' = "running"
          /\ \/ running' = "none" /\ seen' = "none"
             \/ UNCHANGED << running, seen >>
    /\ UNCHANGED << machine, tree, migrated, stopped, prevHead, updates >>

\* health_check: the API answers, or it does not in time: because the release is bad, or the
\* start took too long.
HealthCheck ==
    /\ at = "health"
    /\ \/ /\ running # "none" /\ End("completed") /\ UNCHANGED faults
       \/ /\ running = "none" /\ release # "good" /\ Fail /\ UNCHANGED faults
       \/ /\ running = "none" /\ Fault /\ Fail
    /\ UNCHANGED << machine, early, tree, service, prevHead, restarted, seen, updates >>

\* Fault injection: the commit is reset before the migrations are reverted.
StopServiceLate ==
    /\ at = "stop"
    /\ stopped' = TRUE /\ running' = "none" /\ seen' = "none" /\ at' = "revert"
    /\ code' = "old"
    /\ UNCHANGED << machine, early, deps, ui, migrated, prevHead, restarted, status, bounds >>

\* revert_new_migrations reads the service's environment and stops the service; where it cannot,
\* the new version is started again and stays.
StopService ==
    /\ at = "stop"
    /\ \/ stopped' = TRUE /\ at' = "revert" /\ UNCHANGED << status, faults >>
       \/ Fault /\ End("kept") /\ UNCHANGED stopped
    /\ running' = "none" /\ seen' = "none"
    /\ UNCHANGED << machine, early, tree, migrated, prevHead, restarted, updates >>

\* migrate-down.js; where it fails the new version is started again and stays, or the start
\* fails as well (|| true).
RevertMigrations ==
    /\ at = "revert"
    /\ \/ /\ migrated' = FALSE /\ at' = "reset" /\ UNCHANGED << stopped, status, faults >>
       \/ /\ Fault /\ End("kept") /\ stopped' \in BOOLEAN /\ UNCHANGED migrated
    /\ UNCHANGED << machine, early, tree, running, prevHead, restarted, seen, updates >>

Reset ==
    /\ at = "reset"
    /\ \/ /\ code' = "old" /\ at' = "backendOld" /\ UNCHANGED << status, faults >>
       \/ /\ Fault /\ End("repair") /\ UNCHANGED code
    /\ UNCHANGED << machine, early, deps, ui, service, prevHead, restarted, seen, updates >>

BackendOld ==
    /\ at = "backendOld"
    /\ \/ /\ deps' = "old" /\ at' = "frontendOld" /\ UNCHANGED << status, faults >>
       \/ /\ Fault /\ End("repair") /\ deps' = "mixed"
    /\ UNCHANGED << machine, early, code, ui, service, prevHead, restarted, seen, updates >>

\* Fault injection: the frontend of the new version stays.
FrontendOldSkipped ==
    /\ at = "frontendOld"
    /\ IF restarted THEN at' = "restartOld" /\ UNCHANGED status ELSE End("restored")
    /\ UNCHANGED << machine, early, tree, service, prevHead, restarted, seen, bounds >>

FrontendOld ==
    /\ at = "frontendOld"
    /\ \/ /\ ui' = "old"
          /\ IF restarted THEN at' = "restartOld" /\ UNCHANGED status ELSE End("restored")
          /\ UNCHANGED faults
       \/ /\ Fault /\ End("repair") /\ ui' = "mixed"
    /\ UNCHANGED << machine, early, code, deps, service, prevHead, restarted, seen, updates >>

RestartOld ==
    /\ at = "restartOld"
    /\ \/ /\ at' = "healthOld" /\ running' = "none" /\ stopped' = FALSE /\ seen' = "none"
          /\ UNCHANGED << status, faults >>
       \/ /\ Fault /\ End("repair") /\ UNCHANGED << running, stopped, seen >>
    /\ UNCHANGED << machine, early, tree, migrated, prevHead, restarted, updates >>

HealthCheckOld ==
    /\ at = "healthOld"
    /\ \/ /\ running # "none" /\ End("restored") /\ UNCHANGED faults
       \/ /\ running = "none" /\ migrated /\ End("repair") /\ UNCHANGED faults
       \/ /\ running = "none" /\ Fault /\ End("repair")
    /\ UNCHANGED << machine, early, tree, service, prevHead, restarted, seen, updates >>

(***************************************************************************)
(* The updater or the machine is stopped.                                  *)
(***************************************************************************)

\* What an installation that is cut short leaves.
Cut == /\ deps' \in IF at \in {"backend", "backendOld"} THEN {deps, "mixed"} ELSE {deps}
       /\ ui' \in IF at \in {"frontend", "frontendOld"} THEN {ui, "mixed"} ELSE {ui}

RollingBack == at \in {"stop", "revert", "reset", "backendOld", "frontendOld", "restartOld", "healthOld"}

\* on_signal, whose trap is off during a rollback.
Terminate ==
    /\ at # "none"
    /\ Fault
    /\ Cut
    /\ at' = "none"
    /\ status' = IF RollingBack THEN status ELSE "terminated"
    /\ UNCHANGED << machine, early, code, service, prevHead, restarted, seen, updates >>

\* The machine goes down and comes up again; a stopped service is enabled and starts.
Reboot ==
    /\ at # "none" \/ stopped
    /\ Fault
    /\ Cut
    /\ at' = "none" /\ running' = "none" /\ stopped' = FALSE /\ seen' = "none"
    /\ UNCHANGED << machine, early, code, migrated, prevHead, restarted, status, updates >>

Init ==
    /\ release \in Releases /\ migrates \in BOOLEAN
    /\ code = "old" /\ deps = "old" /\ ui = "old"
    /\ migrated = FALSE /\ running = "old" /\ stopped = FALSE
    /\ at = "none" /\ prevHead = FALSE /\ restarted = FALSE
    /\ status = "idle" /\ seen = "none" /\ early = FALSE
    /\ updates = 0 /\ faults = 0

UpdateStep ==
    \/ Fetch \/ Merge \/ BackendDependencies \/ FrontendBuild \/ RestartNew \/ HealthCheck
    \/ StopService \/ RevertMigrations \/ Reset \/ BackendOld \/ FrontendOld
    \/ RestartOld \/ HealthCheckOld

Next ==
    \/ StartBackend \/ BackendCrash
    \/ Start \/ GetStatus \/ ReconcileStale
    \/ UpdateStep
    \/ Terminate \/ Reboot

\* The updater's steps end, systemd starts the backend, and the page that shows the update
\* asks for its status.
Fairness == /\ WF_vars(UpdateStep) /\ WF_vars(StartBackend)
            /\ WF_vars(GetStatus) /\ WF_vars(ReconcileStale)

Spec == Init /\ [][Next]_vars /\ Fairness

(***************************************************************************)
(* Properties.                                                             *)
(***************************************************************************)

Steps == {"none", "fetch", "merge", "backend", "frontend", "restart", "health", "stop", "revert",
          "reset", "backendOld", "frontendOld", "restartOld", "healthOld"}

FlagsOK ==
    /\ migrates \in BOOLEAN /\ migrated \in BOOLEAN /\ stopped \in BOOLEAN
    /\ prevHead \in BOOLEAN /\ restarted \in BOOLEAN /\ early \in BOOLEAN

ValuesOK ==
    /\ release \in Releases
    /\ code \in {"old", "new"} /\ deps \in {"old", "new", "mixed"} /\ ui \in {"old", "new", "mixed"}
    /\ running \in {"old", "new", "none"} /\ at \in Steps
    /\ status \in ActiveStates \cup FinalStates /\ seen \in ActiveStates \cup {"none"}
    /\ updates \in 0 .. MaxUpdates /\ faults \in 0 .. MaxFaults

\* Types: versions, steps and statuses are those of update.sh; a status that is being reconciled
\* was an active one when it was read.
TypeOK == FlagsOK /\ ValuesOK

\* The code that is checked out can always start with the database as it is, whenever the
\* machine goes down: the old code never meets the new release's migrations.  Excused is the
\* update whose new code systemd started before the updater did: rollback reverts migrations
\* only after the updater's own restart.
Startable == code = "old" /\ ~early => ~migrated

\* "The previous version was restored" is so: it is back in every place, the database included
\* (with the same excuse), may start, and is what answers if the update had started the new
\* version.
RestoredIsOld ==
    status = "restored" /\ at = "none" =>
        /\ code = "old" /\ deps = "old" /\ ui = "old" /\ ~stopped
        /\ ~early => ~migrated
        /\ restarted => running # "new"

\* The same without the excuse.
StartableEver == code = "old" => ~migrated
RestoredEver == status = "restored" /\ at = "none" => ~migrated

\* An update is reported as installed only when the new version is in place and answers.
CompletedRuns ==
    [][status' = "completed" /\ status # "completed" =>
           code = "new" /\ deps = "new" /\ ui = "new" /\ running = "new"]_vars

\* An update does not block the next one for good: its status becomes a final one, however the
\* updater ended, as long as the backend comes back to answer.
UpdateEnds ==
    []<>(running # "none") => ((status \in ActiveStates) ~> (status \notin ActiveStates))

\* "Already up to date" is only said of a release that is installed.
RetryInstalls == status = "uptodate" => deps = "new" /\ ui = "new"

\* The final status of an update stays until the next one starts.
FinalStays == [][(status \in FinalStates) => (status' = status \/ updates' > updates)]_vars
=============================================================================
