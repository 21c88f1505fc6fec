-------------------------- MODULE AppUpdateProofs --------------------------
(***************************************************************************)
(* Proofs about AppUpdate, for any number of updates and faults and any    *)
(* kind of release.                                                        *)
(*                                                                         *)
(* Startable and RestoredIsOld say nothing of the steps in between, so     *)
(* they are not inductive.  RollbackInv adds what every step of update.sh  *)
(* relies on: that before the updater's own restart the migrations are     *)
(* applied only if the history says so (early), and that nobody can start  *)
(* the new code between the reversal of its migrations and the reset of    *)
(* the commit.                                                             *)
(***************************************************************************)
EXTENDS AppUpdate, TLAPS

\* The steps before the updater's own restart, after the merge.
Installing == {"backend", "frontend", "restart"}

\* Steps of the rollback at which the old commit is checked out.
OldSteps == {"backendOld", "frontendOld", "restartOld", "healthOld"}

\* The database: only a release with migrations changes it, and until the updater has restarted
\* the backend it is as it was, unless systemd has started the new code meanwhile.
DatabaseInv ==
    /\ migrated => migrates
    /\ at \in Installing => prevHead /\ ~restarted /\ (~early => ~migrated)
    /\ at = "merge" => ~prevHead /\ ~restarted /\ code = "old"
    /\ at = "fetch" => ~prevHead /\ ~restarted
    /\ at \in {"health", "stop", "revert", "restartOld", "healthOld"} => restarted

\* The service while a rollback takes the migrations back: stopped until the restart of the old
\* version, so that nothing applies them again.
ServiceInv ==
    /\ stopped => running = "none"
    /\ at = "revert" => stopped
    /\ at = "reset" => prevHead /\ (~early => ~migrated) /\ (restarted /\ migrates => stopped)
    /\ at \in {"stop", "revert"} => prevHead
    /\ stopped /\ at # "none" => restarted
    /\ stopped /\ at # "none" => at \in {"revert", "reset", "backendOld", "frontendOld", "restartOld"}

\* The tree: what each step finds in place.
TreeInv ==
    /\ at \in {"frontend", "restart", "health"} => deps = "new"
    /\ at \in {"restart", "health"} => ui = "new"
    /\ at \in Installing \cup {"health"} => code = "new"
    /\ at = "health" => running # "old"
    /\ at \in OldSteps => code = "old"
    /\ at \in {"frontendOld", "restartOld", "healthOld"} => deps = "old"
    /\ at \in {"restartOld", "healthOld"} => ui = "old"
    /\ at = "healthOld" => running # "new"
    /\ at # "none" => status # "restored"

RollbackInv == DatabaseInv /\ ServiceInv /\ TreeInv

\* The inductive invariant.
IInv == TypeOK /\ RollbackInv /\ Startable /\ RestoredIsOld

-----------------------------------------------------------------------------
\* The updater's flags, and the two facts about release and database, are Booleans.
LEMMA FlagsNext == ASSUME FlagsOK, [Next]_vars PROVE FlagsOK'
<1> USE DEF FlagsOK, machine, tree, service, updater, bounds
<1>1. CASE StartBackend
  BY <1>1, Zenon DEF StartBackend
<1>2. CASE BackendCrash
  BY <1>2, Zenon DEF BackendCrash
<1>3. CASE Start
  BY <1>3, Zenon DEF Start
<1>4. CASE GetStatus
  BY <1>4, Zenon DEF GetStatus
<1>5. CASE ReconcileStale
  BY <1>5, Zenon DEF ReconcileStale
<1>6. CASE Fetch
  BY <1>6, Zenon DEF Fetch
<1>7. CASE Merge
  BY <1>7, Zenon DEF Merge
<1>8. CASE BackendDependencies
  BY <1>8, Zenon DEF BackendDependencies
<1>9. CASE FrontendBuild
  BY <1>9, Zenon DEF FrontendBuild
<1>10. CASE RestartNew
  BY <1>10, Zenon DEF RestartNew
<1>11. CASE HealthCheck
  BY <1>11, Zenon DEF HealthCheck
<1>12. CASE StopService
  BY <1>12, Zenon DEF StopService
<1>13. CASE RevertMigrations
  BY <1>13, Zenon DEF RevertMigrations
<1>14. CASE Reset
  BY <1>14, Zenon DEF Reset
<1>15. CASE BackendOld
  BY <1>15, Zenon DEF BackendOld
<1>16. CASE FrontendOld
  BY <1>16, Zenon DEF FrontendOld
<1>17. CASE RestartOld
  BY <1>17, Zenon DEF RestartOld
<1>18. CASE HealthCheckOld
  BY <1>18, Zenon DEF HealthCheckOld
<1>19. CASE Terminate
  BY <1>19, Zenon DEF Terminate
<1>20. CASE Reboot
  BY <1>20, Zenon DEF Reboot
<1>21. CASE UNCHANGED vars
  BY <1>21, Zenon DEF vars
<1> QED
  BY <1>1, <1>2, <1>3, <1>4, <1>5, <1>6, <1>7, <1>8, <1>9, <1>10,
     <1>11, <1>12, <1>13, <1>14, <1>15, <1>16, <1>17, <1>18, <1>19, <1>20, <1>21
     DEF Next, UpdateStep

\* Versions, steps and statuses are those the code knows, and the counters keep to their bounds.
LEMMA ValuesNext == ASSUME FlagsOK, ValuesOK, [Next]_vars PROVE ValuesOK'
<1> USE ConstantsAssumption DEF ConstantsAssumption, ValuesOK, ActiveStates, FinalStates, Steps,
         machine, tree, service, updater, bounds, Fault
<1>1. CASE StartBackend
  BY <1>1 DEF StartBackend
<1>2. CASE BackendCrash
  BY <1>2 DEF BackendCrash
<1>3. CASE Start
  BY <1>3 DEF Start
<1>4. CASE GetStatus
  BY <1>4 DEF GetStatus
<1>5. CASE ReconcileStale
  BY <1>5 DEF ReconcileStale
<1>6. CASE Fetch
  BY <1>6 DEF Fetch, End
<1>7. CASE Merge
  BY <1>7 DEF Merge, Fail, End
<1>8. CASE BackendDependencies
  BY <1>8 DEF BackendDependencies, Fail, End
<1>9. CASE FrontendBuild
  BY <1>9 DEF FrontendBuild, Fail, End
<1>10. CASE RestartNew
  BY <1>10 DEF RestartNew
<1>11. CASE HealthCheck
  BY <1>11 DEF HealthCheck, Fail, End
<1>12. CASE StopService
  BY <1>12 DEF StopService, End
<1>13. CASE RevertMigrations
  BY <1>13 DEF RevertMigrations, End
<1>14. CASE Reset
  BY <1>14 DEF Reset, End
<1>15. CASE BackendOld
  BY <1>15 DEF BackendOld, End
<1>16. CASE FrontendOld
  BY <1>16 DEF FrontendOld, End
<1>17. CASE RestartOld
  BY <1>17 DEF RestartOld, End
<1>18. CASE HealthCheckOld
  BY <1>18 DEF HealthCheckOld, End
<1>19. CASE Terminate
  BY <1>19 DEF Terminate, Cut, RollingBack
<1>20. CASE Reboot
  BY <1>20 DEF Reboot, Cut
<1>21. CASE UNCHANGED vars
  BY <1>21 DEF vars
<1> QED
  BY <1>1, <1>2, <1>3, <1>4, <1>5, <1>6, <1>7, <1>8, <1>9, <1>10,
     <1>11, <1>12, <1>13, <1>14, <1>15, <1>16, <1>17, <1>18, <1>19, <1>20, <1>21
     DEF Next, UpdateStep

\* The types hold at the start.
LEMMA InitTypes == Init => TypeOK
<1>1. Init => FlagsOK
  BY Zenon DEF Init, FlagsOK
<1>2. Init => ValuesOK
  BY ConstantsAssumption DEF ConstantsAssumption, Init, ValuesOK, ActiveStates, FinalStates, Steps
<1> QED
  BY <1>1, <1>2 DEF TypeOK

\* Every variable has its type, whatever the constants are.
THEOREM TypeCorrect == Spec => []TypeOK
<1>1. Init => TypeOK
  BY InitTypes
<1>2. TypeOK /\ [Next]_vars => TypeOK'
  BY FlagsNext, ValuesNext DEF TypeOK
<1>3. QED
  BY <1>1, <1>2, PTL DEF Spec

-----------------------------------------------------------------------------
\* The database: until its own restart of the backend the updater finds it without the new
\* migrations, unless the history says that somebody else has started the new code.
LEMMA DatabaseNext == ASSUME IInv, [Next]_vars PROVE DatabaseInv' /\ Startable'
<1> USE DEF IInv, TypeOK, FlagsOK, ValuesOK, RollbackInv, DatabaseInv, ServiceInv, TreeInv,
           Installing, OldSteps, Startable, machine, tree, service, updater, bounds
<1>1. CASE StartBackend
  BY <1>1 DEF StartBackend
<1>2. CASE BackendCrash
  BY <1>2 DEF BackendCrash
<1>3. CASE Start
  BY <1>3 DEF Start
<1>4. CASE GetStatus
  BY <1>4 DEF GetStatus
<1>5. CASE ReconcileStale
  BY <1>5 DEF ReconcileStale
<1>6. CASE Fetch
  BY <1>6 DEF Fetch, End
<1>7. CASE Merge
  BY <1>7 DEF Merge, Fail, End
<1>8. CASE BackendDependencies
  BY <1>8 DEF BackendDependencies, Fail, End
<1>9. CASE FrontendBuild
  BY <1>9 DEF FrontendBuild, Fail, End
<1>10. CASE RestartNew
  BY <1>10 DEF RestartNew
<1>11. CASE HealthCheck
  BY <1>11 DEF HealthCheck, Fail, End
<1>12. CASE StopService
  BY <1>12 DEF StopService, End
<1>13. CASE RevertMigrations
  <2>1. at = "revert" /\ UNCHANGED << restarted, migrates, code, early, prevHead >>
    BY <1>13 DEF RevertMigrations
  <2>2. (~migrated' \/ migrated' = migrated) /\ at' \in {"reset", "none"}
    BY <1>13, <2>1, Zenon DEF RevertMigrations, End
  <2> QED
    BY <2>1, <2>2
<1>14. CASE Reset
  BY <1>14 DEF Reset, End
<1>15. CASE BackendOld
  BY <1>15 DEF BackendOld, End
<1>16. CASE FrontendOld
  BY <1>16 DEF FrontendOld, End
<1>17. CASE RestartOld
  BY <1>17 DEF RestartOld, End
<1>18. CASE HealthCheckOld
  BY <1>18 DEF HealthCheckOld, End
<1>19. CASE Terminate
  BY <1>19 DEF Terminate, Cut, RollingBack
<1>20. CASE Reboot
  BY <1>20 DEF Reboot, Cut
<1>21. CASE UNCHANGED vars
  BY <1>21 DEF vars
<1> QED
  BY <1>1, <1>2, <1>3, <1>4, <1>5, <1>6, <1>7, <1>8, <1>9, <1>10,
     <1>11, <1>12, <1>13, <1>14, <1>15, <1>16, <1>17, <1>18, <1>19, <1>20, <1>21
     DEF Next, UpdateStep

\* The service stays stopped from the reversal of the migrations to the restart of the old version.
LEMMA ServiceNext == ASSUME IInv, [Next]_vars PROVE ServiceInv'
<1> USE DEF IInv, TypeOK, FlagsOK, ValuesOK, RollbackInv, DatabaseInv, ServiceInv, TreeInv,
           Installing, OldSteps, Startable, machine, tree, service, updater, bounds
<1>1. CASE StartBackend
  BY <1>1 DEF StartBackend
<1>2. CASE BackendCrash
  BY <1>2 DEF BackendCrash
<1>3. CASE Start
  BY <1>3 DEF Start
<1>4. CASE GetStatus
  BY <1>4 DEF GetStatus
<1>5. CASE ReconcileStale
  BY <1>5 DEF ReconcileStale
<1>6. CASE Fetch
  BY <1>6 DEF Fetch, End
<1>7. CASE Merge
  BY <1>7 DEF Merge, Fail, End
<1>8. CASE BackendDependencies
  BY <1>8 DEF BackendDependencies, Fail, End
<1>9. CASE FrontendBuild
  BY <1>9 DEF FrontendBuild, Fail, End
<1>10. CASE RestartNew
  BY <1>10 DEF RestartNew
<1>11. CASE HealthCheck
  BY <1>11 DEF HealthCheck, Fail, End
<1>12. CASE StopService
  BY <1>12 DEF StopService, End
<1>13. CASE RevertMigrations
  BY <1>13 DEF RevertMigrations, End
<1>14. CASE Reset
  BY <1>14 DEF Reset, End
<1>15. CASE BackendOld
  BY <1>15 DEF BackendOld, End
<1>16. CASE FrontendOld
  BY <1>16 DEF FrontendOld, End
<1>17. CASE RestartOld
  BY <1>17 DEF RestartOld, End
<1>18. CASE HealthCheckOld
  BY <1>18 DEF HealthCheckOld, End
<1>19. CASE Terminate
  BY <1>19 DEF Terminate, Cut, RollingBack
<1>20. CASE Reboot
  BY <1>20 DEF Reboot, Cut
<1>21. CASE UNCHANGED vars
  BY <1>21 DEF vars
<1> QED
  BY <1>1, <1>2, <1>3, <1>4, <1>5, <1>6, <1>7, <1>8, <1>9, <1>10,
     <1>11, <1>12, <1>13, <1>14, <1>15, <1>16, <1>17, <1>18, <1>19, <1>20, <1>21
     DEF Next, UpdateStep

\* Every step finds the tree its predecessors have built or put back.
LEMMA TreeNext == ASSUME IInv, [Next]_vars PROVE TreeInv' /\ RestoredIsOld'
<1> USE DEF IInv, TypeOK, FlagsOK, ValuesOK, RollbackInv, DatabaseInv, ServiceInv, TreeInv,
           Installing, OldSteps, Startable, machine, tree, service, updater, bounds,
           RestoredIsOld, ActiveStates, FinalStates
<1>1. CASE StartBackend
  BY <1>1 DEF StartBackend
<1>2. CASE BackendCrash
  BY <1>2 DEF BackendCrash
<1>3. CASE Start
  BY <1>3 DEF Start
<1>4. CASE GetStatus
  BY <1>4 DEF GetStatus
<1>5. CASE ReconcileStale
  BY <1>5 DEF ReconcileStale
<1>6. CASE Fetch
  BY <1>6 DEF Fetch, End
<1>7. CASE Merge
  BY <1>7 DEF Merge, Fail, End
<1>8. CASE BackendDependencies
  BY <1>8 DEF BackendDependencies, Fail, End
<1>9. CASE FrontendBuild
  BY <1>9 DEF FrontendBuild, Fail, End
<1>10. CASE RestartNew
  BY <1>10 DEF RestartNew
<1>11. CASE HealthCheck
  BY <1>11 DEF HealthCheck, Fail, End
<1>12. CASE StopService
  BY <1>12 DEF StopService, End
<1>13. CASE RevertMigrations
  BY <1>13 DEF RevertMigrations, End
<1>14. CASE Reset
  BY <1>14 DEF Reset, End
<1>15. CASE BackendOld
  BY <1>15 DEF BackendOld, End
<1>16. CASE FrontendOld
  BY <1>16 DEF FrontendOld, End
<1>17. CASE RestartOld
  BY <1>17 DEF RestartOld, End
<1>18. CASE HealthCheckOld
  BY <1>18 DEF HealthCheckOld, End
<1>19. CASE Terminate
  BY <1>19 DEF Terminate, Cut, RollingBack
<1>20. CASE Reboot
  BY <1>20 DEF Reboot, Cut
<1>21. CASE UNCHANGED vars
  BY <1>21 DEF vars
<1> QED
  BY <1>1, <1>2, <1>3, <1>4, <1>5, <1>6, <1>7, <1>8, <1>9, <1>10,
     <1>11, <1>12, <1>13, <1>14, <1>15, <1>16, <1>17, <1>18, <1>19, <1>20, <1>21
     DEF Next, UpdateStep

\* The invariant holds in every reachable state.
LEMMA Inductive == Spec => []IInv
<1>1. Init => IInv
  <2>1. Init => TypeOK
    BY InitTypes
  <2>2. Init => RollbackInv /\ Startable /\ RestoredIsOld
    BY DEF Init, RollbackInv, DatabaseInv, ServiceInv, TreeInv, Installing, OldSteps, Startable, RestoredIsOld
  <2> QED
    BY <2>1, <2>2 DEF IInv
<1>2. IInv /\ [Next]_vars => IInv'
  BY FlagsNext, ValuesNext, DatabaseNext, ServiceNext, TreeNext DEF IInv, TypeOK, RollbackInv
<1>3. QED
  BY <1>1, <1>2, PTL DEF Spec

\* The commit that is checked out can always start on the database it finds, at whatever step the
\* updater, the backend or the machine stops, unless systemd has started the new code between the
\* merge and the updater's own restart (update.sh's rollback reverts migrations only after it).
THEOREM AlwaysStartable == Spec => []Startable
<1>1. IInv => Startable
  BY DEF IInv
<1> QED
  BY <1>1, Inductive, PTL

\* "The previous version was restored" is true whenever update.sh says it, of the database with the same excuse.
THEOREM Restored == Spec => []RestoredIsOld
<1>1. IInv => RestoredIsOld
  BY DEF IInv
<1> QED
  BY <1>1, Inductive, PTL

\* "completed" is only written while the new version is in place everywhere and answers.
THEOREM Completed == Spec => CompletedRuns
<1>1. IInv /\ [Next]_vars =>
        [status' = "completed" /\ status # "completed" =>
            code = "new" /\ deps = "new" /\ ui = "new" /\ running = "new"]_vars
  <2> SUFFICES ASSUME IInv, Next, status' = "completed", status # "completed"
               PROVE  code = "new" /\ deps = "new" /\ ui = "new" /\ running = "new"
    BY DEF vars
  <2> USE DEF End, Fail, machine, tree, service, updater, bounds
  <2>1. CASE HealthCheck
    BY <2>1 DEF HealthCheck, IInv, TypeOK, ValuesOK, RollbackInv, TreeInv, Installing
  <2>2. CASE StartBackend \/ BackendCrash \/ Start \/ GetStatus \/ ReconcileStale
    BY <2>2 DEF StartBackend, BackendCrash, Start, GetStatus, ReconcileStale
  <2>3. CASE Fetch \/ Merge \/ BackendDependencies \/ FrontendBuild \/ RestartNew
    BY <2>3 DEF Fetch, Merge, BackendDependencies, FrontendBuild, RestartNew
  <2>4. CASE StopService \/ RevertMigrations \/ Reset \/ BackendOld \/ FrontendOld
    BY <2>4 DEF StopService, RevertMigrations, Reset, BackendOld, FrontendOld
  <2>5. CASE RestartOld \/ HealthCheckOld \/ Terminate \/ Reboot
    BY <2>5 DEF RestartOld, HealthCheckOld, Terminate, Reboot
  <2> QED
    BY <2>1, <2>2, <2>3, <2>4, <2>5 DEF Next, UpdateStep
<1> QED
  BY <1>1, Inductive, PTL DEF Spec, CompletedRuns
=============================================================================
