----------------------------- MODULE Operator ------------------------------
(***************************************************************************)
(* db-operator at work on one Database and its DbUsers: the two            *)
(* controllers run in one process, each with one worker, over the same     *)
(* resources and the same SQL server, while people edit the resources and  *)
(* the process may be restarted between any two calls.                     *)
(***************************************************************************)
EXTENDS DatabaseController, DbUserController

vars == <<clusterVars, dbVars, userVars>>

(* The process ends and starts again: working copies are lost.             *)
Restart ==
  /\ dpc # "idle" \/ upc # "idle"
  /\ Fault
  /\ DbDone
  /\ UserDone
  /\ UNCHANGED <<resourceVars, sqlVars, edits>>

DatabaseStep == DbNext /\ UNCHANGED userVars

DbUserStep == UserNext /\ UNCHANGED dbVars

Init == ClusterInit /\ DbInit /\ UserInit

Next ==
  \/ DatabaseStep
  \/ DbUserStep
  \/ PeopleStep /\ UNCHANGED <<dbVars, userVars>>
  \/ Restart

(* Every reconcile goes on, and another one follows: an error requeues the *)
(* request after 60 s, a change of the resource or of its Secret delivers  *)
(* it at once, and the resync of the informers delivers it in any case.    *)
(* The requests of the DbUsers share one worker and a FIFO queue, so each  *)
(* DbUser gets its turn again and again.                                   *)
Fairness ==
  /\ WF_vars(DatabaseStep)
  /\ WF_vars(UserStep /\ UNCHANGED dbVars)
  /\ \A u \in Users : SF_vars(ReconcileUser(u) /\ UNCHANGED dbVars)

Spec == Init /\ [][Next]_vars

FairSpec == Spec /\ Fairness

-----------------------------------------------------------------------------

(* Resources, SQL server and working copies have their types, and a DbUser *)
(* reconcile that is under way knows which DbUser it is about.             *)
TypeOK == ClusterTypeOK /\ DbTypeOK /\ UserTypeOK

(* The SQL database is dropped only for a Database that is being deleted   *)
(* and carries no finalizer of a DbUser at that moment, although the       *)
(* reconcile looked at the finalizers some calls earlier.                  *)
DropOnlyUnreferenced ==
  [][sqlDb /\ ~sqlDb' => db.live /\ db.deleting /\ db.users = {}]_vars

(* A Database whose stored status is true and that is not being deleted    *)
(* has its finalizer and its recorded names, and the SQL database and the  *)
(* main user exist: deleting it later will find what to drop.              *)
ReadyDatabaseIsBacked ==
  db.live /\ db.ready /\ ~db.deleting =>
    db.own /\ db.engine /\ db.name /\ sqlDb /\ sqlPw # None

(* A DbUser that is stored as created and is not being deleted pins its    *)
(* Database: both finalizers are there and the SQL database exists.        *)
CreatedUserPinsDatabase ==
  \A u \in Users :
    du[u].live /\ du[u].created /\ ~du[u].deleting =>
      du[u].fin /\ db.live /\ db.own /\ u \in db.users /\ sqlDb

(* The finalizer "db.<name>" is taken off an unprotected Database only     *)
(* when the SQL database is gone.                                          *)
FinalizedOnlyAfterDrop ==
  [][db.own /\ ~db'.own /\ db.spec \notin Protected => ~sqlDb]_vars

(* The same for a Database whose names are recorded, so that the drop is   *)
(* really attempted: a drop that fails keeps the finalizer for a retry.    *)
FailedDropKeepsFinalizer ==
  [][db.own /\ ~db'.own /\ db.name /\ db.spec \notin Protected => ~sqlDb]_vars

(* Credentials, SQL user and SQL database agree with the resources.        *)
Converged ==
  /\ db.ready
  /\ secret # None
  /\ sqlPw = secret
  /\ db.spec \in applied

(* Once people and faults leave a Database alone, it is ready and its      *)
(* Secret opens the SQL database, whatever was rotated, edited or          *)
(* interrupted before, and with --check-for-changes too.                   *)
Converges == <>[](db.live /\ ~db.deleting => Converged)

(* A Database that is being deleted and has no DbUser left goes away, also *)
(* when its Secret was removed before (deleteDatabase takes the names from *)
(* the status; database.md:123 says that the deletion needs the Secret),   *)
(* and when a drop that failed is tried again.  On mysql the names must be *)
(* recorded: a drop without a name fails in every retry.                   *)
DeletionCompletes ==
  db.live /\ db.deleting /\ db.users = {} /\ (Postgres \/ db.name) ~> ~db.live

(* A DbUser that is being deleted goes away, as long as its Database is    *)
(* there.                                                                  *)
UserDeletionProgress ==
  \A u \in Users :
    du[u].live /\ du[u].deleting ~> ~du[u].live \/ ~db.live

(* A DbUser that is being deleted goes away.                               *)
UserDeletionCompletes ==
  \A u \in Users : du[u].live /\ du[u].deleting ~> ~du[u].live

BecomesReady(u) ==
  du[u].live ~> du[u].ready \/ du[u].deleting \/ ~du[u].live \/ ~db.ready

(* A DbUser of a Database that stays ready becomes ready.                  *)
UserBecomesReady == \A u \in Users : BecomesReady(u)

(* The same for a DbUser of an existing role, which needs no creation.     *)
ExistingUserBecomesReady == \A u \in ExistingUsers : BecomesReady(u)
=============================================================================
