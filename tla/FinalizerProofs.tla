-------------------------- MODULE FinalizerProofs ---------------------------
(***************************************************************************)
(* On mysql the finalizer of an unprotected Database only goes when the    *)
(* SQL database is gone, for every set of DbUsers, specs and passwords and *)
(* any number of faults, restarts and edits.  On postgres it is not so:    *)
(* isRowExist turns a failed query into "no such database".                *)
(***************************************************************************)
EXTENDS RefinementProofs

(* Whether the drop is left out is decided on the spec in memory, and the  *)
(* finalizer is taken off under the stored one: while the copy is current  *)
(* they are the same.                                                      *)
SpecInv == dpc \in DeleteSteps /\ fresh["database"] => dbcr.spec = db.spec

(* After the drop of an unprotected Database nothing brings it back.       *)
DroppedInv ==
  dpc \in {"dropUser", "removeFinalizer"} /\ dbcr.spec \notin Protected =>
    ~sqlDb

DropInv == SpecInv /\ DroppedInv

-----------------------------------------------------------------------------
(* Who takes the finalizer off *)

(* An Update from a copy that has the finalizer keeps it.                  *)
LEMMA UpdateKeepsOwn ==
  ASSUME ClusterTypeOK, NEW c \in Controllers, NEW o \in Database,
         NEW ok \in BOOLEAN, Update(c, o, ok),
         db.own /\ CanUpdate(c, o) => o.own, db.own
  PROVE  db'.own
<1>1. CASE db' = db
  BY <1>1
<1>2. CASE CanUpdate(c, o) /\ db' = Reap(WithStatus(o, db))
  <2>1. SameMeta(WithStatus(o, db), o)
    BY WithStatusFields DEF ClusterTypeOK
  <2>2. QED
    BY <1>2, <2>1 DEF Reap, SameMeta
<1>3. QED
  BY <1>1, <1>2, UpdateEffect

(* A status update does too.                                               *)
LEMMA StatusUpdateKeepsOwn ==
  ASSUME ClusterTypeOK, NEW o \in Database, NEW ok \in BOOLEAN,
         StatusUpdate("database", o, ok), db.own
  PROVE  db'.own
<1>1. db' = db \/ db' = WithStatus(db, o)
  BY StatusUpdateEffect DEF Controllers
<1>2. SameMeta(WithStatus(db, o), db)
  BY WithStatusFields DEF ClusterTypeOK
<1>3. QED
  BY <1>1, <1>2 DEF SameMeta

(* The writes of the create or update path, made from a current copy.      *)
LEMMA UpsertKeepsOwn ==
  ASSUME Inductive, db.own,
         \/ IsFullReconcileForced \/ SecretGenerated \/ RecordEngine
         \/ SaveGrants \/ AddFinalizer \/ UpdateAgain \/ SetReady
         \/ ManageError
  PROVE  db'.own
<1>1. /\ ClusterTypeOK /\ dbcr \in Database /\ dbSecret \in SecretCopy
      /\ "database" \in Controllers
  BY DEF Inductive, TypeOK, DbTypeOK, Controllers
<1>2. ASSUME NEW o \in Database, NEW ok \in BOOLEAN, dpc \in UpsertSteps,
             dbcr.own => o.own, Update("database", o, ok)
      PROVE  db'.own
  <2>1. CanUpdate("database", o) => SameMeta(dbcr, db)
    BY <1>2 DEF CanUpdate, Inductive, DbCopyInv
  <2>2. QED
    BY <1>1, <1>2, <2>1, UpdateKeepsOwn DEF SameMeta
<1>3. CASE IsFullReconcileForced
  <2> DEFINE o == [dbcr EXCEPT !.force = FALSE]
  <2>1. o \in Database /\ o.own = dbcr.own /\ dpc \in UpsertSteps
    BY <1>1, <1>3 DEF Database, IsFullReconcileForced, UpsertSteps
  <2>2. PICK ok \in BOOLEAN : Update("database", o, ok)
    BY <1>3 DEF IsFullReconcileForced
  <2> HIDE DEF o
  <2>3. QED
    BY <1>2, <2>1, <2>2
<1>4. CASE AddFinalizer
  <2> DEFINE o == [dbcr EXCEPT !.own = TRUE, !.sumSpec = dbcr.spec,
                               !.sumPw = dbSecret.pw]
  <2>1. o \in Database /\ o.own /\ dpc \in UpsertSteps
    BY <1>1, <1>4 DEF Database, SecretCopy, AddFinalizer, UpsertSteps
  <2>2. PICK ok \in BOOLEAN : Update("database", o, ok)
    BY <1>4 DEF AddFinalizer
  <2> HIDE DEF o
  <2>3. QED
    BY <1>2, <2>1, <2>2
<1>5. CASE UpdateAgain
  <2>1. PICK ok \in BOOLEAN : Update("database", dbcr, ok)
    BY <1>5 DEF UpdateAgain
  <2>2. QED
    BY <1>1, <1>2, <1>5, <2>1 DEF UpdateAgain, UpsertSteps
<1>6. CASE SaveGrants
  <2>1. PICK ok \in BOOLEAN : StatusUpdate("database", dbcr, ok)
    BY <1>6 DEF SaveGrants
  <2>2. QED
    BY <1>1, <2>1, StatusUpdateKeepsOwn
<1>7. CASE SetReady \/ ManageError
  <2> DEFINE o(b) == [dbcr EXCEPT !.ready = b]
  <2>1. PICK b \in BOOLEAN, ok \in BOOLEAN : StatusUpdate("database", o(b), ok)
    BY <1>7 DEF SetReady, ManageError
  <2>2. o(b) \in Database
    BY <1>1 DEF Database
  <2> HIDE DEF o
  <2>3. QED
    BY <1>1, <2>1, <2>2, StatusUpdateKeepsOwn
<1>8. CASE SecretGenerated \/ RecordEngine
  <2> DEFINE o == [dbcr EXCEPT !.engine = TRUE]
  <2>1. o \in Database
    BY <1>1 DEF Database
  <2>2. PICK ok \in BOOLEAN : db' = db \/ StatusUpdate("database", o, ok)
    BY <1>8 DEF SecretGenerated, RecordEngine, SetEngine
  <2> HIDE DEF o
  <2>3. QED
    BY <1>1, <2>1, <2>2, StatusUpdateKeepsOwn
<1>9. QED
  BY <1>3, <1>4, <1>5, <1>6, <1>7, <1>8

(* The DbUser controller writes the Database from a copy that is the same. *)
LEMMA UserKeepsOwn ==
  ASSUME Inductive, db.own, AddDbFinalizer \/ RemoveDbFinalizer
  PROVE  db'.own
<1>1. /\ ClusterTypeOK /\ udb \in Database /\ x \in Users
      /\ "dbuser" \in Controllers
  BY DEF Inductive, TypeOK, UserTypeOK, Controllers, AddDbFinalizer,
     RemoveDbFinalizer
<1>2. PICK us \in SUBSET Users, ok \in BOOLEAN :
        Update("dbuser", [udb EXCEPT !.users = us], ok)
  <2>1. udb.users \cup {x} \in SUBSET Users /\ udb.users \ {x} \in SUBSET Users
    BY <1>1 DEF Database
  <2>2. QED
    BY <2>1 DEF AddDbFinalizer, RemoveDbFinalizer
<1> DEFINE o == [udb EXCEPT !.users = us]
<1>3. o \in Database /\ o.own = udb.own
  BY <1>1 DEF Database
<1>4. CanUpdate("dbuser", o) => udb = db
  BY DEF CanUpdate, Inductive, UserCopyInv, AddDbFinalizer, RemoveDbFinalizer
<1> HIDE DEF o
<1>5. QED
  BY <1>1, <1>2, <1>3, <1>4, UpdateKeepsOwn DEF o

(* People take it off neither: they only mark the Database for deletion.   *)
LEMMA PeopleKeepOwn ==
  ASSUME Inductive, Guarded, PeopleStep, db.own
  PROVE  db'.own
<1>1. db \in Database /\ db.live
  BY DEF Inductive, TypeOK, ClusterTypeOK, Guarded
<1>2. ASSUME NEW s \in Specs, CreateDatabaseResource(s) PROVE db'.own
  BY <1>1, <1>2 DEF CreateDatabaseResource
<1>3. ASSUME NEW s \in Specs, EditDatabaseSpec(s) PROVE db'.own
  BY <1>1, <1>3 DEF EditDatabaseSpec, StoreDb, Database
<1>4. CASE ForceFullReconcile
  BY <1>1, <1>4 DEF ForceFullReconcile, StoreDb, Database
<1>5. CASE DeleteDatabaseResource
  <2> DEFINE o == [db EXCEPT !.deleting = TRUE]
  <2>1. o.own /\ db' = Reap(o)
    BY <1>1, <1>5 DEF DeleteDatabaseResource, StoreDb, Database
  <2> HIDE DEF o
  <2>2. QED
    BY <2>1 DEF Reap
<1>6. CASE \/ \E u \in Users : \/ CreateDbUserResource(u)
                               \/ TouchDbUserResource(u)
                               \/ DeleteDbUserResource(u)
           \/ \E p \in Passwords \cup {None} : ChangeSecret(p)
  <2>1. db' = db
    BY <1>6 DEF CreateDbUserResource, TouchDbUserResource, DeleteDbUserResource,
       ChangeSecret
  <2>2. QED
    BY <2>1
<1>7. QED
  BY <1>2, <1>3, <1>4, <1>5, <1>6 DEF PeopleStep

(* Only RemoveFinalizer takes the finalizer off.                           *)
LEMMA OnlyRemoveFinalizer ==
  ASSUME Inductive, Guarded, [Next]_vars, db.own, ~db'.own
  PROVE  RemoveFinalizer
<1>1. CASE DatabaseStep
  <2>1. CASE \/ ReconcileMissing \/ ReconcileCreateOrUpdate \/ ReconcileDelete
             \/ HealthCheck \/ IsFullReconcile \/ SecretFound \/ PutSecret
             \/ CreateSqlDatabase \/ CreateSqlUser \/ HandleObjects
             \/ DropSqlDatabase \/ DropSqlUser \/ Cleanup
    BY <2>1 DEF ReconcileMissing, ReconcileCreateOrUpdate, ReconcileDelete,
       HealthCheck, IsFullReconcile, SecretFound, PutSecret, CreateSqlDatabase,
       CreateSqlUser, HandleObjects, DropSqlDatabase, DropSqlUser, Cleanup,
       resourceVars, clusterVars
  <2>2. QED
    BY <1>1, <2>1, UpsertKeepsOwn DEF DatabaseStep, DbNext
<1>2. CASE DbUserStep
  <2>1. CASE \/ ReconcileMissingUser \/ (\E u \in Users : ReconcileUser(u))
             \/ DatabaseNotReady \/ ManageSqlUser \/ AddUserFinalizer
             \/ SetUserReady \/ DropRole \/ RemoveUserFinalizer
             \/ ManageUserError
    BY <2>1 DEF ReconcileMissingUser, ReconcileUser, DatabaseNotReady,
       ManageSqlUser, AddUserFinalizer, SetUserReady, DropRole,
       RemoveUserFinalizer, ManageUserError, resourceVars, clusterVars
  <2>2. QED
    BY <1>2, <2>1, UserKeepsOwn DEF DbUserStep, UserNext, UserStep
<1>3. CASE Restart \/ UNCHANGED vars
  BY <1>3 DEF Restart, vars, clusterVars, resourceVars
<1>4. QED
  BY <1>1, <1>2, <1>3, PeopleKeepOwn DEF Next

-----------------------------------------------------------------------------
(* The deletion *)

(* A step outside the Database reconcile leaves the SQL database and the   *)
(* copy alone, and a copy that is still current saw no write.              *)
LEMMA OthersKeepDropInv ==
  ASSUME DropInv, UNCHANGED <<dpc, dbcr, sqlDb>>,
         fresh'["database"] => fresh["database"] /\ db' = db
  PROVE  DropInv'
BY DEF DropInv, SpecInv, DroppedInv

(* The delete path begins with a current copy, and passes the drop only    *)
(* when it was reported as done: on mysql, when it was done.               *)
LEMMA DatabaseStepDrop ==
  ASSUME ~Postgres, Inductive, DropInv, DatabaseStep
  PROVE  DropInv'
<1>1. CASE ReconcileDelete
  <2>1. dbcr' = db /\ db' = db
    BY <1>1 DEF ReconcileDelete
  <2>2. dpc' \in {"error", "dropDatabase", "cleanup"}
    BY <1>1, Zenon DEF ReconcileDelete
  <2>3. QED
    BY <2>1, <2>2 DEF DropInv, SpecInv, DroppedInv
<1>2. CASE DropSqlDatabase
  <2>1. UNCHANGED <<db, fresh, dbcr>>
    BY <1>2 DEF DropSqlDatabase, resourceVars
  <2>2. \/ dpc' = "removeFinalizer" /\ dbcr.spec \in Protected
        \/ dpc' = "dropUser" /\ ~sqlDb'
        \/ dpc' = "error"
    BY <1>2 DEF DropSqlDatabase, DeleteDatabase, MysqlDeleteDatabase, DbGoto
  <2>3. dpc = "dropDatabase"
    BY <1>2 DEF DropSqlDatabase
  <2>4. QED
    BY <2>1, <2>2, <2>3 DEF DropInv, SpecInv, DroppedInv, DeleteSteps
<1>3. CASE DropSqlUser
  <2>1. UNCHANGED <<db, fresh, dbcr, sqlDb>> /\ dpc = "dropUser"
    BY <1>3 DEF DropSqlUser, DeleteMainUser, resourceVars
  <2>2. dpc' \in {"removeFinalizer", "error"}
    BY <1>3 DEF DropSqlUser, DbGoto
  <2>3. QED
    BY <2>1, <2>2 DEF DropInv, SpecInv, DroppedInv, DeleteSteps
<1>4. CASE ReconcileMissing
  BY <1>4 DEF ReconcileMissing, DropInv, SpecInv, DroppedInv, DeleteSteps, dbVars
<1>5. CASE \/ ReconcileCreateOrUpdate \/ HealthCheck \/ IsFullReconcileForced
           \/ IsFullReconcile \/ SecretFound \/ SecretGenerated \/ PutSecret
           \/ RecordEngine \/ CreateSqlDatabase \/ CreateSqlUser \/ SaveGrants
           \/ AddFinalizer \/ UpdateAgain \/ HandleObjects \/ SetReady
           \/ RemoveFinalizer \/ Cleanup \/ ManageError
  <2>1. dpc' \notin DeleteSteps
    BY <1>5 DEF ReconcileCreateOrUpdate, HealthCheck, IsFullReconcileForced,
       IsFullReconcile, SecretFound, SecretGenerated, PutSecret, RecordEngine,
       CreateSqlDatabase, CreateSqlUser, SaveGrants, AddFinalizer, UpdateAgain,
       HandleObjects, SetReady, RemoveFinalizer, Cleanup, ManageError, DbDone,
       DbGoto, DeleteSteps
  <2>2. QED
    BY <2>1 DEF DropInv, SpecInv, DroppedInv, DeleteSteps
<1>6. QED
  BY <1>1, <1>2, <1>3, <1>4, <1>5 DEF DatabaseStep, DbNext

(* A DbUser reconcile does not touch the SQL database, and its writes of   *)
(* the Database outdate the other controller's copy.                       *)
LEMMA DbUserStepDrop ==
  ASSUME Inductive, DropInv, DbUserStep PROVE DropInv'
<1>1. UNCHANGED <<dpc, dbcr, sqlDb>>
  BY DEF DbUserStep, dbVars, UserNext, UserStep, ReconcileMissingUser,
     ReconcileUser, DatabaseNotReady, ManageSqlUser, SetPermissions,
     CreateUser, UpdateUser, AddUserFinalizer, AddDbFinalizer, SetUserReady,
     DropRole, DeleteUser, RevokePermissions, RemoveDbFinalizer,
     RemoveUserFinalizer, ManageUserError, sqlVars, clusterVars
<1>2. CASE AddDbFinalizer \/ RemoveDbFinalizer
  <2>1. /\ ClusterTypeOK /\ udb \in Database /\ x \in Users
        /\ "dbuser" \in Controllers /\ "database" \in Controllers
    BY <1>2 DEF Inductive, TypeOK, UserTypeOK, Controllers, AddDbFinalizer,
       RemoveDbFinalizer
  <2>2. udb.users \cup {x} \in SUBSET Users /\ udb.users \ {x} \in SUBSET Users
    BY <2>1 DEF Database
  <2>3. PICK us \in SUBSET Users, ok \in BOOLEAN :
          Update("dbuser", [udb EXCEPT !.users = us], ok)
    BY <1>2, <2>2 DEF AddDbFinalizer, RemoveDbFinalizer
  <2>4. [udb EXCEPT !.users = us] \in Database
    BY <2>1 DEF Database
  <2>5. fresh'["database"] => fresh["database"] /\ db' = db
    BY <2>1, <2>3, <2>4, UpdateEffect
  <2>6. QED
    BY <1>1, <2>5, OthersKeepDropInv
<1>3. CASE \/ ReconcileMissingUser \/ (\E u \in Users : ReconcileUser(u))
           \/ DatabaseNotReady \/ ManageSqlUser \/ AddUserFinalizer
           \/ SetUserReady \/ DropRole \/ RemoveUserFinalizer \/ ManageUserError
  <2>1. db' = db /\ fresh'["database"] = fresh["database"]
    BY <1>3 DEF ReconcileMissingUser, ReconcileUser, DatabaseNotReady,
       ManageSqlUser, AddUserFinalizer, SetUserReady, DropRole,
       RemoveUserFinalizer, ManageUserError, resourceVars, clusterVars,
       Inductive, TypeOK, ClusterTypeOK, Controllers
  <2>2. QED
    BY <1>1, <2>1, OthersKeepDropInv
<1>4. QED
  BY <1>2, <1>3 DEF DbUserStep, UserNext, UserStep

(* An edit of the spec outdates the copy on which the drop was decided.    *)
LEMMA PeopleStepDrop ==
  ASSUME Inductive, DropInv, PeopleStep, UNCHANGED dbVars PROVE DropInv'
<1>1. UNCHANGED <<dpc, dbcr, sqlDb>> /\ ClusterTypeOK
  BY DEF dbVars, PeopleStep, CreateDatabaseResource, EditDatabaseSpec,
     ForceFullReconcile, DeleteDatabaseResource, CreateDbUserResource,
     TouchDbUserResource, DeleteDbUserResource, ChangeSecret, Edit, sqlVars,
     Inductive, TypeOK
<1>2. UNCHANGED <<db, fresh>> \/ \E o : StoreDb("person", o)
  BY DEF PeopleStep, CreateDatabaseResource, EditDatabaseSpec,
     ForceFullReconcile, DeleteDatabaseResource, CreateDbUserResource,
     TouchDbUserResource, DeleteDbUserResource, ChangeSecret
<1>3. fresh'["database"] => fresh["database"] /\ db' = db
  BY <1>1, <1>2, PersonStore
<1>4. QED
  BY <1>1, <1>3, OthersKeepDropInv

(* Every step keeps the invariant of the deletion.                         *)
LEMMA NextDrop ==
  ASSUME ~Postgres, Inductive, DropInv, [Next]_vars PROVE DropInv'
<1>1. CASE Restart
  BY <1>1 DEF Restart, DbDone, DropInv, SpecInv, DroppedInv, DeleteSteps
<1>2. CASE UNCHANGED vars
  BY <1>2, OthersKeepDropInv DEF vars, dbVars, clusterVars, resourceVars, sqlVars
<1>3. QED
  BY <1>1, <1>2, DatabaseStepDrop, DbUserStepDrop, PeopleStepDrop DEF Next

(* The finalizer comes off the stored object, whose spec is the copy's.    *)
LEMMA FinalizerComesOffLast ==
  ASSUME Inductive, DropInv, RemoveFinalizer, db.own, ~db'.own,
         db.spec \notin Protected
  PROVE  ~sqlDb
<1> DEFINE o == [dbcr EXCEPT !.own = FALSE]
<1>1. /\ "database" \in Controllers /\ ClusterTypeOK /\ o \in Database
      /\ dpc = "removeFinalizer"
  BY DEF Inductive, TypeOK, DbTypeOK, Controllers, RemoveFinalizer, Database
<1>2. PICK ok \in BOOLEAN : Update("database", o, ok)
  BY DEF RemoveFinalizer
<1> HIDE DEF o
<1>3. CanUpdate("database", o)
  BY <1>1, <1>2, UpdateEffect
<1>4. dbcr.spec = db.spec
  BY <1>1, <1>3 DEF CanUpdate, DropInv, SpecInv, DeleteSteps
<1>5. QED
  BY <1>1, <1>4 DEF DropInv, DroppedInv

(* On mysql the finalizer of an unprotected Database is taken off only     *)
(* when its SQL database is gone, whatever fails, conflicts, restarts or   *)
(* is edited between the drop and that Update.                             *)
THEOREM MysqlFinalizedAfterDrop ==
  ASSUME ~Postgres PROVE Spec => FinalizedOnlyAfterDrop
<1> DEFINE Last == db.own /\ ~db'.own /\ db.spec \notin Protected => ~sqlDb
<1>1. Init => DropInv
  BY DEF Init, DbInit, DropInv, SpecInv, DroppedInv, DeleteSteps
<1>2. Inductive /\ DropInv /\ [Next]_vars => DropInv'
  BY NextDrop
<1>3. Inductive /\ Inductive' /\ Guarded /\ [Next]_vars => Guarded'
  BY NextLife, LifeStepGuarded DEF Inductive
<1>4. Spec => [](Inductive /\ Guarded /\ DropInv)
  BY <1>1, <1>2, <1>3, InitLife, InductiveInvariant, PTL DEF Spec
<1>5. Inductive /\ Guarded /\ DropInv /\ [Next]_vars => [Last]_vars
  BY OnlyRemoveFinalizer, FinalizerComesOffLast
<1>6. QED
  BY <1>4, <1>5, PTL DEF Spec, FinalizedOnlyAfterDrop
=============================================================================
