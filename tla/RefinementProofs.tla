-------------------------- MODULE RefinementProofs --------------------------
(***************************************************************************)
(* Operator implements Lifecycle, for every set of DbUsers and any number  *)
(* of faults and edits.  Steps that write neither the metadata of the      *)
(* stored Database nor the SQL database are stutters; each of the others   *)
(* is one abstract step, which the inductive invariant justifies.          *)
(***************************************************************************)
EXTENDS SafetyProofs, Refinement

(* What the invariant of Operator leaves open: a deletion that is under    *)
(* way is guarded, and an absent Database is not.                          *)
Guarded ==
  /\ db.live /\ db.deleting => db.own
  /\ db.own => db.live

(* A step of Lifecycle, or none.                                           *)
LifeStep == [Promise!LifeNext]_(Promise!lifeVars)

(* A step that keeps the metadata and the SQL database is none.            *)
LEMMA Unseen == ASSUME SameMeta(db', db), sqlDb' = sqlDb PROVE LifeStep
BY DEF SameMeta, LifeStep, Promise!lifeVars, Resource

(* The abstract steps keep a deletion guarded.                             *)
LEMMA LifeStepGuarded == ASSUME TypeOK, TypeOK', Guarded, LifeStep PROVE Guarded'
<1>1. db \in Database /\ db' \in Database
  BY DEF TypeOK, ClusterTypeOK
<1>2. QED
  BY <1>1 DEF Guarded, LifeStep, Promise!lifeVars, Resource, Promise!LifeNext,
     Promise!Declare, Promise!Provision, Promise!Guard, Promise!Pin,
     Promise!Unpin, Promise!AskDeletion, Promise!Drop, Promise!LetGo, Database

(* The Database as stored by an Update that keeps its metadata.            *)
LEMMA SameUpdateUnseen ==
  ASSUME Inductive, dpc \in UpsertSteps, NEW o \in Database,
         NEW ok \in BOOLEAN, SameMeta(o, dbcr), Update("database", o, ok),
         sqlDb' = sqlDb
  PROVE  LifeStep
<1>1. "database" \in Controllers /\ ClusterTypeOK /\ db \in Database
  BY DEF Inductive, TypeOK, ClusterTypeOK, Controllers
<1>2. CASE UNCHANGED <<db, fresh>>
  BY <1>2, Unseen DEF SameMeta
<1>3. CASE CanUpdate("database", o) /\ db' = Reap(WithStatus(o, db))
  <2>1. SameMeta(o, db) /\ ~db.deleting
    BY <1>3 DEF CanUpdate, Inductive, DbCopyInv, SameMeta
  <2>2. SameMeta(WithStatus(o, db), o)
    BY <1>1, WithStatusFields
  <2>3. SameMeta(db', db)
    BY <1>3, <2>1, <2>2 DEF Reap, SameMeta
  <2>4. QED
    BY <2>3, Unseen
<1>4. QED
  BY <1>1, <1>2, <1>3, UpdateEffect

(* A status update is no step of Lifecycle.                                *)
LEMMA StatusUpdateUnseen ==
  ASSUME TypeOK, NEW o \in Database, NEW ok \in BOOLEAN,
         StatusUpdate("database", o, ok), sqlDb' = sqlDb
  PROVE  LifeStep
<1>1. "database" \in Controllers /\ ClusterTypeOK /\ db \in Database
  BY DEF TypeOK, ClusterTypeOK, Controllers
<1>2. SameMeta(WithStatus(db, o), db)
  BY <1>1, WithStatusFields
<1>3. db' = db \/ db' = WithStatus(db, o)
  BY <1>1, StatusUpdateEffect
<1>4. SameMeta(db', db)
  BY <1>2, <1>3 DEF SameMeta
<1>5. QED
  BY <1>4, Unseen

-----------------------------------------------------------------------------
(* The Database controller *)

(* CreateDatabase provisions, or fails before it did.                      *)
LEMMA CreateSqlDatabaseLife == ASSUME TypeOK, CreateSqlDatabase PROVE LifeStep
<1>1. db' = db /\ (sqlDb' = sqlDb \/ sqlDb' = TRUE)
  BY DEF CreateSqlDatabase, CreateDatabase, PostgresCreateDatabase,
     MysqlCreateDatabase, resourceVars
<1>2. CASE sqlDb' = sqlDb
  BY <1>1, <1>2, Unseen DEF SameMeta
<1>3. CASE sqlDb' = TRUE
  <2>1. Promise!Provision
    BY <1>1, <1>3 DEF Promise!Provision, Resource
  <2>2. QED
    BY <2>1 DEF LifeStep, Promise!LifeNext
<1>4. QED
  BY <1>1, <1>2, <1>3

(* The finalizer is set while the copy is current, hence on a declared     *)
(* Database, and after the SQL database was created.                       *)
LEMMA AddFinalizerLife == ASSUME Inductive, AddFinalizer PROVE LifeStep
<1> DEFINE o == [dbcr EXCEPT !.own = TRUE, !.sumSpec = dbcr.spec,
                             !.sumPw = dbSecret.pw]
<1>1. /\ "database" \in Controllers /\ ClusterTypeOK /\ db \in Database
      /\ dbcr \in Database /\ dbSecret \in SecretCopy
  BY DEF Inductive, TypeOK, ClusterTypeOK, DbTypeOK, Controllers
<1>2. /\ o \in Database /\ o.own /\ o.live = dbcr.live
      /\ o.deleting = dbcr.deleting /\ o.users = dbcr.users
  BY <1>1 DEF Database, SecretCopy
<1>3. PICK ok \in BOOLEAN : Update("database", o, ok)
  BY DEF AddFinalizer
<1>4. dpc = "addFinalizer" /\ sqlDb' = sqlDb /\ sqlDb
  BY DEF AddFinalizer, sqlVars, Inductive, DbStepInv
<1> HIDE DEF o
<1>5. CASE UNCHANGED <<db, fresh>>
  BY <1>4, <1>5, Unseen DEF SameMeta
<1>6. CASE CanUpdate("database", o) /\ db' = Reap(WithStatus(o, db))
  <2>1. db.live /\ SameMeta(dbcr, db) /\ ~db.deleting
    BY <1>4, <1>6 DEF CanUpdate, Inductive, DbCopyInv, SameMeta, UpsertSteps
  <2>2. SameMeta(WithStatus(o, db), o)
    BY <1>1, <1>2, WithStatusFields
  <2>3. db' = WithStatus(o, db)
    BY <1>2, <1>6, <2>1, <2>2 DEF Reap, SameMeta
  <2>4. db'.live /\ ~db'.deleting /\ db'.own /\ db'.users = db.users
    BY <1>2, <2>1, <2>2, <2>3 DEF SameMeta
  <2>5. db'.own \in BOOLEAN
    BY <1>1, <1>2, <2>3, WithStatusType DEF Database
  <2>6. Promise!Guard
    BY <1>4, <2>1, <2>4, <2>5 DEF Promise!Guard, Resource
  <2>7. QED
    BY <2>6 DEF LifeStep, Promise!LifeNext
<1>7. QED
  BY <1>1, <1>2, <1>3, <1>5, <1>6, UpdateEffect

(* The other writes of the create or update path keep the metadata.        *)
LEMMA UpsertWritesUnseen ==
  ASSUME Inductive,
         \/ IsFullReconcileForced \/ SecretGenerated \/ RecordEngine
         \/ SaveGrants \/ UpdateAgain \/ SetReady \/ ManageError
  PROVE  LifeStep
<1>1. sqlDb' = sqlDb /\ dbcr \in Database /\ TypeOK
  BY DEF IsFullReconcileForced, SecretGenerated, RecordEngine, SaveGrants,
         UpdateAgain, SetReady, ManageError, sqlVars, Inductive, TypeOK, DbTypeOK
<1>2. CASE IsFullReconcileForced
  <2> DEFINE o == [dbcr EXCEPT !.force = FALSE]
  <2>1. o \in Database /\ SameMeta(o, dbcr) /\ dpc \in UpsertSteps
    BY <1>1, <1>2 DEF Database, SameMeta, IsFullReconcileForced, UpsertSteps
  <2>2. PICK ok \in BOOLEAN : Update("database", o, ok)
    BY <1>2 DEF IsFullReconcileForced
  <2> HIDE DEF o
  <2>3. QED
    BY <1>1, <2>1, <2>2, SameUpdateUnseen
<1>3. CASE UpdateAgain
  <2>1. SameMeta(dbcr, dbcr) /\ dpc \in UpsertSteps
    BY <1>3 DEF SameMeta, UpdateAgain, UpsertSteps
  <2>2. PICK ok \in BOOLEAN : Update("database", dbcr, ok)
    BY <1>3 DEF UpdateAgain
  <2>3. QED
    BY <1>1, <2>1, <2>2, SameUpdateUnseen
<1>4. ASSUME NEW ok \in BOOLEAN, SetEngine(ok) PROVE LifeStep
  <2> DEFINE o == [dbcr EXCEPT !.engine = TRUE]
  <2>1. o \in Database
    BY <1>1 DEF Database
  <2>2. UNCHANGED db \/ StatusUpdate("database", o, ok)
    BY <1>4 DEF SetEngine
  <2> HIDE DEF o
  <2>3. QED
    BY <1>1, <2>1, <2>2, Unseen, StatusUpdateUnseen DEF SameMeta
<1>5. CASE SecretGenerated
  <2>1. UNCHANGED db \/ \E ok \in BOOLEAN : SetEngine(ok)
    BY <1>5 DEF SecretGenerated
  <2>2. QED
    BY <1>1, <1>4, <2>1, Unseen DEF SameMeta
<1>6. CASE RecordEngine
  BY <1>4, <1>6 DEF RecordEngine
<1>7. CASE SaveGrants
  <2>1. PICK ok \in BOOLEAN : StatusUpdate("database", dbcr, ok)
    BY <1>7 DEF SaveGrants
  <2>2. QED
    BY <1>1, <2>1, StatusUpdateUnseen
<1>8. CASE SetReady \/ ManageError
  <2> DEFINE o(b) == [dbcr EXCEPT !.ready = b]
  <2>1. PICK b \in BOOLEAN, ok \in BOOLEAN : StatusUpdate("database", o(b), ok)
    BY <1>8 DEF SetReady, ManageError
  <2>2. o(b) \in Database
    BY <1>1 DEF Database
  <2> HIDE DEF o
  <2>3. QED
    BY <1>1, <2>1, <2>2, StatusUpdateUnseen
<1>9. QED
  BY <1>2, <1>3, <1>5, <1>6, <1>7, <1>8

(* The drop finds the deletion guarded and the last user gone.             *)
LEMMA DropSqlDatabaseLife == ASSUME Inductive, DropSqlDatabase PROVE LifeStep
<1>1. db' = db /\ (sqlDb' = sqlDb \/ sqlDb' = FALSE)
  BY DEF DropSqlDatabase, DeleteDatabase, PostgresDeleteDatabase,
     MysqlDeleteDatabase, resourceVars, sqlVars
<1>2. CASE sqlDb' = sqlDb
  BY <1>1, <1>2, Unseen DEF SameMeta
<1>3. CASE sqlDb' = FALSE
  <2>1. db.live /\ db.deleting /\ db.own /\ db.users = {}
    BY DEF DropSqlDatabase, Inductive, DeleteInv, DeleteSteps
  <2>2. Promise!Drop
    BY <1>1, <1>3, <2>1 DEF Promise!Drop, Resource
  <2>3. QED
    BY <2>2 DEF LifeStep, Promise!LifeNext
<1>4. QED
  BY <1>1, <1>2, <1>3

(* The finalizer is taken off a copy that is current, and with it the      *)
(* Database goes.                                                          *)
LEMMA RemoveFinalizerLife == ASSUME Inductive, RemoveFinalizer PROVE LifeStep
<1> DEFINE o == [dbcr EXCEPT !.own = FALSE]
<1>1. /\ "database" \in Controllers /\ ClusterTypeOK /\ db \in Database
      /\ dbcr \in Database
  BY DEF Inductive, TypeOK, ClusterTypeOK, DbTypeOK, Controllers
<1>2. /\ o \in Database /\ ~o.own /\ o.deleting = dbcr.deleting
      /\ o.users = dbcr.users
  BY <1>1 DEF Database
<1>3. PICK ok \in BOOLEAN : Update("database", o, ok)
  BY DEF RemoveFinalizer
<1>4. sqlDb' = sqlDb /\ dpc \in DeleteSteps
  BY DEF RemoveFinalizer, sqlVars, DeleteSteps
<1>5. db.live /\ db.deleting /\ db.own /\ db.users = {}
  BY <1>4 DEF Inductive, DeleteInv
<1> HIDE DEF o
<1>6. CASE UNCHANGED <<db, fresh>>
  BY <1>4, <1>6, Unseen DEF SameMeta
<1>7. CASE CanUpdate("database", o) /\ db' = Reap(WithStatus(o, db))
  <2>1. SameMeta(dbcr, db)
    BY <1>4, <1>7 DEF CanUpdate, Inductive, DbCopyInv
  <2>2. SameMeta(WithStatus(o, db), o)
    BY <1>1, <1>2, WithStatusFields
  <2>3. db' = NoDatabase
    BY <1>2, <1>5, <1>7, <2>1, <2>2 DEF Reap, SameMeta
  <2>4. ~db'.live /\ db'.own = FALSE /\ db'.users = {}
    BY <2>3 DEF NoDatabase, NewDatabase
  <2>5. Promise!LetGo
    BY <1>4, <1>5, <2>4 DEF Promise!LetGo, Resource
  <2>6. QED
    BY <2>5 DEF LifeStep, Promise!LifeNext
<1>8. QED
  BY <1>1, <1>2, <1>3, <1>6, <1>7, UpdateEffect

(* Every step of the Database reconciler is a step of Lifecycle or none.   *)
LEMMA DatabaseStepLife == ASSUME Inductive, DatabaseStep PROVE LifeStep
<1>1. CASE \/ ReconcileMissing \/ ReconcileCreateOrUpdate \/ ReconcileDelete
           \/ HealthCheck \/ IsFullReconcile \/ SecretFound \/ PutSecret
           \/ CreateSqlUser \/ HandleObjects \/ DropSqlUser \/ Cleanup
  <2>1. db' = db /\ sqlDb' = sqlDb
    BY <1>1 DEF ReconcileMissing, ReconcileCreateOrUpdate, ReconcileDelete,
       HealthCheck, IsFullReconcile, SecretFound, PutSecret, CreateSqlUser,
       CreateOrUpdateUser, HandleObjects, DropSqlUser, DeleteMainUser, Cleanup,
       resourceVars, sqlVars, clusterVars
  <2>2. QED
    BY <2>1, Unseen DEF SameMeta
<1>2. TypeOK
  BY DEF Inductive
<1>3. QED
  BY <1>1, <1>2, CreateSqlDatabaseLife, AddFinalizerLife, UpsertWritesUnseen,
     DropSqlDatabaseLife, RemoveFinalizerLife DEF DatabaseStep, DbNext

-----------------------------------------------------------------------------
(* The DbUser controller *)

(* A DbUser pins a Database that its copy shows as ready, and the copy is  *)
(* current; a finalizer that is there already changes nothing.             *)
LEMMA AddDbFinalizerLife == ASSUME Inductive, AddDbFinalizer PROVE LifeStep
<1> DEFINE o == [udb EXCEPT !.users = @ \cup {x}]
<1>1. /\ "dbuser" \in Controllers /\ ClusterTypeOK /\ db \in Database
      /\ udb \in Database /\ upc = "addDbFinalizer" /\ x \in Users
  BY DEF Inductive, TypeOK, ClusterTypeOK, UserTypeOK, Controllers, AddDbFinalizer
<1>2. /\ o \in Database /\ o.users = udb.users \cup {x} /\ o.live = udb.live
      /\ o.deleting = udb.deleting /\ o.own = udb.own
  BY <1>1 DEF Database
<1>3. PICK ok \in BOOLEAN : Update("dbuser", o, ok)
  BY DEF AddDbFinalizer
<1>4. sqlDb' = sqlDb /\ udb.ready
  BY DEF AddDbFinalizer, sqlVars, Inductive, UserStepInv
<1> HIDE DEF o
<1>5. CASE UNCHANGED <<db, fresh>>
  BY <1>4, <1>5, Unseen DEF SameMeta
<1>6. CASE CanUpdate("dbuser", o) /\ db' = Reap(WithStatus(o, db))
  <2>1. udb = db /\ db.live
    BY <1>1, <1>6 DEF CanUpdate, Inductive, UserCopyInv
  <2>2. SameMeta(WithStatus(o, db), o)
    BY <1>1, <1>2, WithStatusFields
  <2>3. db' = WithStatus(o, db)
    BY <1>2, <1>6, <2>2 DEF Reap, SameMeta
  <2>4. /\ db'.live = db.live /\ db'.deleting = db.deleting /\ db'.own = db.own
        /\ db'.users = db.users \cup {x}
    BY <1>2, <2>1, <2>2, <2>3 DEF SameMeta
  <2>5. CASE db.deleting
    <3>1. x \in db.users
      BY <1>2, <1>6, <2>1, <2>5 DEF CanUpdate
    <3>2. SameMeta(db', db)
      BY <2>4, <3>1 DEF SameMeta
    <3>3. QED
      BY <1>4, <3>2, Unseen
  <2>6. CASE ~db.deleting
    <3>1. db.own /\ sqlDb
      BY <1>4, <2>1, <2>6 DEF Inductive, ReadyDatabaseIsBacked
    <3>2. Promise!Pin(x)
      BY <1>4, <2>1, <2>4, <2>6, <3>1 DEF Promise!Pin, Resource
    <3>3. QED
      BY <1>1, <3>2 DEF LifeStep, Promise!LifeNext
  <2>7. QED
    BY <2>5, <2>6
<1>7. QED
  BY <1>1, <1>2, <1>3, <1>5, <1>6, UpdateEffect

(* A DbUser lets go of a Database, which stays, for it is guarded.         *)
LEMMA RemoveDbFinalizerLife ==
  ASSUME Inductive, Guarded, RemoveDbFinalizer PROVE LifeStep
<1> DEFINE o == [udb EXCEPT !.users = @ \ {x}]
<1>1. /\ "dbuser" \in Controllers /\ ClusterTypeOK /\ db \in Database
      /\ udb \in Database /\ upc = "removeDbFinalizer" /\ x \in Users
  BY DEF Inductive, TypeOK, ClusterTypeOK, UserTypeOK, Controllers,
     RemoveDbFinalizer
<1>2. /\ o \in Database /\ o.users = udb.users \ {x} /\ o.live = udb.live
      /\ o.deleting = udb.deleting /\ o.own = udb.own
  BY <1>1 DEF Database
<1>3. PICK ok \in BOOLEAN : Update("dbuser", o, ok)
  BY DEF RemoveDbFinalizer
<1>4. sqlDb' = sqlDb
  BY DEF RemoveDbFinalizer, sqlVars
<1> HIDE DEF o
<1>5. CASE UNCHANGED <<db, fresh>>
  BY <1>4, <1>5, Unseen DEF SameMeta
<1>6. CASE CanUpdate("dbuser", o) /\ db' = Reap(WithStatus(o, db))
  <2>1. udb = db /\ db.live
    BY <1>1, <1>6 DEF CanUpdate, Inductive, UserCopyInv
  <2>2. SameMeta(WithStatus(o, db), o)
    BY <1>1, <1>2, WithStatusFields
  <2>3. db' = WithStatus(o, db)
    BY <1>2, <1>6, <2>1, <2>2 DEF Reap, SameMeta, Guarded
  <2>4. /\ db'.live = db.live /\ db'.deleting = db.deleting /\ db'.own = db.own
        /\ db'.users = db.users \ {x}
    BY <1>2, <2>1, <2>2, <2>3 DEF SameMeta
  <2>5. Promise!Unpin(x)
    BY <1>4, <2>4 DEF Promise!Unpin, Resource
  <2>6. QED
    BY <1>1, <2>5 DEF LifeStep, Promise!LifeNext
<1>7. QED
  BY <1>1, <1>2, <1>3, <1>5, <1>6, UpdateEffect

(* Every step of the DbUser reconciler is a step of Lifecycle or none.     *)
LEMMA DbUserStepLife == ASSUME Inductive, Guarded, DbUserStep PROVE LifeStep
<1>1. CASE \/ ReconcileMissingUser \/ (\E u \in Users : ReconcileUser(u))
           \/ DatabaseNotReady \/ ManageSqlUser \/ AddUserFinalizer
           \/ SetUserReady \/ DropRole \/ RemoveUserFinalizer \/ ManageUserError
  <2>1. db' = db /\ sqlDb' = sqlDb
    BY <1>1 DEF ReconcileMissingUser, ReconcileUser, DatabaseNotReady,
       ManageSqlUser, SetPermissions, CreateUser, UpdateUser, AddUserFinalizer,
       SetUserReady, DropRole, DeleteUser, RevokePermissions,
       RemoveUserFinalizer, ManageUserError, resourceVars, sqlVars, clusterVars
  <2>2. QED
    BY <2>1, Unseen DEF SameMeta
<1>2. QED
  BY <1>1, AddDbFinalizerLife, RemoveDbFinalizerLife
     DEF DbUserStep, UserNext, UserStep

-----------------------------------------------------------------------------
(* People, restarts, and the theorem *)

(* What people do to the Database.                                         *)
LEMMA PeopleStepLife == ASSUME Inductive, Guarded, PeopleStep PROVE LifeStep
<1>1. sqlDb' = sqlDb /\ db \in Database
  BY DEF PeopleStep, CreateDatabaseResource, EditDatabaseSpec, ForceFullReconcile,
     DeleteDatabaseResource, CreateDbUserResource, TouchDbUserResource,
     DeleteDbUserResource, ChangeSecret, Edit, sqlVars, Inductive, TypeOK,
     ClusterTypeOK
<1>2. ASSUME NEW s \in Specs, CreateDatabaseResource(s) PROVE LifeStep
  <2>1. ~db.live /\ db' = NewDatabase(s)
    BY <1>2 DEF CreateDatabaseResource, StoreDb
  <2>2. db'.live /\ ~db'.deleting /\ db'.own = FALSE /\ db'.users = {}
    BY <2>1, ClusterAssumption DEF NewDatabase
  <2>3. db.own = FALSE /\ db.users = {}
    BY <1>1, <2>1 DEF Guarded, Inductive, StoredInv, Database
  <2>4. Promise!Declare
    BY <1>1, <2>1, <2>2, <2>3 DEF Promise!Declare, Resource
  <2>5. QED
    BY <2>4 DEF LifeStep, Promise!LifeNext
<1>3. ASSUME NEW s \in Specs, EditDatabaseSpec(s) PROVE LifeStep
  BY <1>1, <1>3, Unseen DEF EditDatabaseSpec, StoreDb, SameMeta, Database
<1>4. CASE ForceFullReconcile
  BY <1>1, <1>4, Unseen DEF ForceFullReconcile, StoreDb, SameMeta, Database
<1>5. CASE DeleteDatabaseResource
  <2> DEFINE o == [db EXCEPT !.deleting = TRUE]
  <2>1. db.live /\ ~db.deleting /\ db' = Reap(o)
    BY <1>5 DEF DeleteDatabaseResource, StoreDb
  <2>2. o.live = db.live /\ o.deleting /\ o.own = db.own /\ o.users = db.users
    BY <1>1 DEF Database
  <2> HIDE DEF o
  <2>3. CASE db.own
    <3>1. db' = o
      BY <2>1, <2>2, <2>3 DEF Reap
    <3>2. Promise!AskDeletion
      BY <1>1, <2>1, <2>2, <2>3, <3>1 DEF Promise!AskDeletion, Resource
    <3>3. QED
      BY <3>2 DEF LifeStep, Promise!LifeNext
  <2>4. CASE ~db.own
    <3>1. db.users = {} /\ db.own = FALSE
      BY <1>1, <2>4 DEF Inductive, StoredInv, Database
    <3>2. db' = NoDatabase
      BY <2>1, <2>2, <2>4, <3>1 DEF Reap
    <3>3. ~db'.live /\ db'.own = FALSE /\ db'.users = {}
      BY <3>2 DEF NoDatabase, NewDatabase
    <3>4. Promise!AskDeletion
      BY <1>1, <2>1, <3>1, <3>3 DEF Promise!AskDeletion, Resource
    <3>5. QED
      BY <3>4 DEF LifeStep, Promise!LifeNext
  <2>5. QED
    BY <2>3, <2>4
<1>6. CASE \/ \E u \in Users : \/ CreateDbUserResource(u)
                               \/ TouchDbUserResource(u)
                               \/ DeleteDbUserResource(u)
           \/ \E p \in Passwords \cup {None} : ChangeSecret(p)
  <2>1. db' = db
    BY <1>6 DEF CreateDbUserResource, TouchDbUserResource, DeleteDbUserResource,
       ChangeSecret
  <2>2. QED
    BY <1>1, <2>1, Unseen DEF SameMeta
<1>7. QED
  BY <1>2, <1>3, <1>4, <1>5, <1>6 DEF PeopleStep

(* Every step of Operator is a step of Lifecycle or none.                  *)
LEMMA NextLife == ASSUME Inductive, Guarded, [Next]_vars PROVE LifeStep
<1>1. CASE Restart \/ UNCHANGED vars
  <2>1. db' = db /\ sqlDb' = sqlDb
    BY <1>1 DEF Restart, vars, clusterVars, resourceVars, sqlVars
  <2>2. QED
    BY <2>1, Unseen DEF SameMeta
<1>2. QED
  BY <1>1, DatabaseStepLife, DbUserStepLife, PeopleStepLife DEF Next

(* The Database that was just created is declared, and nothing else.       *)
LEMMA InitLife == Init => Promise!LifeInit /\ Guarded
<1> SUFFICES ASSUME Init PROVE Promise!LifeInit /\ Guarded
  OBVIOUS
<1>1. PICK s \in Specs : db = NewDatabase(s)
  BY DEF Init, ClusterInit
<1>2. db.live /\ ~db.deleting /\ db.own = FALSE /\ db.users = {}
  BY <1>1, ClusterAssumption DEF NewDatabase
<1>3. sqlDb = FALSE
  BY DEF Init, ClusterInit
<1>4. QED
  BY <1>2, <1>3 DEF Promise!LifeInit, Guarded, Resource

(* Whatever fails, conflicts or restarts, the controllers keep the promise *)
(* of Lifecycle: finalizers are set on existing ground, the drop waits for *)
(* the last DbUser, and the own finalizer goes last.                       *)
THEOREM OperatorImplementsLifecycle == Spec => ImplementsLifecycle
<1>1. Inductive /\ Guarded /\ [Next]_vars => LifeStep
  BY NextLife
<1>2. Inductive /\ Inductive' /\ Guarded /\ [Next]_vars => Guarded'
  BY <1>1, LifeStepGuarded DEF Inductive
<1>3. Spec => [](Inductive /\ Guarded)
  BY <1>2, InitLife, InductiveInvariant, PTL DEF Spec
<1>4. QED
  BY <1>1, <1>3, InitLife, PTL DEF Spec, ImplementsLifecycle, Promise!LifeSpec,
     LifeStep
=============================================================================
