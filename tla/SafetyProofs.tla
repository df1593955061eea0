---------------------------- MODULE SafetyProofs ----------------------------
(***************************************************************************)
(* Inductive (module OperatorInv) is an inductive invariant of Operator,   *)
(* and the safety properties follow from it.  Each actor's steps keep what *)
(* the others rely on (DbWrite, UserWrite, PersonWrite); what an actor     *)
(* itself relies on is proved action by action.                            *)
(***************************************************************************)
EXTENDS OperatorProofs

(* The fields of the objects the API server builds.                        *)
LEMMA NoDatabaseFields ==
  /\ ~NoDatabase.live /\ ~NoDatabase.deleting /\ ~NoDatabase.own
  /\ NoDatabase.users = {} /\ ~NoDatabase.ready /\ ~NoDatabase.engine
  /\ ~NoDatabase.name
BY DEF NoDatabase, NewDatabase

(* The fields of a Database that was just created.                         *)
LEMMA NewDatabaseFields ==
  ASSUME NEW s \in Specs
  PROVE  LET o == NewDatabase(s) IN
         /\ o.live /\ ~o.deleting /\ ~o.own /\ o.users = {} /\ ~o.ready
BY ClusterAssumption DEF NewDatabase

(* The fields of a new and of an absent DbUser.                            *)
LEMMA NewDbUserFields ==
  /\ NewDbUser.live /\ ~NewDbUser.deleting /\ ~NewDbUser.fin
  /\ ~NewDbUser.created
  /\ ~NoDbUser.live /\ ~NoDbUser.deleting /\ ~NoDbUser.fin
  /\ ~NoDbUser.created
BY DEF NewDbUser, NoDbUser

(* A status merge keeps metadata and replaces the status.                  *)
LEMMA WithStatusFields ==
  ASSUME NEW o \in Database, NEW s \in Database
  PROVE  LET w == WithStatus(o, s) IN
         /\ SameMeta(w, o)
         /\ w.ready = s.ready /\ w.engine = s.engine /\ w.name = s.name
BY DEF WithStatus, SameMeta, Database

(* The same for a DbUser.                                                  *)
LEMMA WithUserStatusFields ==
  ASSUME NEW o \in DbUser, NEW s \in DbUser
  PROVE  LET w == WithUserStatus(o, s) IN
         /\ w.live = o.live /\ w.deleting = o.deleting /\ w.fin = o.fin
         /\ w.created = s.created /\ w.ready = s.ready
BY DEF WithUserStatus, DbUser

(* What Update and StatusUpdate do, told to the caller or not.             *)
LEMMA UpdateEffect ==
  ASSUME ClusterTypeOK, NEW c \in Controllers, NEW o \in Database,
         NEW ok \in BOOLEAN, Update(c, o, ok)
  PROVE  LET stored == Reap(WithStatus(o, db)) IN
         /\ ok => CanUpdate(c, o) /\ db' = stored
         /\ \/ UNCHANGED <<db, fresh>>
            \/ /\ CanUpdate(c, o)
               /\ db' = stored
               /\ \A k \in Controllers :
                    fresh'[k] => fresh[k] /\ (db' = db \/ (k = c /\ ok))
<1> DEFINE stored == Reap(WithStatus(o, db))
<1>1. ASSUME NEW k, StoreDb(k, stored)
      PROVE  /\ db' = stored
             /\ \A j \in Controllers : fresh'[j] => fresh[j] /\ (db' = db \/ j = k)
  BY <1>1 DEF StoreDb, ClusterTypeOK
<1>2. CASE ok
  BY <1>1, <1>2 DEF Update
<1>3. CASE ~ok
  <2>1. \A k \in Controllers : k # "lost"
    BY DEF Controllers
  <2>2. QED
    BY <1>1, <1>3, <2>1 DEF Update
<1>4. QED
  BY <1>2, <1>3

(* What r.Status().Update of the Database may do to it.                    *)
LEMMA StatusUpdateEffect ==
  ASSUME ClusterTypeOK, NEW c \in Controllers, NEW o \in Database,
         NEW ok \in BOOLEAN, StatusUpdate(c, o, ok)
  PROVE  /\ ok => db.live /\ fresh[c] /\ db' = WithStatus(db, o)
         /\ \/ UNCHANGED <<db, fresh>>
            \/ /\ db.live /\ fresh[c]
               /\ db' = WithStatus(db, o)
               /\ \A k \in Controllers :
                    fresh'[k] => fresh[k] /\ (db' = db \/ (k = c /\ ok))
<1> DEFINE stored == WithStatus(db, o)
<1>1. ASSUME NEW k, StoreDb(k, stored)
      PROVE  /\ db' = stored
             /\ \A j \in Controllers : fresh'[j] => fresh[j] /\ (db' = db \/ j = k)
  BY <1>1 DEF StoreDb, ClusterTypeOK
<1>2. CASE ok
  BY <1>1, <1>2 DEF StatusUpdate, CanUpdateStatus
<1>3. CASE ~ok
  <2>1. \A k \in Controllers : k # "lost"
    BY DEF Controllers
  <2>2. QED
    BY <1>1, <1>3, <2>1 DEF StatusUpdate, CanUpdateStatus
<1>4. QED
  BY <1>2, <1>3

(* What r.Update of a DbUser may do to the DbUsers.                        *)
LEMMA UserUpdateEffect ==
  ASSUME ClusterTypeOK, NEW u \in Users, NEW o \in DbUser, NEW ok \in BOOLEAN,
         UserUpdate(u, o, ok)
  PROVE  LET stored == ReapUser(WithUserStatus(o, du[u])) IN
         /\ ok => CanUpdateUser(u, o) /\ du'[u] = stored
         /\ \A v \in Users : v # u => du'[v] = du[v] /\ uFresh'[v] = uFresh[v]
         /\ \/ UNCHANGED <<du, uFresh>>
            \/ /\ CanUpdateUser(u, o)
               /\ du'[u] = stored
               /\ uFresh'[u] => uFresh[u] /\ (du'[u] = du[u] \/ (ok /\ stored.live))
<1> DEFINE stored == ReapUser(WithUserStatus(o, du[u]))
<1>1. ASSUME NEW k, StoreUser(k, u, stored)
      PROVE  /\ du'[u] = stored
             /\ \A v \in Users : v # u => du'[v] = du[v] /\ uFresh'[v] = uFresh[v]
             /\ uFresh'[u] => uFresh[u] /\ (du'[u] = du[u] \/ (k = "dbuser" /\ stored.live))
  BY <1>1 DEF StoreUser, ClusterTypeOK
<1>2. CASE ok
  BY <1>1, <1>2 DEF UserUpdate
<1>3. CASE ~ok
  BY <1>1, <1>3 DEF UserUpdate
<1>4. QED
  BY <1>2, <1>3

(* What r.Status().Update of a DbUser may do to the DbUsers.               *)
LEMMA UserStatusUpdateEffect ==
  ASSUME ClusterTypeOK, NEW u \in Users, NEW o \in DbUser, NEW ok \in BOOLEAN,
         UserStatusUpdate(u, o, ok)
  PROVE  /\ \A v \in Users : v # u => du'[v] = du[v] /\ uFresh'[v] = uFresh[v]
         /\ \/ UNCHANGED <<du, uFresh>>
            \/ /\ du[u].live /\ uFresh[u]
               /\ du'[u] = WithUserStatus(du[u], o)
<1> DEFINE stored == WithUserStatus(du[u], o)
<1>1. ASSUME NEW k, StoreUser(k, u, stored)
      PROVE  /\ du'[u] = stored
             /\ \A v \in Users : v # u => du'[v] = du[v] /\ uFresh'[v] = uFresh[v]
  BY <1>1 DEF StoreUser, ClusterTypeOK
<1>2. CASE ok
  BY <1>1, <1>2 DEF UserStatusUpdate, CanUpdateUserStatus
<1>3. CASE ~ok
  BY <1>1, <1>3 DEF UserStatusUpdate, CanUpdateUserStatus
<1>4. QED
  BY <1>2, <1>3

-----------------------------------------------------------------------------
(* What an actor's steps leave to the others.                              *)

DbWrite ==
  /\ UNCHANGED <<userVars, du, uFresh>>
  /\ fresh'["dbuser"] => fresh["dbuser"] /\ db' = db
  /\ db'.users = db.users

(* A write of the Database controller does not disturb the DbUser reconcile.*)
LEMMA DbWriteKeepsUserInv ==
  ASSUME DbWrite, UserCopyInv, UserStepInv
  PROVE  UserCopyInv' /\ UserStepInv'
BY DEF DbWrite, userVars, UserCopyInv, UserStepInv

UserWrite ==
  /\ UNCHANGED <<dbVars, sqlDb, sqlPw>>
  /\ fresh'["database"] => fresh["database"] /\ db' = db
  /\ db.live /\ db.deleting /\ db.own /\ db.users = {} =>
       db'.live /\ db'.deleting /\ db'.own /\ db'.users = {}

(* A write of the DbUser controller does not disturb the Database reconcile.*)
LEMMA UserWriteKeepsDbInv ==
  ASSUME UserWrite, DeleteInv, DbCopyInv, DbStepInv
  PROVE  DeleteInv' /\ DbCopyInv' /\ DbStepInv'
<1> USE DEF UserWrite, dbVars
<1>1. DeleteInv'
  BY DEF DeleteInv
<1>2. DbCopyInv'
  BY DEF DbCopyInv, SameMeta
<1>3. DbStepInv'
  BY DEF DbStepInv
<1>4. QED
  BY <1>1, <1>2, <1>3

(* The three parts of Inductive that speak of stored objects only.         *)
StoredParts == StoredInv /\ ReadyDatabaseIsBacked /\ CreatedUserPinsDatabase

(* The parts the Database controller relies on.                            *)
DbParts == DeleteInv /\ DbCopyInv /\ DbStepInv

(* The inductive invariant in the groups the proofs work with.             *)
LEMMA InductiveParts ==
  /\ Inductive <=>
       TypeOK /\ StoredParts /\ DbParts /\ UserCopyInv /\ UserStepInv
  /\ Inductive' <=>
       TypeOK' /\ StoredParts' /\ DbParts' /\ UserCopyInv' /\ UserStepInv'
BY DEF Inductive, StoredParts, DbParts

(* A step that writes no resource and drops nothing in SQL.                *)
LEMMA QuietStep ==
  ASSUME StoredParts, UNCHANGED <<db, du>>, sqlDb => sqlDb',
         sqlPw # None => sqlPw' # None
  PROVE  StoredParts'
BY DEF StoredParts, StoredInv, ReadyDatabaseIsBacked, CreatedUserPinsDatabase

(* A write of the Database that keeps its finalizers.                      *)
LEMMA KeepingWrite ==
  ASSUME StoredParts, UNCHANGED <<du, sqlDb>>, db'.live = db.live,
         db'.users = db.users, db.own => db'.own, ReadyDatabaseIsBacked'
  PROVE  StoredParts'
BY DEF StoredParts, StoredInv, CreatedUserPinsDatabase

(* Steps of the Database controller that write no resource.                *)
LEMMA DbQuietStepsInv ==
  ASSUME Inductive, TypeOK', UNCHANGED userVars,
         \/ HealthCheck \/ IsFullReconcile \/ SecretFound \/ PutSecret
         \/ CreateSqlDatabase \/ CreateSqlUser \/ HandleObjects \/ Cleanup
         \/ ReconcileMissing \/ ReconcileCreateOrUpdate \/ ReconcileDelete
  PROVE  Inductive'
<1> USE InductiveParts
<1>1. UNCHANGED <<db, du, uFresh>> /\ fresh'["dbuser"] = fresh["dbuser"]
  BY DEF TypeOK, ClusterTypeOK, Controllers, resourceVars, clusterVars,
         HealthCheck, IsFullReconcile, SecretFound, PutSecret,
         CreateSqlDatabase, CreateSqlUser, HandleObjects, Cleanup,
         ReconcileMissing, ReconcileCreateOrUpdate, ReconcileDelete
<1>2. UserCopyInv' /\ UserStepInv'
  BY <1>1, DbWriteKeepsUserInv DEF DbWrite
<1>3. CASE HealthCheck
  <2>1. PICK ok \in BOOLEAN : dbcr' = [dbcr EXCEPT !.ready = @ /\ ok]
    BY <1>3 DEF HealthCheck
  <2>2. /\ SameMeta(dbcr', dbcr) /\ dbcr'.engine = dbcr.engine
        /\ dbcr'.name = dbcr.name /\ (dbcr'.ready => dbcr.ready)
    BY <2>1 DEF TypeOK, DbTypeOK, Database, SameMeta
  <2>3. StoredParts'
    BY <1>1, <1>3, QuietStep DEF HealthCheck, sqlVars
  <2>4. DbParts'
    BY <1>3, <2>2 DEF HealthCheck, sqlVars, resourceVars, DbParts, DeleteInv,
         DbCopyInv, DbStepInv, UpsertSteps, DeleteSteps, SameMeta
  <2>5. QED
    BY <1>2, <2>3, <2>4
<1>4. CASE IsFullReconcile
  <2>1. StoredParts'
    BY <1>1, <1>4, QuietStep DEF IsFullReconcile, sqlVars
  <2>2. DeleteInv' /\ DbCopyInv'
    BY <1>4 DEF IsFullReconcile, resourceVars, DbParts, DeleteInv, DbCopyInv,
         UpsertSteps, DeleteSteps, SameMeta
  <2>3. DbStepInv'
    BY <1>4 DEF IsFullReconcile, sqlVars, DbParts, DbStepInv, UpsertSteps
  <2>4. QED
    BY <1>2, <2>1, <2>2, <2>3 DEF DbParts
<1>5. CASE SecretFound
  <2>1. StoredParts'
    BY <1>1, <1>5, QuietStep DEF SecretFound, sqlVars
  <2>2. DeleteInv' /\ DbCopyInv'
    BY <1>5 DEF SecretFound, resourceVars, DbParts, DeleteInv, DbCopyInv,
         UpsertSteps, DeleteSteps, SameMeta
  <2>3. DbStepInv'
    BY <1>5 DEF SecretFound, sqlVars, DbParts, DbStepInv, UpsertSteps
  <2>4. QED
    BY <1>2, <2>1, <2>2, <2>3 DEF DbParts
<1>6. CASE PutSecret
  <2>1. StoredParts'
    BY <1>1, <1>6, QuietStep DEF PutSecret, sqlVars
  <2>2. DeleteInv' /\ DbCopyInv'
    BY <1>6 DEF PutSecret, DbGoto, DbParts, DeleteInv, DbCopyInv, UpsertSteps,
         DeleteSteps, SameMeta
  <2>3. DbStepInv'
    BY <1>6 DEF PutSecret, DbGoto, sqlVars, DbParts, DbStepInv, UpsertSteps
  <2>4. QED
    BY <1>2, <2>1, <2>2, <2>3 DEF DbParts
<1>7. CASE CreateSqlDatabase
  <2>1. PICK ok \in BOOLEAN : CreateDatabase(dbcr.spec, ok) /\ DbGoto(ok, "createUser")
    BY <1>7 DEF CreateSqlDatabase
  <2>2. UNCHANGED sqlPw /\ (sqlDb => sqlDb') /\ (ok => sqlDb')
    BY <2>1 DEF CreateDatabase, PostgresCreateDatabase, MysqlCreateDatabase
  <2>3. StoredParts'
    BY <1>1, <2>2, QuietStep
  <2>4. DeleteInv' /\ DbCopyInv'
    BY <1>7, <2>1 DEF CreateSqlDatabase, DbGoto, resourceVars, DbParts, DeleteInv,
         DbCopyInv, UpsertSteps, DeleteSteps, SameMeta
  <2>5. DbStepInv'
    BY <1>7, <2>1, <2>2 DEF CreateSqlDatabase, DbGoto, DbParts, DbStepInv, UpsertSteps
  <2>6. QED
    BY <1>2, <2>3, <2>4, <2>5 DEF DbParts
<1>8. CASE CreateSqlUser
  <2>1. PICK ok \in BOOLEAN :
          CreateOrUpdateUser(dbSecret.pw, ok) /\ DbGoto(ok, "saveGrants")
    BY <1>8 DEF CreateSqlUser
  <2>2. dbSecret.pw # None
    BY <1>8 DEF CreateSqlUser, DbParts, DbStepInv
  <2>3. UNCHANGED sqlDb /\ (sqlPw # None => sqlPw' # None) /\ (ok => sqlPw' # None)
    BY <2>1, <2>2 DEF CreateOrUpdateUser
  <2>4. StoredParts'
    BY <1>1, <2>3, QuietStep
  <2>5. DeleteInv' /\ DbCopyInv'
    BY <1>8, <2>1 DEF CreateSqlUser, DbGoto, resourceVars, DbParts, DeleteInv,
         DbCopyInv, UpsertSteps, DeleteSteps, SameMeta
  <2>6. DbStepInv'
    BY <1>8, <2>1, <2>3 DEF CreateSqlUser, DbGoto, DbParts, DbStepInv, UpsertSteps
  <2>7. QED
    BY <1>2, <2>4, <2>5, <2>6 DEF DbParts
<1>9. CASE HandleObjects
  <2>1. StoredParts'
    BY <1>1, <1>9, QuietStep DEF HandleObjects, sqlVars
  <2>2. DeleteInv' /\ DbCopyInv'
    BY <1>9 DEF HandleObjects, DbGoto, resourceVars, DbParts, DeleteInv, DbCopyInv,
         UpsertSteps, DeleteSteps, SameMeta
  <2>3. DbStepInv'
    BY <1>9 DEF HandleObjects, DbGoto, sqlVars, DbParts, DbStepInv, UpsertSteps
  <2>4. QED
    BY <1>2, <2>1, <2>2, <2>3 DEF DbParts
<1>10. CASE Cleanup
  <2>1. StoredParts'
    BY <1>1, <1>10, QuietStep DEF Cleanup, sqlVars
  <2>2. DbParts'
    BY <1>10 DEF Cleanup, DbDone, DbParts, DeleteInv, DbCopyInv, DbStepInv,
         UpsertSteps, DeleteSteps
  <2>3. QED
    BY <1>2, <2>1, <2>2
<1>11. CASE ReconcileMissing
  <2>1. StoredParts'
    BY <1>1, <1>11, QuietStep DEF ReconcileMissing, clusterVars, sqlVars
  <2>2. DbParts'
    BY <1>11 DEF ReconcileMissing, dbVars, clusterVars, resourceVars, sqlVars,
         DbParts, DeleteInv, DbCopyInv, DbStepInv, SameMeta
  <2>3. QED
    BY <1>2, <2>1, <2>2
<1>12. CASE ReconcileCreateOrUpdate
  <2>1. StoredParts'
    BY <1>1, <1>12, QuietStep DEF ReconcileCreateOrUpdate, sqlVars
  <2>2. DbParts'
    BY <1>12 DEF ReconcileCreateOrUpdate, sqlVars, DbParts, DeleteInv, DbCopyInv,
         DbStepInv, SameMeta, StoredParts, ReadyDatabaseIsBacked,
         UpsertSteps, DeleteSteps
  <2>3. QED
    BY <1>2, <2>1, <2>2
<1>13. CASE ReconcileDelete
  <2>1. StoredParts'
    BY <1>1, <1>13, QuietStep DEF ReconcileDelete, sqlVars
  <2>2. DbParts'
    BY <1>13 DEF ReconcileDelete, DbParts, DeleteInv, DbCopyInv, DbStepInv,
         SameMeta, UpsertSteps, DeleteSteps
  <2>3. QED
    BY <1>2, <2>1, <2>2
<1>14. QED
  BY <1>3, <1>4, <1>5, <1>6, <1>7, <1>8, <1>9, <1>10, <1>11, <1>12, <1>13

(* A status update of the Database controller: nobody is disturbed if the  *)
(* status says ready only of a Database that is backed.                    *)
LEMMA StatusWrite ==
  ASSUME Inductive, TypeOK', NEW o \in Database, NEW ok \in BOOLEAN,
         StatusUpdate("database", o, ok),
         UNCHANGED <<userVars, du, uFresh, sqlDb, sqlPw>>,
         o.ready /\ fresh["database"] =>
           db.own /\ o.engine /\ o.name /\ sqlDb /\ sqlPw # None
  PROVE  /\ StoredParts' /\ DbWrite /\ SameMeta(db', db)
         /\ ok => fresh["database"] /\ db'.engine = o.engine
<1> USE InductiveParts
<1>1. "database" \in Controllers /\ "dbuser" \in Controllers /\ ClusterTypeOK
  BY DEF Controllers, TypeOK
<1>2. LET w == WithStatus(db, o) IN
      /\ SameMeta(w, db)
      /\ w.ready = o.ready /\ w.engine = o.engine /\ w.name = o.name
  BY WithStatusFields DEF TypeOK, ClusterTypeOK
<1>3. SameMeta(db', db)
  BY <1>1, <1>2, StatusUpdateEffect DEF SameMeta
<1>4. DbWrite
  BY <1>1, <1>3, StatusUpdateEffect DEF DbWrite, SameMeta
<1>5. ReadyDatabaseIsBacked'
  <2>1. CASE db' = db
    BY <2>1 DEF StoredParts, ReadyDatabaseIsBacked
  <2>2. CASE fresh["database"] /\ db' = WithStatus(db, o)
    BY <1>2, <2>2 DEF ReadyDatabaseIsBacked, SameMeta
  <2>3. QED
    BY <1>1, <2>1, <2>2, StatusUpdateEffect
<1>6. StoredParts'
  BY <1>3, <1>5, KeepingWrite DEF SameMeta
<1>7. ok => fresh["database"] /\ db'.engine = o.engine
  BY <1>1, <1>2, StatusUpdateEffect
<1>8. QED
  BY <1>3, <1>4, <1>6, <1>7

(* An Update of the create or update path, which keeps all finalizers.     *)
LEMMA MetaWrite ==
  ASSUME Inductive, TypeOK', dpc \in UpsertSteps,
         NEW o \in Database, NEW ok \in BOOLEAN,
         o.live = dbcr.live, o.deleting = dbcr.deleting,
         o.users = dbcr.users, dbcr.own => o.own,
         Update("database", o, ok),
         UNCHANGED <<userVars, du, uFresh, sqlDb, sqlPw>>
  PROVE  /\ StoredParts' /\ DbWrite
         /\ ok => /\ db.live /\ ~db.deleting
                  /\ db' = WithStatus(o, db) /\ dbcr.engine = db.engine
<1> USE InductiveParts
<1>1. "database" \in Controllers /\ "dbuser" \in Controllers /\ ClusterTypeOK
  BY DEF Controllers, TypeOK
<1> DEFINE w == WithStatus(o, db)
<1>2. /\ SameMeta(w, o)
      /\ w.ready = db.ready /\ w.engine = db.engine /\ w.name = db.name
  BY WithStatusFields DEF TypeOK, ClusterTypeOK
<1>3. ~o.deleting /\ o.live
  BY DEF DbParts, DbCopyInv
<1>4. Reap(w) = w
  BY <1>2, <1>3 DEF Reap, SameMeta
<1>5. ASSUME CanUpdate("database", o)
      PROVE  /\ SameMeta(dbcr, db) /\ dbcr.engine = db.engine
             /\ db.live /\ ~db.deleting
             /\ w.live = db.live /\ w.deleting = db.deleting
             /\ w.users = db.users /\ (db.own => w.own)
  BY <1>2, <1>3, <1>5 DEF CanUpdate, DbParts, DbCopyInv, SameMeta
<1>6. CASE UNCHANGED <<db, fresh>>
  <2>1. StoredParts'
    BY <1>6, QuietStep
  <2>2. QED
    BY <1>1, <1>4, <1>5, <1>6, <2>1, UpdateEffect DEF DbWrite
<1>7. CASE /\ CanUpdate("database", o) /\ db' = w
           /\ \A k \in Controllers :
                fresh'[k] => fresh[k] /\ (db' = db \/ (k = "database" /\ ok))
  <2>1. DbWrite
    BY <1>1, <1>5, <1>7 DEF DbWrite
  <2>2. ReadyDatabaseIsBacked'
    BY <1>2, <1>5, <1>7 DEF StoredParts, ReadyDatabaseIsBacked
  <2>3. StoredParts'
    BY <1>5, <1>7, <2>2, KeepingWrite
  <2>4. QED
    BY <1>5, <1>7, <2>1, <2>3
<1>8. QED
  BY <1>1, <1>4, <1>6, <1>7, UpdateEffect

(* setEngine: one status update, or nothing.                               *)
LEMMA SetEngineWrite ==
  ASSUME Inductive, TypeOK', dpc \in UpsertSteps, NEW ok \in BOOLEAN,
         SetEngine(ok), UNCHANGED <<userVars, du, uFresh, sqlDb, sqlPw>>
  PROVE  /\ StoredParts' /\ DbWrite
         /\ SameMeta(dbcr', dbcr) /\ dbcr'.ready = dbcr.ready
         /\ dbcr'.name = dbcr.name
         /\ ok => dbcr'.engine
         /\ ok /\ fresh'["database"] =>
              SameMeta(dbcr', db') /\ dbcr'.engine = db'.engine
<1> USE InductiveParts
<1>1. CASE UNCHANGED <<db, fresh, dbcr>>
  <2>1. StoredParts' /\ DbWrite
    BY <1>1, QuietStep DEF DbWrite
  <2>2. ok => dbcr.engine
    <3>1. CASE dbcr.engine
      BY <3>1
    <3>2. CASE ~dbcr.engine /\ ok
      <4>1. dbcr' = [dbcr EXCEPT !.engine = TRUE]
        BY <3>2 DEF SetEngine
      <4>2. QED
        BY <1>1, <4>1 DEF TypeOK, DbTypeOK, Database
    <3>3. QED
      BY <3>1, <3>2
  <2>3. QED
    BY <1>1, <2>1, <2>2 DEF DbParts, DbCopyInv, SameMeta
<1> DEFINE o == [dbcr EXCEPT !.engine = TRUE]
<1>2. /\ o \in Database /\ SameMeta(o, dbcr) /\ o.ready = dbcr.ready
      /\ o.name = dbcr.name /\ o.engine
  BY DEF TypeOK, DbTypeOK, Database, SameMeta
<1>3. CASE StatusUpdate("database", o, ok) /\ dbcr' = o
  <2>1. o.ready /\ fresh["database"] =>
          db.own /\ o.engine /\ o.name /\ sqlDb /\ sqlPw # None
    BY <1>2 DEF DbParts, DbCopyInv, DbStepInv, SameMeta
  <2>2. /\ StoredParts' /\ DbWrite /\ SameMeta(db', db)
        /\ ok => fresh["database"] /\ db'.engine = o.engine
    BY <1>2, <1>3, <2>1, StatusWrite
  <2>3. ok => SameMeta(dbcr', db') /\ dbcr'.engine = db'.engine
    BY <1>2, <1>3, <2>2 DEF DbParts, DbCopyInv, SameMeta
  <2>4. QED
    BY <1>2, <1>3, <2>2, <2>3
<1>4. QED
  BY <1>1, <1>3 DEF SetEngine

(* The steps of the create or update path that write the Database.         *)
LEMMA DbUpsertWritesInv ==
  ASSUME Inductive, TypeOK', UNCHANGED userVars,
         \/ IsFullReconcileForced \/ SecretGenerated \/ RecordEngine
         \/ SaveGrants \/ AddFinalizer \/ UpdateAgain \/ SetReady
  PROVE  Inductive'
<1> USE InductiveParts
<1>1. UNCHANGED <<userVars, du, uFresh, sqlDb, sqlPw>> /\ dpc \in UpsertSteps
  BY DEF IsFullReconcileForced, SecretGenerated, RecordEngine, SaveGrants,
         AddFinalizer, UpdateAgain, SetReady, sqlVars, UpsertSteps
<1>2. ASSUME DbWrite PROVE UserCopyInv' /\ UserStepInv'
  BY <1>2, DbWriteKeepsUserInv
<1>3. ~dbcr.deleting /\ dbcr.live /\ dpc \notin DeleteSteps
  BY <1>1 DEF DbParts, DbCopyInv, UpsertSteps, DeleteSteps
<1>4. CASE IsFullReconcileForced
  <2> DEFINE o == [dbcr EXCEPT !.force = FALSE]
  <2>1. o \in Database /\ SameMeta(o, dbcr)
    BY DEF TypeOK, DbTypeOK, Database, SameMeta
  <2>2. PICK ok \in BOOLEAN :
          /\ Update("database", o, ok)
          /\ dbcr' = IF ok THEN WithStatus(o, db) ELSE o
          /\ DbGoto(ok, "getSecret")
    BY <1>4 DEF IsFullReconcileForced
  <2>3. /\ StoredParts' /\ DbWrite
        /\ ok => db.live /\ ~db.deleting /\ db' = WithStatus(o, db)
    BY <1>1, <2>1, <2>2, MetaWrite DEF SameMeta
  <2>4. CASE ok
    <3>1. dbcr' = db' /\ dpc' = "getSecret" /\ must'
      BY <1>4, <2>2, <2>3, <2>4 DEF IsFullReconcileForced, DbGoto
    <3> HIDE DEF o
    <3>2. SameMeta(db', o)
      BY <2>1, <2>3, <2>4, WithStatusFields DEF TypeOK, ClusterTypeOK
    <3>3. dbcr'.live /\ ~dbcr'.deleting
      BY <1>3, <2>1, <3>1, <3>2 DEF SameMeta
    <3>6. DeleteInv' /\ DbCopyInv'
      BY <3>1, <3>3 DEF DeleteInv, DbCopyInv, SameMeta, UpsertSteps, DeleteSteps
    <3>4. DbStepInv'
      BY <2>3, <3>1, <3>3 DEF DbStepInv, StoredParts, ReadyDatabaseIsBacked
    <3>5. QED
      BY <1>2, <2>3, <3>4, <3>6 DEF DbParts
  <2>5. CASE ~ok
    <3>1. DbParts'
      BY <2>2, <2>5 DEF DbGoto, DbParts, DeleteInv, DbCopyInv, DbStepInv,
           UpsertSteps, DeleteSteps
    <3>2. QED
      BY <1>2, <2>3, <3>1
  <2>6. QED
    BY <2>4, <2>5
<1>5. CASE SecretGenerated
  <2>1. PICK ok \in BOOLEAN, p \in Passwords :
          /\ \/ secret = None /\ SetEngine(ok)
             \/ secret # None /\ dbcr.engine /\ ok /\ UNCHANGED <<db, fresh, dbcr>>
          /\ dbSecret' = IF ok THEN [pw |-> p, made |-> TRUE] ELSE dbSecret
          /\ DbGoto(ok, "putSecret")
    BY <1>5 DEF SecretGenerated
  <2>2. /\ StoredParts' /\ DbWrite
        /\ SameMeta(dbcr', dbcr) /\ dbcr'.ready = dbcr.ready /\ dbcr'.name = dbcr.name
        /\ ok => dbcr'.engine
        /\ ok /\ fresh'["database"] => SameMeta(dbcr', db') /\ dbcr'.engine = db'.engine
    <3>1. CASE SetEngine(ok)
      BY <1>1, <3>1, SetEngineWrite
    <3>2. CASE dbcr.engine /\ UNCHANGED <<db, fresh, dbcr>>
      BY <1>1, <3>2, QuietStep DEF DbWrite, DbParts, DbCopyInv, SameMeta
    <3>3. QED
      BY <2>1, <3>1, <3>2
  <2>3. CASE ok
    <3>1. dpc' = "putSecret" /\ dbSecret'.pw # None /\ UNCHANGED must
      BY <1>5, <2>1, <2>3, ClusterAssumption DEF SecretGenerated, DbGoto
    <3>2. DeleteInv' /\ DbCopyInv'
      BY <1>3, <2>2, <2>3, <3>1 DEF DeleteInv, DbCopyInv, SameMeta, UpsertSteps,
           DeleteSteps
    <3>3. DbStepInv'
      BY <1>1, <1>5, <2>2, <2>3, <3>1
         DEF SecretGenerated, DbParts, DbStepInv, SameMeta, UpsertSteps
    <3>4. QED
      BY <1>2, <2>2, <3>2, <3>3 DEF DbParts
  <2>4. CASE ~ok
    <3>1. DbParts'
      BY <2>1, <2>4 DEF DbGoto, DbParts, DeleteInv, DbCopyInv, DbStepInv,
           UpsertSteps, DeleteSteps
    <3>2. QED
      BY <1>2, <2>2, <3>1
  <2>5. QED
    BY <2>3, <2>4
<1>6. CASE RecordEngine
  <2>1. PICK ok \in BOOLEAN : SetEngine(ok) /\ DbGoto(ok, "createDatabase")
    BY <1>6 DEF RecordEngine
  <2>2. /\ StoredParts' /\ DbWrite
        /\ SameMeta(dbcr', dbcr) /\ dbcr'.ready = dbcr.ready /\ dbcr'.name = dbcr.name
        /\ ok => dbcr'.engine
        /\ ok /\ fresh'["database"] => SameMeta(dbcr', db') /\ dbcr'.engine = db'.engine
    BY <1>1, <2>1, SetEngineWrite
  <2>3. CASE ok
    <3>1. dpc' = "createDatabase" /\ UNCHANGED <<must, dbSecret>>
      BY <1>6, <2>1, <2>3 DEF RecordEngine, DbGoto
    <3>2. DeleteInv' /\ DbCopyInv'
      BY <1>3, <2>2, <2>3, <3>1 DEF DeleteInv, DbCopyInv, SameMeta, UpsertSteps,
           DeleteSteps
    <3>3. DbStepInv'
      BY <1>1, <1>6, <2>2, <2>3, <3>1
         DEF RecordEngine, DbParts, DbStepInv, SameMeta, UpsertSteps
    <3>4. QED
      BY <1>2, <2>2, <3>2, <3>3 DEF DbParts
  <2>4. CASE ~ok
    <3>1. DbParts'
      BY <2>1, <2>4 DEF DbGoto, DbParts, DeleteInv, DbCopyInv, DbStepInv,
           UpsertSteps, DeleteSteps
    <3>2. QED
      BY <1>2, <2>2, <3>1
  <2>5. QED
    BY <2>3, <2>4
<1>7. CASE SaveGrants
  <2>1. PICK ok \in BOOLEAN :
          StatusUpdate("database", dbcr, ok) /\ DbGoto(ok, "addFinalizer")
    BY <1>7 DEF SaveGrants
  <2>2. dbcr.ready /\ fresh["database"] =>
          db.own /\ dbcr.engine /\ dbcr.name /\ sqlDb /\ sqlPw # None
    BY <1>1 DEF DbParts, DbCopyInv, DbStepInv, SameMeta
  <2>3. /\ StoredParts' /\ DbWrite /\ SameMeta(db', db)
        /\ ok => fresh["database"] /\ db'.engine = dbcr.engine
    BY <1>1, <2>1, <2>2, StatusWrite DEF TypeOK, DbTypeOK
  <2>4. UNCHANGED <<dbcr, dbSecret, must>>
    BY <1>7 DEF SaveGrants
  <2>5. DeleteInv' /\ DbCopyInv'
    BY <1>1, <1>3, <2>1, <2>3, <2>4
       DEF DbGoto, DbParts, DeleteInv, DbCopyInv, SameMeta, UpsertSteps, DeleteSteps
  <2>6. DbStepInv'
    BY <1>1, <1>7, <2>1, <2>4 DEF SaveGrants, DbGoto, DbParts, DbStepInv, UpsertSteps
  <2>7. QED
    BY <1>2, <2>3, <2>5, <2>6 DEF DbParts
<1>8. CASE AddFinalizer
  <2> DEFINE o == [dbcr EXCEPT !.own = TRUE, !.sumSpec = dbcr.spec,
                               !.sumPw = dbSecret.pw]
  <2>1. /\ o \in Database /\ o.live = dbcr.live /\ o.deleting = dbcr.deleting
        /\ o.users = dbcr.users /\ o.own
    BY DEF TypeOK, DbTypeOK, Database, SecretCopy
  <2>2. PICK ok \in BOOLEAN :
          /\ Update("database", o, ok)
          /\ dbcr' = IF ok THEN WithStatus(o, db) ELSE o
          /\ DbGoto(ok, "updateAgain")
    BY <1>8 DEF AddFinalizer
  <2>3. /\ StoredParts' /\ DbWrite
        /\ ok => /\ db.live /\ ~db.deleting
                 /\ db' = WithStatus(o, db) /\ dbcr.engine = db.engine
    BY <1>1, <2>1, <2>2, MetaWrite
  <2>4. CASE ok
    <3>1. dbcr' = db' /\ dpc' = "updateAgain"
      BY <2>2, <2>3, <2>4 DEF DbGoto
    <3> HIDE DEF o
    <3>6. SameMeta(db', o) /\ db'.engine = db.engine
      BY <2>1, <2>3, <2>4, WithStatusFields DEF TypeOK, ClusterTypeOK
    <3>2. /\ dbcr'.live /\ ~dbcr'.deleting /\ dbcr'.own
          /\ dbcr'.engine = dbcr.engine
      BY <1>3, <2>1, <2>3, <2>4, <3>1, <3>6 DEF SameMeta
    <3>3. DeleteInv' /\ DbCopyInv'
      BY <3>1, <3>2 DEF DeleteInv, DbCopyInv, SameMeta, UpsertSteps, DeleteSteps
    <3>4. DbStepInv'
      BY <1>1, <1>8, <2>3, <3>1, <3>2
         DEF AddFinalizer, DbParts, DbStepInv, StoredParts, ReadyDatabaseIsBacked
    <3>5. QED
      BY <1>2, <2>3, <3>3, <3>4 DEF DbParts
  <2>5. CASE ~ok
    <3>1. DbParts'
      BY <2>2, <2>5 DEF DbGoto, DbParts, DeleteInv, DbCopyInv, DbStepInv,
           UpsertSteps, DeleteSteps
    <3>2. QED
      BY <1>2, <2>3, <3>1
  <2>6. QED
    BY <2>4, <2>5
<1>9. CASE UpdateAgain
  <2>1. PICK ok \in BOOLEAN :
          /\ Update("database", dbcr, ok)
          /\ dbcr' = IF ok THEN [WithStatus(dbcr, db) EXCEPT !.name = TRUE] ELSE dbcr
          /\ DbGoto(ok, "objects")
    BY <1>9 DEF UpdateAgain
  <2>2. dbcr \in Database
    BY DEF TypeOK, DbTypeOK
  <2>3. /\ StoredParts' /\ DbWrite
        /\ ok => /\ db.live /\ ~db.deleting
                 /\ db' = WithStatus(dbcr, db) /\ dbcr.engine = db.engine
    BY <1>1, <2>1, <2>2, MetaWrite
  <2>4. CASE ok
    <3>1. dbcr' = [db' EXCEPT !.name = TRUE] /\ dpc' = "objects"
      BY <2>1, <2>3, <2>4 DEF DbGoto
    <3>2. SameMeta(dbcr', db') /\ dbcr'.engine = db'.engine /\ dbcr'.name
      BY <3>1 DEF TypeOK, ClusterTypeOK, Database, SameMeta
    <3>3. SameMeta(db', dbcr) /\ db'.engine = dbcr.engine
      BY <2>2, <2>3, <2>4, WithStatusFields DEF TypeOK, ClusterTypeOK
    <3>4. DeleteInv' /\ DbCopyInv'
      BY <1>3, <3>1, <3>2, <3>3
         DEF DeleteInv, DbCopyInv, SameMeta, UpsertSteps, DeleteSteps
    <3>5. dbcr.own /\ dbcr.engine /\ sqlDb /\ sqlPw # None
      BY <1>9 DEF UpdateAgain, DbParts, DbStepInv
    <3>6. dbcr'.own /\ dbcr'.engine /\ dbcr'.name /\ sqlDb' /\ sqlPw' # None
      BY <1>1, <3>2, <3>3, <3>5 DEF SameMeta
    <3>7. DbStepInv'
      BY <3>1, <3>6 DEF DbStepInv
    <3>8. QED
      BY <1>2, <2>3, <3>4, <3>7 DEF DbParts
  <2>5. CASE ~ok
    <3>1. DbParts'
      BY <2>1, <2>5 DEF DbGoto, DbParts, DeleteInv, DbCopyInv, DbStepInv,
           UpsertSteps, DeleteSteps
    <3>2. QED
      BY <1>2, <2>3, <3>1
  <2>6. QED
    BY <2>4, <2>5
<1>10. CASE SetReady
  <2> DEFINE o == [dbcr EXCEPT !.ready = TRUE]
  <2>1. /\ o \in Database /\ SameMeta(o, dbcr) /\ o.engine = dbcr.engine
        /\ o.name = dbcr.name
    BY DEF TypeOK, DbTypeOK, Database, SameMeta
  <2>2. PICK ok \in BOOLEAN :
          /\ StatusUpdate("database", o, ok)
          /\ DbDone \/ dpc' = "error"
    BY <1>10 DEF SetReady
  <2>3. fresh["database"] => db.own /\ o.engine /\ o.name /\ sqlDb /\ sqlPw # None
    BY <1>1, <1>10, <2>1 DEF SetReady, DbParts, DbCopyInv, DbStepInv, SameMeta
  <2>4. StoredParts' /\ DbWrite
    BY <1>1, <2>1, <2>2, <2>3, StatusWrite
  <2>5. DbParts'
    BY <2>2 DEF DbDone, DbParts, DeleteInv, DbCopyInv, DbStepInv, UpsertSteps,
         DeleteSteps
  <2>6. QED
    BY <1>2, <2>4, <2>5
<1>11. QED
  BY <1>4, <1>5, <1>6, <1>7, <1>8, <1>9, <1>10

(* The delete path, and the end of a reconcile that failed.                *)
LEMMA DbDeleteStepsInv ==
  ASSUME Inductive, TypeOK', UNCHANGED userVars,
         DropSqlDatabase \/ DropSqlUser \/ RemoveFinalizer \/ ManageError
  PROVE  Inductive'
<1> USE InductiveParts
<1>1. UNCHANGED <<userVars, du, uFresh>>
  BY DEF DropSqlDatabase, DropSqlUser, RemoveFinalizer, ManageError, resourceVars
<1>2. ASSUME DbWrite PROVE UserCopyInv' /\ UserStepInv'
  BY <1>2, DbWriteKeepsUserInv
<1>3. ASSUME dpc \in DeleteSteps
      PROVE  /\ db.live /\ db.deleting /\ db.own /\ db.users = {}
             /\ dbcr.deleting
             /\ \A u \in Users : ~(du[u].live /\ du[u].created /\ ~du[u].deleting)
  BY <1>3 DEF DbParts, DeleteInv, DbCopyInv, StoredParts, CreatedUserPinsDatabase
<1>4. CASE DropSqlDatabase \/ DropSqlUser
  <2>1. UNCHANGED <<db, fresh, dbcr>> /\ dpc \in DeleteSteps
    BY <1>4 DEF DropSqlDatabase, DropSqlUser, resourceVars, DeleteSteps
  <2>2. dpc' \in {"dropUser", "removeFinalizer", "error"}
    BY <1>4 DEF DropSqlDatabase, DropSqlUser, DbGoto
  <2>3. StoredParts'
    BY <1>1, <1>3, <2>1
       DEF StoredParts, StoredInv, ReadyDatabaseIsBacked, CreatedUserPinsDatabase
  <2>4. DbParts'
    BY <1>3, <2>1, <2>2 DEF DbParts, DeleteInv, DbCopyInv, DbStepInv, SameMeta,
         UpsertSteps, DeleteSteps
  <2>5. DbWrite
    BY <1>1, <2>1 DEF DbWrite
  <2>6. QED
    BY <1>2, <2>3, <2>4, <2>5
<1>5. CASE RemoveFinalizer
  <2> DEFINE o == [dbcr EXCEPT !.own = FALSE]
  <2>1. /\ o \in Database /\ o.users = dbcr.users /\ o.deleting = dbcr.deleting
        /\ ~o.own
    BY DEF TypeOK, DbTypeOK, Database
  <2>2. PICK ok \in BOOLEAN : Update("database", o, ok) /\ DbGoto(ok, "cleanup")
    BY <1>5 DEF RemoveFinalizer
  <2>3. dpc \in DeleteSteps /\ UNCHANGED <<sqlDb, sqlPw>>
    BY <1>5 DEF RemoveFinalizer, DeleteSteps, sqlVars
  <2>4. DbParts'
    BY <2>2 DEF DbGoto, DbParts, DeleteInv, DbCopyInv, DbStepInv, UpsertSteps,
         DeleteSteps
  <2>5. "database" \in Controllers /\ "dbuser" \in Controllers /\ ClusterTypeOK
    BY DEF Controllers, TypeOK
  <2> HIDE DEF o
  <2>6. CASE UNCHANGED <<db, fresh>>
    <3>1. StoredParts' /\ DbWrite
      BY <1>1, <2>3, <2>6, QuietStep DEF DbWrite
    <3>2. QED
      BY <1>2, <2>4, <3>1
  <2>7. CASE /\ CanUpdate("database", o) /\ db' = Reap(WithStatus(o, db))
             /\ \A k \in Controllers :
                  fresh'[k] => fresh[k] /\ (db' = db \/ (k = "database" /\ ok))
    <3>1. o.users = {} /\ o.deleting
      BY <1>3, <2>1, <2>3, <2>7 DEF CanUpdate, DbParts, DbCopyInv, SameMeta
    <3>2. SameMeta(WithStatus(o, db), o)
      BY <2>1, WithStatusFields DEF TypeOK, ClusterTypeOK
    <3>3. db' = NoDatabase
      BY <2>1, <2>7, <3>1, <3>2 DEF Reap, SameMeta
    <3>4. StoredParts'
      BY <1>1, <1>3, <2>3, <3>3, NoDatabaseFields
         DEF StoredParts, StoredInv, ReadyDatabaseIsBacked, CreatedUserPinsDatabase
    <3>5. DbWrite
      BY <1>1, <1>3, <2>3, <2>5, <2>7, <3>3, NoDatabaseFields DEF DbWrite
    <3>6. QED
      BY <1>2, <2>4, <3>4, <3>5
  <2>8. QED
    BY <2>1, <2>2, <2>5, <2>6, <2>7, UpdateEffect
<1>6. CASE ManageError
  <2> DEFINE o == [dbcr EXCEPT !.ready = FALSE]
  <2>1. o \in Database /\ ~o.ready
    BY DEF TypeOK, DbTypeOK, Database
  <2>2. PICK ok \in BOOLEAN : StatusUpdate("database", o, ok)
    BY <1>6 DEF ManageError
  <2>3. DbDone /\ UNCHANGED <<sqlDb, sqlPw>>
    BY <1>6 DEF ManageError, sqlVars
  <2>4. StoredParts' /\ DbWrite
    BY <1>1, <2>1, <2>2, <2>3, StatusWrite
  <2>5. DbParts'
    BY <2>3 DEF DbDone, DbParts, DeleteInv, DbCopyInv, DbStepInv, UpsertSteps,
         DeleteSteps
  <2>6. QED
    BY <1>2, <2>4, <2>5
<1>7. QED
  BY <1>4, <1>5, <1>6

(* Every step of the Database reconciler keeps the invariant.              *)
LEMMA DatabaseStepInv ==
  ASSUME Inductive, TypeOK', DatabaseStep PROVE Inductive'
BY DbQuietStepsInv, DbUpsertWritesInv, DbDeleteStepsInv DEF DatabaseStep, DbNext

-----------------------------------------------------------------------------
(* The DbUser controller *)

(* Its steps that write no resource.                                       *)
LEMMA UserQuietStepsInv ==
  ASSUME Inductive, TypeOK', UNCHANGED dbVars,
         \/ ReconcileMissingUser \/ (\E u \in Users : ReconcileUser(u))
         \/ DatabaseNotReady \/ ManageSqlUser \/ DropRole
  PROVE  Inductive'
<1> USE InductiveParts
<1>1. UNCHANGED <<db, du, sqlDb, sqlPw>> /\ fresh'["database"] = fresh["database"]
  BY DEF TypeOK, ClusterTypeOK, Controllers, resourceVars, sqlVars, clusterVars,
         ReconcileMissingUser, ReconcileUser, DatabaseNotReady, ManageSqlUser,
         DropRole, SetPermissions, CreateUser, UpdateUser, DeleteUser,
         RevokePermissions
<1>2. StoredParts'
  BY <1>1, QuietStep
<1>3. DbParts'
  BY <1>1, UserWriteKeepsDbInv DEF UserWrite, DbParts
<1>4. CASE ReconcileMissingUser
  <2>1. UserCopyInv' /\ UserStepInv'
    BY <1>4 DEF ReconcileMissingUser, userVars, clusterVars, resourceVars,
         UserCopyInv, UserStepInv
  <2>2. QED
    BY <1>2, <1>3, <2>1
<1>5. ASSUME NEW u \in Users, ReconcileUser(u) PROVE Inductive'
  <2>1. /\ x' = u /\ ucr' = du[u] /\ udb' = db
        /\ upc' \in {"error", "dropRole", "sqlUser"}
        /\ upc' = "dropRole" => du[u].deleting
        /\ du[u].live
    BY <1>5 DEF ReconcileUser
  <2>2. UserCopyInv'
    BY <1>1, <2>1 DEF UserCopyInv
  <2>3. UserStepInv'
    BY <1>1, <2>1 DEF UserStepInv, StoredParts, CreatedUserPinsDatabase
  <2>4. QED
    BY <1>2, <1>3, <2>2, <2>3
<1>6. CASE DatabaseNotReady \/ ManageSqlUser \/ DropRole
  <2>1. UNCHANGED <<x, ucr, udb, db, du, fresh, uFresh>>
    BY <1>6 DEF DatabaseNotReady, ManageSqlUser, DropRole, clusterVars, resourceVars
  <2>2. CASE upc' = "error" /\ upc # "idle"
    <3>1. UserCopyInv' /\ UserStepInv'
      BY <2>1, <2>2 DEF UserCopyInv, UserStepInv
    <3>2. QED
      BY <1>2, <1>3, <3>1
  <2>3. CASE upc = "sqlUser" /\ udb.ready /\ upc' \in {"addUserFinalizer", "setReady"}
    <3>1. UserCopyInv' /\ UserStepInv'
      BY <2>1, <2>3 DEF UserCopyInv, UserStepInv
    <3>2. QED
      BY <1>2, <1>3, <3>1
  <2>4. CASE upc = "dropRole" /\ upc' = "removeDbFinalizer"
    <3>1. UserCopyInv' /\ UserStepInv'
      BY <2>1, <2>4 DEF UserCopyInv, UserStepInv
    <3>2. QED
      BY <1>2, <1>3, <3>1
  <2>5. QED
    BY <1>6, <2>2, <2>3, <2>4 DEF DatabaseNotReady, ManageSqlUser, DropRole, UserGoto
<1>7. QED
  BY <1>4, <1>5, <1>6

(* Its steps that write the DbUser.                                        *)
LEMMA UserWritesInv ==
  ASSUME Inductive, TypeOK', UNCHANGED dbVars,
         \/ AddUserFinalizer \/ SetUserReady \/ RemoveUserFinalizer
         \/ ManageUserError
  PROVE  Inductive'
<1> USE InductiveParts
<1>1. UNCHANGED <<db, fresh, sqlDb, sqlPw>> /\ x \in Users /\ upc # "idle"
  BY DEF TypeOK, UserTypeOK, sqlVars, AddUserFinalizer, SetUserReady,
         RemoveUserFinalizer, ManageUserError
<1>2. DbParts'
  BY <1>1, UserWriteKeepsDbInv DEF UserWrite, DbParts
<1>3. StoredInv' /\ ReadyDatabaseIsBacked'
  BY <1>1 DEF StoredParts, StoredInv, ReadyDatabaseIsBacked
<1>4. ucr \in DbUser /\ du[x] \in DbUser /\ ClusterTypeOK
  BY <1>1 DEF TypeOK, UserTypeOK, ClusterTypeOK
<1>5. CASE AddUserFinalizer
  <2> DEFINE o == [ucr EXCEPT !.fin = TRUE]
  <2>1. /\ o \in DbUser /\ o.live = ucr.live /\ o.deleting = ucr.deleting
        /\ o.fin /\ o.created = ucr.created
    BY <1>4 DEF DbUser
  <2>2. PICK ok \in BOOLEAN :
          /\ UserUpdate(x, o, ok)
          /\ ucr' = IF ok THEN WithUserStatus(o, du[x]) ELSE o
          /\ UserGoto(ok, "addDbFinalizer")
    BY <1>5 DEF AddUserFinalizer
  <2>3. UNCHANGED <<x, udb>> /\ upc = "addUserFinalizer"
    BY <1>5 DEF AddUserFinalizer
  <2> HIDE DEF o
  <2> DEFINE w == WithUserStatus(o, du[x])
  <2>4. /\ w.live = o.live /\ w.deleting = o.deleting /\ w.fin
        /\ w.created = du[x].created
    BY <1>4, <2>1, WithUserStatusFields
  <2>5. ReapUser(w) = w
    BY <2>4 DEF ReapUser
  <2> HIDE DEF w
  <2>6. /\ ok => CanUpdateUser(x, o) /\ du'[x] = w
        /\ \A v \in Users : v # x => du'[v] = du[v]
        /\ \/ UNCHANGED <<du, uFresh>>
           \/ /\ CanUpdateUser(x, o) /\ du'[x] = w
              /\ uFresh'[x] => uFresh[x] /\ (du'[x] = du[x] \/ ok)
    BY <1>1, <1>4, <2>1, <2>2, <2>5, UserUpdateEffect DEF w
  <2>7. CanUpdateUser(x, o) => w.live /\ w.deleting = du[x].deleting /\ du[x].live
    BY <2>1, <2>3, <2>4 DEF CanUpdateUser, UserCopyInv
  <2>8. CreatedUserPinsDatabase'
    BY <1>1, <2>4, <2>6, <2>7 DEF StoredParts, CreatedUserPinsDatabase
  <2>9. CASE ok
    <3>1. ucr' = w /\ upc' = "addDbFinalizer" /\ du'[x] = w /\ CanUpdateUser(x, o)
      BY <2>2, <2>6, <2>9 DEF UserGoto, w
    <3>2. UserCopyInv'
      BY <1>1, <2>3, <3>1 DEF UserCopyInv
    <3>3. UserStepInv'
      BY <1>1, <2>3, <2>4, <2>7, <3>1
         DEF UserStepInv, StoredParts, CreatedUserPinsDatabase
    <3>4. QED
      BY <1>2, <1>3, <2>8, <3>2, <3>3 DEF StoredParts
  <2>10. CASE ~ok
    <3>1. upc' = "error" /\ ucr'.created = ucr.created
      BY <2>1, <2>2, <2>10 DEF UserGoto
    <3>2. UserCopyInv' /\ UserStepInv'
      BY <1>1, <2>3, <2>6, <2>10, <3>1 DEF UserCopyInv, UserStepInv
    <3>3. QED
      BY <1>2, <1>3, <2>8, <3>2 DEF StoredParts
  <2>11. QED
    BY <2>9, <2>10
<1>6. ASSUME NEW o \in DbUser, NEW ok \in BOOLEAN, UserStatusUpdate(x, o, ok),
             o.created = ucr.created
      PROVE  CreatedUserPinsDatabase'
  <2>1. LET w == WithUserStatus(du[x], o) IN
        /\ w.live = du[x].live /\ w.deleting = du[x].deleting
        /\ w.fin = du[x].fin /\ w.created = ucr.created
    BY <1>4, <1>6, WithUserStatusFields
  <2>2. /\ \A v \in Users : v # x => du'[v] = du[v]
        /\ du'[x] = du[x] \/ (uFresh[x] /\ du'[x] = WithUserStatus(du[x], o))
    BY <1>1, <1>4, <1>6, UserStatusUpdateEffect
  <2>3. uFresh[x] /\ ucr.created /\ ~du[x].deleting =>
          du[x].fin /\ x \in db.users /\ db.live /\ db.own /\ sqlDb
    BY <1>1 DEF UserStepInv, StoredParts, StoredInv
  <2>4. QED
    BY <1>1, <2>1, <2>2, <2>3 DEF StoredParts, CreatedUserPinsDatabase
<1>7. ASSUME UserDone PROVE UserCopyInv' /\ UserStepInv'
  BY <1>7 DEF UserDone, UserCopyInv, UserStepInv
<1>8. CASE SetUserReady
  <2> DEFINE o == [ucr EXCEPT !.ready = TRUE]
  <2>1. o \in DbUser /\ o.created = ucr.created
    BY <1>4 DEF DbUser
  <2>2. CASE (\E ok \in BOOLEAN : UserStatusUpdate(x, o, ok)) /\ UserDone
    BY <1>2, <1>3, <1>6, <1>7, <2>1, <2>2 DEF StoredParts
  <2>3. CASE upc' = "error" /\ UNCHANGED <<x, ucr, udb, du, uFresh>>
    <3>1. CreatedUserPinsDatabase'
      BY <1>1, <2>3 DEF StoredParts, CreatedUserPinsDatabase
    <3>2. UserCopyInv' /\ UserStepInv'
      BY <1>1, <2>3 DEF UserCopyInv, UserStepInv
    <3>3. QED
      BY <1>2, <1>3, <3>1, <3>2 DEF StoredParts
  <2>4. QED
    BY <1>8, <2>2, <2>3 DEF SetUserReady
<1>9. CASE ManageUserError
  <2> DEFINE o == [ucr EXCEPT !.ready = FALSE]
  <2>1. o \in DbUser /\ o.created = ucr.created
    BY <1>4 DEF DbUser
  <2>2. (\E ok \in BOOLEAN : UserStatusUpdate(x, o, ok)) /\ UserDone
    BY <1>9 DEF ManageUserError
  <2>3. QED
    BY <1>2, <1>3, <1>6, <1>7, <2>1, <2>2 DEF StoredParts
<1>10. CASE RemoveUserFinalizer
  <2> DEFINE o == [ucr EXCEPT !.fin = FALSE]
  <2>1. o \in DbUser /\ o.deleting = ucr.deleting /\ ~o.fin
    BY <1>4 DEF DbUser
  <2>2. PICK ok \in BOOLEAN :
          /\ UserUpdate(x, o, ok)
          /\ IF ok THEN UserDone ELSE upc' = "error" /\ UNCHANGED <<x, ucr, udb>>
    BY <1>10 DEF RemoveUserFinalizer
  <2>3. upc = "removeUserFinalizer" /\ du[x].live /\ du[x].deleting
    BY <1>10 DEF RemoveUserFinalizer, UserStepInv
  <2> HIDE DEF o
  <2> DEFINE w == WithUserStatus(o, du[x])
  <2>4. w.deleting = o.deleting /\ ~w.fin
    BY <1>4, <2>1, WithUserStatusFields
  <2>5. /\ \A v \in Users : v # x => du'[v] = du[v]
        /\ \/ UNCHANGED <<du, uFresh>>
           \/ /\ CanUpdateUser(x, o) /\ du'[x] = ReapUser(w)
              /\ uFresh'[x] => uFresh[x] /\ (du'[x] = du[x] \/ ok)
    BY <1>1, <1>4, <2>1, <2>2, UserUpdateEffect
  <2> HIDE DEF w
  <2>6. CanUpdateUser(x, o) => ReapUser(w) = NoDbUser
    BY <2>1, <2>3, <2>4 DEF CanUpdateUser, UserCopyInv, ReapUser
  <2>7. CreatedUserPinsDatabase'
    BY <1>1, <2>5, <2>6, NewDbUserFields DEF StoredParts, CreatedUserPinsDatabase
  <2>8. CASE ok
    BY <1>2, <1>3, <1>7, <2>2, <2>7, <2>8 DEF StoredParts
  <2>9. CASE ~ok
    <3>1. upc' = "error" /\ UNCHANGED <<x, ucr, udb>>
      BY <2>2, <2>9
    <3>2. uFresh'[x] => du'[x] = du[x]
      BY <2>5, <2>9
    <3>3. UserCopyInv' /\ UserStepInv'
      BY <2>3, <3>1, <3>2 DEF UserCopyInv, UserStepInv
    <3>4. QED
      BY <1>2, <1>3, <2>7, <3>3 DEF StoredParts
  <2>10. QED
    BY <2>8, <2>9
<1>11. QED
  BY <1>5, <1>8, <1>9, <1>10

(* Its steps that write the Database: a finalizer comes or goes.           *)
LEMMA UserDbWritesInv ==
  ASSUME Inductive, TypeOK', UNCHANGED dbVars,
         AddDbFinalizer \/ RemoveDbFinalizer
  PROVE  Inductive'
<1> USE InductiveParts
<1>1. UNCHANGED <<x, udb, du, uFresh, sqlDb, sqlPw>> /\ x \in Users
  BY DEF TypeOK, UserTypeOK, sqlVars, AddDbFinalizer, RemoveDbFinalizer
<1>2. "database" \in Controllers /\ "dbuser" \in Controllers /\ ClusterTypeOK
  BY DEF Controllers, TypeOK
<1>3. db \in Database /\ udb \in Database
  BY DEF TypeOK, ClusterTypeOK, UserTypeOK
<1>4. CASE AddDbFinalizer
  <2> DEFINE o == [udb EXCEPT !.users = @ \cup {x}]
  <2>1. /\ o \in Database /\ o.users = udb.users \cup {x} /\ o.live = udb.live
        /\ o.deleting = udb.deleting /\ o.own = udb.own
    BY <1>1, <1>3 DEF Database
  <2>2. PICK ok \in BOOLEAN :
          /\ Update("dbuser", o, ok)
          /\ ucr' = [ucr EXCEPT !.created = @ \/ ok]
          /\ UserGoto(ok, "setReady")
    BY <1>4 DEF AddDbFinalizer
  <2>3. /\ upc = "addDbFinalizer" /\ udb.ready
        /\ uFresh[x] => du[x].live /\ du[x].fin
    BY <1>4 DEF AddDbFinalizer, UserStepInv
  <2> HIDE DEF o
  <2> DEFINE w == WithStatus(o, db)
  <2>4. SameMeta(w, o) /\ w.ready = db.ready /\ w.engine = db.engine /\ w.name = db.name
    BY <1>3, <2>1, WithStatusFields
  <2>5. Reap(w) = w /\ x \in w.users
    BY <2>1, <2>4 DEF Reap, SameMeta
  <2>6. /\ ok => CanUpdate("dbuser", o) /\ db' = w
        /\ \/ UNCHANGED <<db, fresh>>
           \/ /\ CanUpdate("dbuser", o) /\ db' = w
              /\ fresh'["database"] => fresh["database"] /\ db' = db
    BY <1>2, <2>1, <2>2, <2>5, UpdateEffect
  <2>7. ASSUME CanUpdate("dbuser", o)
        PROVE  /\ w.users = db.users \cup {x} /\ w.live = db.live
               /\ w.deleting = db.deleting /\ w.own = db.own
               /\ db.live /\ db.own /\ sqlDb /\ (db.deleting => x \in db.users)
    <3>1. udb = db
      BY <2>3, <2>7 DEF CanUpdate, UserCopyInv
    <3>2. db.deleting => x \in db.users
      BY <2>1, <2>7, <3>1 DEF CanUpdate
    <3>3. db.live
      BY <2>7 DEF CanUpdate
    <3>4. db.own /\ sqlDb
      BY <2>3, <3>1, <3>2, <3>3
         DEF StoredParts, StoredInv, ReadyDatabaseIsBacked
    <3>5. QED
      BY <2>1, <2>4, <3>1, <3>2, <3>3, <3>4 DEF SameMeta
  <2> HIDE DEF w
  <2>8. StoredParts'
    <3>1. CASE UNCHANGED <<db, fresh>>
      BY <1>1, <3>1, QuietStep
    <3>2. CASE CanUpdate("dbuser", o) /\ db' = w
      <4>1. StoredInv'
        BY <1>1, <2>7, <3>2 DEF StoredInv
      <4>2. ReadyDatabaseIsBacked'
        BY <1>1, <2>4, <2>7, <3>2 DEF StoredParts, ReadyDatabaseIsBacked
      <4>3. CreatedUserPinsDatabase'
        BY <1>1, <2>7, <3>2 DEF StoredParts, CreatedUserPinsDatabase
      <4>4. QED
        BY <4>1, <4>2, <4>3 DEF StoredParts
    <3>3. QED
      BY <2>6, <3>1, <3>2
  <2>9. UserWrite
    BY <1>1, <2>6, <2>7 DEF UserWrite
  <2>10. DbParts'
    BY <2>9, UserWriteKeepsDbInv DEF DbParts
  <2>11. db.users \subseteq db'.users /\ (ok => x \in db'.users)
    BY <2>5, <2>6, <2>7
  <2>12. /\ ucr'.live = ucr.live /\ ucr'.deleting = ucr.deleting
         /\ ucr'.created => ucr.created \/ ok
    BY <2>2 DEF TypeOK, UserTypeOK, DbUser
  <2>13. upc' \in {"setReady", "error"}
    BY <2>2 DEF UserGoto
  <2>14. UserCopyInv'
    BY <1>1, <2>3, <2>12, <2>13 DEF UserCopyInv
  <2>15. UserStepInv'
    BY <1>1, <2>3, <2>11, <2>12, <2>13 DEF UserStepInv
  <2>16. QED
    BY <2>8, <2>10, <2>14, <2>15
<1>5. CASE RemoveDbFinalizer
  <2> DEFINE o == [udb EXCEPT !.users = @ \ {x}]
  <2>1. /\ o \in Database /\ o.users = udb.users \ {x} /\ o.live = udb.live
        /\ o.deleting = udb.deleting /\ o.own = udb.own
    BY <1>1, <1>3 DEF Database
  <2>2. PICK ok \in BOOLEAN :
          Update("dbuser", o, ok) /\ UserGoto(ok, "removeUserFinalizer")
    BY <1>5 DEF RemoveDbFinalizer
  <2>3. /\ upc = "removeDbFinalizer" /\ du[x].live /\ du[x].deleting
        /\ UNCHANGED ucr
    BY <1>5 DEF RemoveDbFinalizer, UserStepInv
  <2> HIDE DEF o
  <2> DEFINE w == WithStatus(o, db)
  <2>4. SameMeta(w, o) /\ w.ready = db.ready /\ w.engine = db.engine /\ w.name = db.name
    BY <1>3, <2>1, WithStatusFields
  <2>5. \/ UNCHANGED <<db, fresh>>
        \/ /\ CanUpdate("dbuser", o) /\ db' = Reap(w)
           /\ fresh'["database"] => fresh["database"] /\ db' = db
    BY <1>2, <2>1, <2>2, UpdateEffect
  <2>6. ASSUME CanUpdate("dbuser", o)
        PROVE  /\ w.users = db.users \ {x} /\ w.live = db.live
               /\ w.deleting = db.deleting /\ w.own = db.own
    BY <2>1, <2>3, <2>4, <2>6 DEF CanUpdate, UserCopyInv, SameMeta
  <2> HIDE DEF w
  <2>7. CASE UNCHANGED <<db, fresh>>
    <3>1. StoredParts' /\ UserWrite
      BY <1>1, <2>7, QuietStep DEF UserWrite
    <3>2. QED
      BY <1>1, <2>2, <2>3, <2>7, <3>1, UserWriteKeepsDbInv
         DEF DbParts, UserGoto, UserCopyInv, UserStepInv
  <2>8. CASE /\ CanUpdate("dbuser", o) /\ db' = Reap(w)
             /\ fresh'["database"] => fresh["database"] /\ db' = db
    <3>1. db.own => db' = w
      BY <2>6, <2>8 DEF Reap
    <3>2. db' = w \/ db' = NoDatabase
      BY <2>8 DEF Reap
    <3>3. StoredInv'
      BY <1>1, <2>6, <2>8, <3>1, <3>2, NoDatabaseFields DEF StoredParts, StoredInv
    <3>4. ReadyDatabaseIsBacked'
      BY <1>1, <2>4, <2>6, <2>8, <3>2, NoDatabaseFields
         DEF StoredParts, ReadyDatabaseIsBacked
    <3>5. CreatedUserPinsDatabase'
      BY <1>1, <2>3, <2>6, <2>8, <3>1 DEF StoredParts, CreatedUserPinsDatabase
    <3>6. UserWrite
      BY <1>1, <2>6, <2>8, <3>1 DEF UserWrite
    <3>7. DbParts'
      BY <3>6, UserWriteKeepsDbInv DEF DbParts
    <3>8. UserCopyInv' /\ UserStepInv'
      BY <1>1, <2>2, <2>3 DEF UserGoto, UserCopyInv, UserStepInv
    <3>9. QED
      BY <3>3, <3>4, <3>5, <3>7, <3>8 DEF StoredParts
  <2>9. QED
    BY <2>5, <2>7, <2>8
<1>6. QED
  BY <1>4, <1>5

(* Every step of the DbUser reconciler keeps the invariant.                *)
LEMMA DbUserStepInv ==
  ASSUME Inductive, TypeOK', DbUserStep PROVE Inductive'
BY UserQuietStepsInv, UserWritesInv, UserDbWritesInv
   DEF DbUserStep, UserNext, UserStep

-----------------------------------------------------------------------------
(* People, restarts, and the theorems *)

(* A write of the Database by a person makes every changed copy outdated.  *)
LEMMA PersonStore ==
  ASSUME ClusterTypeOK, NEW o, StoreDb("person", o)
  PROVE  /\ db' = o
         /\ fresh'["database"] => fresh["database"] /\ db' = db
         /\ fresh'["dbuser"] => fresh["dbuser"] /\ db' = db
BY DEF StoreDb, Controllers, ClusterTypeOK

(* Edits of the Database and of its Secret keep the invariant.             *)
LEMMA PeopleDbStepsInv ==
  ASSUME Inductive, TypeOK', UNCHANGED <<dbVars, userVars>>,
         \/ \E s \in Specs : CreateDatabaseResource(s)
         \/ \E s \in Specs : EditDatabaseSpec(s)
         \/ ForceFullReconcile \/ DeleteDatabaseResource
  PROVE  Inductive'
<1> USE InductiveParts
<1>1. UNCHANGED <<du, uFresh, sqlDb, sqlPw>> /\ ClusterTypeOK
  BY DEF CreateDatabaseResource, EditDatabaseSpec, ForceFullReconcile,
         DeleteDatabaseResource, Edit, sqlVars, TypeOK
<1>2. ASSUME NEW o, StoreDb("person", o), o.users = db.users, StoredParts',
             db.live /\ db.deleting /\ db.own /\ db.users = {} =>
               o.live /\ o.deleting /\ o.own
      PROVE  Inductive'
  <2>1. DbWrite /\ UserWrite
    BY <1>1, <1>2, PersonStore DEF DbWrite, UserWrite
  <2>2. QED
    BY <1>2, <2>1, DbWriteKeepsUserInv, UserWriteKeepsDbInv DEF DbParts
<1>3. ASSUME NEW s \in Specs, CreateDatabaseResource(s) PROVE Inductive'
  <2>1. /\ db' = NewDatabase(s) /\ StoreDb("person", NewDatabase(s)) /\ ~db.live
        /\ db.users = {}
    BY <1>1, <1>3, PersonStore DEF CreateDatabaseResource, StoredParts, StoredInv
  <2>2. StoredParts'
    BY <1>1, <2>1, NewDatabaseFields
       DEF StoredParts, StoredInv, ReadyDatabaseIsBacked, CreatedUserPinsDatabase
  <2>3. QED
    BY <1>2, <2>1, <2>2, NewDatabaseFields
<1>4. ASSUME NEW o \in Database, StoreDb("person", o), SameMeta(o, db),
             o.ready = db.ready, o.engine = db.engine, o.name = db.name
      PROVE  Inductive'
  <2>1. db' = o
    BY <1>1, <1>4, PersonStore
  <2>2. ReadyDatabaseIsBacked'
    BY <1>1, <1>4, <2>1 DEF SameMeta, StoredParts, ReadyDatabaseIsBacked
  <2>3. StoredParts'
    BY <1>1, <1>4, <2>1, <2>2, KeepingWrite DEF SameMeta
  <2>4. QED
    BY <1>2, <1>4, <2>3 DEF SameMeta
<1>5. ASSUME NEW s \in Specs, EditDatabaseSpec(s) PROVE Inductive'
  <2> DEFINE o == [db EXCEPT !.spec = s]
  <2>1. /\ o \in Database /\ SameMeta(o, db) /\ o.ready = db.ready
        /\ o.engine = db.engine /\ o.name = db.name
    BY <1>1 DEF ClusterTypeOK, Database, SameMeta
  <2>2. QED
    BY <1>4, <1>5, <2>1 DEF EditDatabaseSpec
<1>6. CASE ForceFullReconcile
  <2> DEFINE o == [db EXCEPT !.force = TRUE]
  <2>1. /\ o \in Database /\ SameMeta(o, db) /\ o.ready = db.ready
        /\ o.engine = db.engine /\ o.name = db.name
    BY <1>1 DEF ClusterTypeOK, Database, SameMeta
  <2>2. QED
    BY <1>4, <1>6, <2>1 DEF ForceFullReconcile
<1>7. CASE DeleteDatabaseResource
  <2> DEFINE d == [db EXCEPT !.deleting = TRUE]
  <2>1. /\ d.live = db.live /\ d.own = db.own /\ d.users = db.users /\ d.deleting
    BY <1>1 DEF ClusterTypeOK, Database
  <2>2. StoreDb("person", Reap(d)) /\ ~db.deleting
    BY <1>7 DEF DeleteDatabaseResource
  <2> HIDE DEF d
  <2>3. db' = Reap(d) /\ Reap(d).users = db.users
    BY <1>1, <2>1, <2>2, PersonStore, NoDatabaseFields DEF Reap
  <2>4. db.own => db' = d
    BY <2>1, <2>3 DEF Reap
  <2>5. db' = d \/ db' = NoDatabase
    BY <2>3 DEF Reap
  <2>6. StoredInv'
    BY <1>1, <2>1, <2>3, <2>4 DEF StoredParts, StoredInv
  <2>7. ReadyDatabaseIsBacked'
    BY <2>1, <2>5, NoDatabaseFields DEF ReadyDatabaseIsBacked
  <2>8. CreatedUserPinsDatabase'
    BY <1>1, <2>1, <2>4 DEF StoredParts, CreatedUserPinsDatabase
  <2>9. QED
    BY <1>2, <2>2, <2>3, <2>6, <2>7, <2>8 DEF StoredParts
<1>8. QED
  BY <1>3, <1>5, <1>6, <1>7

(* Edits of the DbUsers keep the invariant.                                *)
LEMMA PeopleUserStepsInv ==
  ASSUME Inductive, TypeOK', UNCHANGED <<dbVars, userVars>>,
         \/ \E u \in Users : \/ CreateDbUserResource(u)
                             \/ TouchDbUserResource(u)
                             \/ DeleteDbUserResource(u)
         \/ \E p \in Passwords \cup {None} : ChangeSecret(p)
  PROVE  Inductive'
<1> USE InductiveParts
<1>1. UNCHANGED <<db, fresh, sqlDb, sqlPw>> /\ ClusterTypeOK
  BY DEF CreateDbUserResource, TouchDbUserResource, DeleteDbUserResource,
         ChangeSecret, Edit, sqlVars, TypeOK
<1>2. DbParts'
  BY <1>1, UserWriteKeepsDbInv DEF UserWrite, DbParts
<1>3. StoredInv' /\ ReadyDatabaseIsBacked'
  BY <1>1 DEF StoredParts, StoredInv, ReadyDatabaseIsBacked
<1>4. CASE UNCHANGED <<du, uFresh>>
  BY <1>1, <1>2, <1>3, <1>4 DEF StoredParts, CreatedUserPinsDatabase, userVars,
       UserCopyInv, UserStepInv
<1>5. ASSUME NEW u \in Users,
             \A v \in Users : v # u => du'[v] = du[v] /\ uFresh'[v] = uFresh[v],
             uFresh'[u] => uFresh[u] /\ du'[u] = du[u],
             du[u].live /\ du[u].deleting => du'[u] = du[u],
             du'[u].live /\ du'[u].created /\ ~du'[u].deleting => du'[u] = du[u]
      PROVE  Inductive'
  <2>1. CreatedUserPinsDatabase'
    BY <1>1, <1>5 DEF StoredParts, CreatedUserPinsDatabase
  <2>2. upc # "idle" => x \in Users
    BY DEF TypeOK, UserTypeOK
  <2>3. UserCopyInv'
    BY <1>1, <1>5, <2>2 DEF UserCopyInv, userVars
  <2>4. UserStepInv'
    BY <1>1, <1>5, <2>2 DEF UserStepInv, userVars
  <2>5. QED
    BY <1>2, <1>3, <2>1, <2>3, <2>4 DEF StoredParts
<1>6. ASSUME NEW u \in Users, NEW o, StoreUser("person", u, o)
      PROVE  /\ \A v \in Users : v # u => du'[v] = du[v] /\ uFresh'[v] = uFresh[v]
             /\ du'[u] = o
             /\ uFresh'[u] => uFresh[u] /\ du'[u] = du[u]
  BY <1>1, <1>6 DEF StoreUser, ClusterTypeOK
<1>7. ASSUME NEW u \in Users, CreateDbUserResource(u) PROVE Inductive'
  BY <1>5, <1>6, <1>7, NewDbUserFields DEF CreateDbUserResource
<1>8. ASSUME NEW u \in Users, TouchDbUserResource(u) PROVE Inductive'
  <2>1. UNCHANGED du /\ ~uFresh'[u] /\ \A v \in Users : v # u => uFresh'[v] = uFresh[v]
    BY <1>1, <1>8 DEF TouchDbUserResource, ClusterTypeOK
  <2>2. QED
    BY <1>5, <2>1
<1>9. ASSUME NEW u \in Users, DeleteDbUserResource(u) PROVE Inductive'
  <2> DEFINE d == [du[u] EXCEPT !.deleting = TRUE]
  <2>1. d.deleting
    BY <1>1 DEF ClusterTypeOK, DbUser
  <2>2. StoreUser("person", u, ReapUser(d)) /\ ~du[u].deleting
    BY <1>9 DEF DeleteDbUserResource
  <2> HIDE DEF d
  <2>3. du'[u] = ReapUser(d)
    BY <1>6, <2>2
  <2>4. ~(du'[u].live /\ du'[u].created /\ ~du'[u].deleting)
    BY <2>1, <2>3, NewDbUserFields DEF ReapUser
  <2>5. QED
    BY <1>5, <1>6, <2>2, <2>4
<1>10. QED
  BY <1>4, <1>7, <1>8, <1>9 DEF ChangeSecret

(* A restart of the operator keeps the invariant.                          *)
LEMMA RestartInv == ASSUME Inductive, TypeOK', Restart PROVE Inductive'
<1> USE InductiveParts
<1>1. StoredParts'
  BY QuietStep DEF Restart, resourceVars, sqlVars
<1>2. DbParts'
  BY DEF Restart, DbDone, DbParts, DeleteInv, DbCopyInv, DbStepInv, UpsertSteps,
         DeleteSteps
<1>3. UserCopyInv' /\ UserStepInv'
  BY DEF Restart, UserDone, UserCopyInv, UserStepInv
<1>4. QED
  BY <1>1, <1>2, <1>3

(* The invariant holds initially.                                          *)
LEMMA InitInductive == Init => Inductive
<1> SUFFICES ASSUME Init PROVE Inductive
  OBVIOUS
<1>1. PICK s \in Specs : db = NewDatabase(s)
  BY DEF Init, ClusterInit
<1>2. \A u \in Users : du[u] = NoDbUser
  BY DEF Init, ClusterInit
<1>3. StoredParts
  BY <1>1, <1>2, NewDatabaseFields, NewDbUserFields
     DEF StoredParts, StoredInv, ReadyDatabaseIsBacked, CreatedUserPinsDatabase
<1>4. DbParts
  BY DEF Init, DbInit, DbParts, DeleteInv, DbCopyInv, DbStepInv, UpsertSteps,
         DeleteSteps
<1>5. UserCopyInv /\ UserStepInv
  BY DEF Init, UserInit, UserCopyInv, UserStepInv
<1>6. QED
  BY <1>3, <1>4, <1>5, InitType, InductiveParts

(* Every step keeps the invariant.                                         *)
LEMMA NextInductive == Inductive /\ [Next]_vars => Inductive'
<1> SUFFICES ASSUME Inductive, [Next]_vars PROVE Inductive'
  OBVIOUS
<1>1. TypeOK'
  BY NextType DEF Inductive
<1>2. CASE DatabaseStep
  BY <1>1, <1>2, DatabaseStepInv
<1>3. CASE DbUserStep
  BY <1>1, <1>3, DbUserStepInv
<1>4. CASE PeopleStep /\ UNCHANGED <<dbVars, userVars>>
  BY <1>1, <1>4, PeopleDbStepsInv, PeopleUserStepsInv DEF PeopleStep
<1>5. CASE Restart
  BY <1>1, <1>5, RestartInv
<1>6. CASE UNCHANGED vars
  BY <1>6 DEF vars, clusterVars, resourceVars, sqlVars, budgetVars, dbVars,
       userVars, Inductive, TypeOK, ClusterTypeOK, DbTypeOK, UserTypeOK,
       StoredInv, DeleteInv, DbCopyInv, DbStepInv, UserCopyInv, UserStepInv,
       ReadyDatabaseIsBacked, CreatedUserPinsDatabase, SameMeta
<1>7. QED
  BY <1>2, <1>3, <1>4, <1>5, <1>6 DEF Next

(* The inductive invariant holds in every reachable state.                 *)
THEOREM InductiveInvariant == Spec => []Inductive
BY InitInductive, NextInductive, PTL DEF Spec

(* A Database stored as ready and not being deleted has its finalizer, its *)
(* names and its SQL objects, in every reachable state.                    *)
THEOREM ReadyIsBacked == Spec => []ReadyDatabaseIsBacked
<1>1. Inductive => ReadyDatabaseIsBacked
  BY DEF Inductive
<1>2. QED
  BY <1>1, InductiveInvariant, PTL

(* A created DbUser pins its Database and the SQL database.                *)
THEOREM CreatedUserPins == Spec => []CreatedUserPinsDatabase
<1>1. Inductive => CreatedUserPinsDatabase
  BY DEF Inductive
<1>2. QED
  BY <1>1, InductiveInvariant, PTL

(* No step drops the SQL database of a Database that is not being deleted  *)
(* or that a DbUser references.                                            *)
THEOREM DropsAreSafe == Spec => DropOnlyUnreferenced
<1> DEFINE Safe == sqlDb /\ ~sqlDb' => db.live /\ db.deleting /\ db.users = {}
<1>1. ASSUME Inductive, Next PROVE Safe
  <2>1. CASE DatabaseStep /\ DropSqlDatabase
    BY <1>1, <2>1 DEF DropSqlDatabase, Inductive, DeleteInv, DeleteSteps
  <2>2. CASE DatabaseStep /\ CreateSqlDatabase
    BY <2>2 DEF CreateSqlDatabase, CreateDatabase, PostgresCreateDatabase,
         MysqlCreateDatabase
  <2>3. CASE DatabaseStep /\ ~DropSqlDatabase /\ ~CreateSqlDatabase
    <3>1. sqlDb' = sqlDb
      BY <2>3 DEF DatabaseStep, DbNext, ReconcileMissing, ReconcileCreateOrUpdate,
           ReconcileDelete, HealthCheck, IsFullReconcileForced, IsFullReconcile,
           SecretFound, SecretGenerated, PutSecret, RecordEngine, CreateSqlUser,
           CreateOrUpdateUser, SaveGrants, AddFinalizer, UpdateAgain,
           HandleObjects, SetReady, DropSqlUser, DeleteMainUser,
           PostgresDeleteUser, MysqlDeleteUser, RemoveFinalizer,
           Cleanup, ManageError, sqlVars, clusterVars
    <3>2. QED
      BY <3>1
  <2>4. CASE DbUserStep
    <3>1. sqlDb' = sqlDb
      BY <2>4 DEF DbUserStep, UserNext, UserStep, ReconcileMissingUser,
           ReconcileUser, DatabaseNotReady, ManageSqlUser, SetPermissions,
           CreateUser, UpdateUser, AddUserFinalizer, AddDbFinalizer, SetUserReady,
           DropRole, DeleteUser, RevokePermissions, RemoveDbFinalizer,
           RemoveUserFinalizer, ManageUserError, sqlVars, clusterVars
    <3>2. QED
      BY <3>1
  <2>5. CASE PeopleStep \/ Restart
    <3>1. sqlDb' = sqlDb
      BY <2>5 DEF PeopleStep, CreateDatabaseResource, EditDatabaseSpec,
           ForceFullReconcile, DeleteDatabaseResource, CreateDbUserResource,
           TouchDbUserResource, DeleteDbUserResource, ChangeSecret, Edit,
           Restart, sqlVars
    <3>2. QED
      BY <3>1
  <2>6. QED
    BY <1>1, <2>1, <2>2, <2>3, <2>4, <2>5 DEF Next
<1>2. Inductive /\ [Next]_vars => [Safe]_vars
  BY <1>1
<1>3. QED
  BY <1>2, InductiveInvariant, PTL DEF Spec, DropOnlyUnreferenced
=============================================================================
