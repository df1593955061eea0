--------------------------- MODULE OperatorProofs ---------------------------
(***************************************************************************)
(* Proofs of the safety properties of Operator, for every set of DbUsers,  *)
(* specs and passwords, both engines and any number of faults and edits.   *)
(***************************************************************************)
EXTENDS OperatorInv, TLAPS

(* The objects the controllers build are well typed.                       *)
LEMMA NewDatabaseType == NoDatabase \in Database /\ \A s \in Specs : NewDatabase(s) \in Database
BY ClusterAssumption DEF NoDatabase, NewDatabase, Database

(* The DbUser that kubectl creates, and the absent one, are DbUsers.       *)
LEMMA NewDbUserType == NoDbUser \in DbUser /\ NewDbUser \in DbUser
BY DEF NoDbUser, NewDbUser, DbUser

(* Merging the status of one copy of a Database into another.              *)
LEMMA WithStatusType ==
  ASSUME NEW o \in Database, NEW s \in Database
  PROVE  WithStatus(o, s) \in Database
BY DEF WithStatus, Database

(* Merging the status of one copy of a DbUser into another.                *)
LEMMA WithUserStatusType ==
  ASSUME NEW o \in DbUser, NEW s \in DbUser
  PROVE  WithUserStatus(o, s) \in DbUser
BY DEF WithUserStatus, DbUser

(* What the API server stores after a write is a Database.                 *)
LEMMA ReapType == ASSUME NEW o \in Database PROVE Reap(o) \in Database
BY NewDatabaseType DEF Reap

(* What the API server stores after a write is a DbUser.                   *)
LEMMA ReapUserType == ASSUME NEW o \in DbUser PROVE ReapUser(o) \in DbUser
BY NewDbUserType DEF ReapUser

(* What StoreDb, Update and StatusUpdate do to the types.                  *)
LEMMA StoreDbType ==
  ASSUME NEW c, NEW o \in Database, StoreDb(c, o), db \in Database,
         fresh \in [Controllers -> BOOLEAN]
  PROVE  db' \in Database /\ fresh' \in [Controllers -> BOOLEAN]
<1>1. o.live \in BOOLEAN
  BY DEF Database
<1>2. QED
  BY <1>1 DEF StoreDb

(* r.Update of the Database, whatever its outcome.                         *)
LEMMA UpdateType ==
  ASSUME ClusterTypeOK, NEW c, NEW o \in Database, NEW ok \in BOOLEAN,
         Update(c, o, ok)
  PROVE  db' \in Database /\ fresh' \in [Controllers -> BOOLEAN] /\ faults' \in Nat
<1> DEFINE stored == Reap(WithStatus(o, db))
<1>1. stored \in Database
  BY WithStatusType, ReapType DEF ClusterTypeOK
<1>2. CASE UNCHANGED <<db, fresh>>
  BY <1>2 DEF Update, Fault, ClusterTypeOK
<1>3. CASE \E k : StoreDb(k, stored)
  BY <1>1, <1>3, StoreDbType DEF Update, Fault, ClusterTypeOK
<1>4. QED
  BY <1>2, <1>3 DEF Update

(* r.Status().Update of the Database, whatever its outcome.                *)
LEMMA StatusUpdateType ==
  ASSUME ClusterTypeOK, NEW c, NEW o \in Database, NEW ok \in BOOLEAN,
         StatusUpdate(c, o, ok)
  PROVE  db' \in Database /\ fresh' \in [Controllers -> BOOLEAN] /\ faults' \in Nat
<1> DEFINE stored == WithStatus(db, o)
<1>1. stored \in Database
  BY WithStatusType DEF ClusterTypeOK
<1>2. CASE UNCHANGED <<db, fresh>>
  BY <1>2 DEF StatusUpdate, Fault, ClusterTypeOK
<1>3. CASE \E k : StoreDb(k, stored)
  BY <1>1, <1>3, StoreDbType DEF StatusUpdate, Fault, ClusterTypeOK
<1>4. QED
  BY <1>2, <1>3 DEF StatusUpdate

(* Storing a DbUser, whoever writes it.                                    *)
LEMMA StoreUserType ==
  ASSUME ClusterTypeOK, NEW c, NEW u \in Users, NEW o \in DbUser,
         StoreUser(c, u, o)
  PROVE  du' \in [Users -> DbUser] /\ uFresh' \in [Users -> BOOLEAN]
<1>1. o.live \in BOOLEAN
  BY DEF DbUser
<1>2. QED
  BY <1>1 DEF StoreUser, ClusterTypeOK

(* r.Update of a DbUser, whatever its outcome.                             *)
LEMMA UserUpdateType ==
  ASSUME ClusterTypeOK, NEW u \in Users, NEW o \in DbUser, NEW ok \in BOOLEAN,
         UserUpdate(u, o, ok)
  PROVE  du' \in [Users -> DbUser] /\ uFresh' \in [Users -> BOOLEAN] /\ faults' \in Nat
<1> DEFINE stored == ReapUser(WithUserStatus(o, du[u]))
<1>1. WithUserStatus(o, du[u]) \in DbUser
  BY WithUserStatusType DEF ClusterTypeOK
<1>2. stored \in DbUser
  BY <1>1, ReapUserType
<1>3. faults' \in Nat
  BY DEF UserUpdate, Fault, ClusterTypeOK
<1>4. CASE UNCHANGED <<du, uFresh>>
  BY <1>3, <1>4 DEF ClusterTypeOK
<1>5. CASE \E k : StoreUser(k, u, stored)
  BY <1>2, <1>3, <1>5, StoreUserType
<1>6. QED
  BY <1>4, <1>5 DEF UserUpdate

(* r.Status().Update of a DbUser, whatever its outcome.                    *)
LEMMA UserStatusUpdateType ==
  ASSUME ClusterTypeOK, NEW u \in Users, NEW o \in DbUser, NEW ok \in BOOLEAN,
         UserStatusUpdate(u, o, ok)
  PROVE  du' \in [Users -> DbUser] /\ uFresh' \in [Users -> BOOLEAN] /\ faults' \in Nat
<1> DEFINE stored == WithUserStatus(du[u], o)
<1>1. stored \in DbUser
  BY WithUserStatusType DEF ClusterTypeOK
<1>2. faults' \in Nat
  BY DEF UserStatusUpdate, Fault, ClusterTypeOK
<1>3. CASE UNCHANGED <<du, uFresh>>
  BY <1>2, <1>3 DEF ClusterTypeOK
<1>4. CASE \E k : StoreUser(k, u, stored)
  BY <1>1, <1>2, <1>4, StoreUserType
<1>5. QED
  BY <1>3, <1>4 DEF UserStatusUpdate

-----------------------------------------------------------------------------
(* Type correctness, one step per action.                                  *)

(* The initial states are well typed.                                      *)
LEMMA InitType == Init => TypeOK
<1> SUFFICES ASSUME Init PROVE TypeOK
  OBVIOUS
<1>1. PICK s \in Specs : db = NewDatabase(s)
  BY DEF Init, ClusterInit
<1>2. ClusterTypeOK
  BY <1>1, NewDatabaseType, NewDbUserType, ClusterAssumption
     DEF Init, ClusterInit, ClusterTypeOK
<1>3. DbTypeOK
  BY NewDatabaseType DEF Init, DbInit, DbTypeOK, DbSteps, NoCopy, SecretCopy
<1>4. UserTypeOK
  BY NewDatabaseType, NewDbUserType DEF Init, UserInit, UserTypeOK, UserSteps
<1>5. QED
  BY <1>2, <1>3, <1>4 DEF TypeOK

(* Edits of the resources keep the types.                                  *)
LEMMA PeopleStepType ==
  ASSUME TypeOK, PeopleStep, UNCHANGED <<dbVars, userVars>>
  PROVE  TypeOK'
<1> USE DEF TypeOK, Edit, sqlVars, dbVars, userVars
<1>1. DbTypeOK' /\ UserTypeOK'
  BY DEF DbTypeOK, UserTypeOK
<1>2. ASSUME NEW s \in Specs, CreateDatabaseResource(s) PROVE ClusterTypeOK'
  BY <1>2, NewDatabaseType, StoreDbType DEF CreateDatabaseResource, ClusterTypeOK
<1>3. ASSUME NEW s \in Specs, EditDatabaseSpec(s) PROVE ClusterTypeOK'
  <2>1. [db EXCEPT !.spec = s] \in Database
    BY DEF ClusterTypeOK, Database
  <2>2. QED
    BY <1>3, <2>1, StoreDbType DEF EditDatabaseSpec, ClusterTypeOK
<1>4. CASE ForceFullReconcile
  <2>1. [db EXCEPT !.force = TRUE] \in Database
    BY DEF ClusterTypeOK, Database
  <2>2. ClusterTypeOK'
    BY <1>4, <2>1, StoreDbType DEF ForceFullReconcile, ClusterTypeOK
  <2>3. QED
    BY <1>1, <2>2
<1>5. CASE DeleteDatabaseResource
  <2>1. [db EXCEPT !.deleting = TRUE] \in Database
    BY DEF ClusterTypeOK, Database
  <2>2. ClusterTypeOK'
    BY <1>5, <2>1, ReapType, StoreDbType DEF DeleteDatabaseResource, ClusterTypeOK
  <2>3. QED
    BY <1>1, <2>2
<1>6. ASSUME NEW u \in Users, CreateDbUserResource(u) PROVE ClusterTypeOK'
  <2>1. du' \in [Users -> DbUser] /\ uFresh' \in [Users -> BOOLEAN]
    BY <1>6, NewDbUserType, StoreUserType DEF CreateDbUserResource
  <2>2. QED
    BY <1>6, <2>1 DEF CreateDbUserResource, ClusterTypeOK
<1>7. ASSUME NEW u \in Users, TouchDbUserResource(u) PROVE ClusterTypeOK'
  BY <1>7 DEF TouchDbUserResource, ClusterTypeOK
<1>8. ASSUME NEW u \in Users, DeleteDbUserResource(u) PROVE ClusterTypeOK'
  <2>1. [du[u] EXCEPT !.deleting = TRUE] \in DbUser
    BY DEF ClusterTypeOK, DbUser
  <2>2. du' \in [Users -> DbUser] /\ uFresh' \in [Users -> BOOLEAN]
    BY <1>8, <2>1, ReapUserType, StoreUserType DEF DeleteDbUserResource
  <2>3. QED
    BY <1>8, <2>2 DEF DeleteDbUserResource, ClusterTypeOK
<1>9. ASSUME NEW p \in Passwords \cup {None}, ChangeSecret(p) PROVE ClusterTypeOK'
  BY <1>9 DEF ChangeSecret, ClusterTypeOK
<1>10. QED
  BY <1>1, <1>2, <1>3, <1>4, <1>5, <1>6, <1>7, <1>8, <1>9 DEF PeopleStep

(* The end of a reconcile, of either controller.                           *)
LEMMA DbDoneType == DbDone => DbTypeOK'
<1>1. NoCopy \in SecretCopy
  BY DEF NoCopy, SecretCopy
<1>2. QED
  BY <1>1, NewDatabaseType DEF DbDone, DbTypeOK, DbSteps

(* The end of a DbUser reconcile leaves well typed copies.                 *)
LEMMA UserDoneType == UserDone => UserTypeOK'
BY NewDatabaseType, NewDbUserType DEF UserDone, UserTypeOK, UserSteps

(* setEngine, whatever its outcome.                                        *)
LEMMA SetEngineType ==
  ASSUME TypeOK, NEW ok \in BOOLEAN, SetEngine(ok)
  PROVE  /\ db' \in Database /\ fresh' \in [Controllers -> BOOLEAN]
         /\ faults' \in Nat /\ dbcr' \in Database
<1> DEFINE o == [dbcr EXCEPT !.engine = TRUE]
<1>1. o \in Database
  BY DEF TypeOK, DbTypeOK, Database
<1>2. CASE UNCHANGED <<db, fresh, dbcr>>
  <2>1. faults' \in Nat
    <3>1. CASE UNCHANGED faults
      BY <3>1 DEF TypeOK, ClusterTypeOK
    <3>2. CASE Fault
      BY <3>2 DEF Fault, TypeOK, ClusterTypeOK
    <3>3. CASE StatusUpdate("database", o, ok)
      BY <1>1, <3>3, StatusUpdateType DEF TypeOK
    <3>4. QED
      BY <3>1, <3>2, <3>3 DEF SetEngine
  <2>2. QED
    BY <1>2, <2>1 DEF TypeOK, ClusterTypeOK, DbTypeOK
<1>3. CASE StatusUpdate("database", o, ok) /\ dbcr' = o
  BY <1>1, <1>3, StatusUpdateType DEF TypeOK
<1>4. QED
  BY <1>2, <1>3 DEF SetEngine

(* Every step of the Database reconciler keeps the types.                  *)
LEMMA DatabaseStepType ==
  ASSUME TypeOK, DbNext, UNCHANGED userVars
  PROVE  TypeOK'
<1> USE DEF TypeOK, DbTypeOK, DbGoto, userVars, resourceVars, sqlVars, budgetVars
<1>1. UserTypeOK'
  BY DEF UserTypeOK
<1>2. CASE ReconcileMissing
  BY <1>1, <1>2 DEF ReconcileMissing, dbVars, clusterVars, ClusterTypeOK
<1>3. CASE ReconcileCreateOrUpdate
  BY <1>1, <1>3 DEF ReconcileCreateOrUpdate, ClusterTypeOK, DbSteps
<1>4. CASE ReconcileDelete
  BY <1>1, <1>4 DEF ReconcileDelete, ClusterTypeOK, DbSteps
<1>5. CASE HealthCheck
  <2>1. PICK ok \in BOOLEAN :
          /\ (ok = CheckStatus(dbcr.spec, secret) /\ UNCHANGED faults) \/ (~ok /\ Fault)
          /\ dbcr' = [dbcr EXCEPT !.ready = @ /\ ok]
    BY <1>5 DEF HealthCheck
  <2>2. dbcr' \in Database
    BY <2>1 DEF Database
  <2>3. faults' \in Nat
    BY <2>1 DEF Fault, ClusterTypeOK
  <2>4. QED
    BY <1>1, <1>5, <2>2, <2>3 DEF HealthCheck, ClusterTypeOK, DbSteps
<1>6. CASE IsFullReconcileForced
  <2> DEFINE o == [dbcr EXCEPT !.force = FALSE]
  <2>1. o \in Database
    BY DEF Database
  <2>2. PICK ok \in BOOLEAN :
          /\ Update("database", o, ok)
          /\ dbcr' = IF ok THEN WithStatus(o, db) ELSE o
          /\ DbGoto(ok, "getSecret")
    BY <1>6 DEF IsFullReconcileForced
  <2>3. db' \in Database /\ fresh' \in [Controllers -> BOOLEAN] /\ faults' \in Nat
    BY <2>1, <2>2, UpdateType
  <2>4. dbcr' \in Database
    BY <2>1, <2>2, WithStatusType DEF ClusterTypeOK
  <2>5. dpc' \in DbSteps
    BY <2>2 DEF DbSteps
  <2>6. QED
    BY <1>1, <1>6, <2>3, <2>4, <2>5 DEF IsFullReconcileForced, ClusterTypeOK
<1>7. CASE IsFullReconcile
  BY <1>1, <1>7 DEF IsFullReconcile, Fault, ClusterTypeOK, DbSteps
<1>8. CASE SecretFound
  <2>0. [pw |-> secret, made |-> FALSE] \in SecretCopy
    BY DEF ClusterTypeOK, SecretCopy
  <2>1. dbSecret' \in SecretCopy
    BY <1>8, <2>0 DEF SecretFound
  <2>2. dpc' \in DbSteps /\ faults' \in Nat
    BY <1>8 DEF SecretFound, Fault, ClusterTypeOK, DbSteps
  <2>3. QED
    BY <1>1, <1>8, <2>1, <2>2 DEF SecretFound, ClusterTypeOK
<1>9. CASE SecretGenerated
  <2>1. PICK ok \in BOOLEAN, p \in Passwords :
          /\ \/ secret = None /\ SetEngine(ok)
             \/ Fault /\ UNCHANGED <<db, fresh, dbcr>>
          /\ dbSecret' = IF ok THEN [pw |-> p, made |-> TRUE] ELSE dbSecret
          /\ DbGoto(ok, "putSecret")
    BY <1>9 DEF SecretGenerated
  <2>2. /\ db' \in Database /\ fresh' \in [Controllers -> BOOLEAN]
        /\ faults' \in Nat /\ dbcr' \in Database
    <3>1. CASE SetEngine(ok)
      BY <3>1, SetEngineType
    <3>2. CASE Fault /\ UNCHANGED <<db, fresh, dbcr>>
      BY <3>2 DEF Fault, ClusterTypeOK
    <3>3. QED
      BY <2>1, <3>1, <3>2
  <2>3. dbSecret' \in SecretCopy /\ dpc' \in DbSteps
    BY <2>1 DEF SecretCopy, DbSteps
  <2>4. QED
    BY <1>1, <1>9, <2>2, <2>3 DEF SecretGenerated, ClusterTypeOK
<1>10. CASE PutSecret
  <2>1. PICK ok \in BOOLEAN :
          DbGoto(ok, IF must THEN "setEngine" ELSE "objects")
    BY <1>10 DEF PutSecret
  <2>2. dpc' \in DbSteps
    BY <2>1 DEF DbSteps
  <2>3. faults' \in Nat
    BY <1>10 DEF PutSecret, Fault, ClusterTypeOK
  <2>4. secret' \in Passwords \cup {None}
    BY <1>10 DEF PutSecret, SecretCopy, ClusterTypeOK
  <2>5. QED
    BY <1>1, <1>10, <2>2, <2>3, <2>4 DEF PutSecret, ClusterTypeOK
<1>11. CASE RecordEngine
  <2>1. PICK ok \in BOOLEAN : SetEngine(ok) /\ DbGoto(ok, "createDatabase")
    BY <1>11 DEF RecordEngine
  <2>2. /\ db' \in Database /\ fresh' \in [Controllers -> BOOLEAN]
        /\ faults' \in Nat /\ dbcr' \in Database
    BY <2>1, SetEngineType
  <2>3. dpc' \in DbSteps
    BY <2>1 DEF DbSteps
  <2>4. QED
    BY <1>1, <1>11, <2>2, <2>3 DEF RecordEngine, ClusterTypeOK
<1>12. CASE CreateSqlDatabase
  <2>1. PICK ok \in BOOLEAN : CreateDatabase(dbcr.spec, ok) /\ DbGoto(ok, "createUser")
    BY <1>12 DEF CreateSqlDatabase
  <2>2. dpc' \in DbSteps
    BY <2>1 DEF DbSteps
  <2>3. faults' \in Nat /\ UNCHANGED <<sqlPw, roles>>
    BY <2>1 DEF CreateDatabase, PostgresCreateDatabase, MysqlCreateDatabase,
         Fault, ClusterTypeOK
  <2>4. dbcr.spec \in Specs \cup {None}
    BY DEF Database
  <2>5. applied' \in SUBSET (Specs \cup {None}) /\ sqlDb' \in BOOLEAN
    BY <2>1, <2>4 DEF CreateDatabase, PostgresCreateDatabase,
         MysqlCreateDatabase, ClusterTypeOK
  <2>6. QED
    BY <1>1, <1>12, <2>2, <2>3, <2>5 DEF CreateSqlDatabase, ClusterTypeOK
<1>13. CASE CreateSqlUser
  <2>1. PICK ok \in BOOLEAN :
          CreateOrUpdateUser(dbSecret.pw, ok) /\ DbGoto(ok, "saveGrants")
    BY <1>13 DEF CreateSqlUser
  <2>2. dpc' \in DbSteps
    BY <2>1 DEF DbSteps
  <2>3. faults' \in Nat /\ sqlPw' \in Passwords \cup {None}
    BY <2>1 DEF CreateOrUpdateUser, Fault, ClusterTypeOK, SecretCopy
  <2>4. UNCHANGED <<sqlDb, applied, roles>>
    BY <2>1 DEF CreateOrUpdateUser
  <2>5. QED
    BY <1>1, <1>13, <2>2, <2>3, <2>4 DEF CreateSqlUser, ClusterTypeOK
<1>14. CASE SaveGrants
  <2>1. PICK ok \in BOOLEAN :
          StatusUpdate("database", dbcr, ok) /\ DbGoto(ok, "addFinalizer")
    BY <1>14 DEF SaveGrants
  <2>2. db' \in Database /\ fresh' \in [Controllers -> BOOLEAN] /\ faults' \in Nat
    BY <2>1, StatusUpdateType
  <2>3. dpc' \in DbSteps
    BY <2>1 DEF DbSteps
  <2>4. QED
    BY <1>1, <1>14, <2>2, <2>3 DEF SaveGrants, ClusterTypeOK
<1>15. CASE AddFinalizer
  <2> DEFINE o == [dbcr EXCEPT !.own = TRUE, !.sumSpec = dbcr.spec,
                               !.sumPw = dbSecret.pw]
  <2>1. o \in Database
    BY DEF Database, SecretCopy
  <2>2. PICK ok \in BOOLEAN :
          /\ Update("database", o, ok)
          /\ dbcr' = IF ok THEN WithStatus(o, db) ELSE o
          /\ DbGoto(ok, "updateAgain")
    BY <1>15 DEF AddFinalizer
  <2>3. db' \in Database /\ fresh' \in [Controllers -> BOOLEAN] /\ faults' \in Nat
    BY <2>1, <2>2, UpdateType
  <2>4. dbcr' \in Database
    BY <2>1, <2>2, WithStatusType DEF ClusterTypeOK
  <2>5. dpc' \in DbSteps
    BY <2>2 DEF DbSteps
  <2>6. QED
    BY <1>1, <1>15, <2>3, <2>4, <2>5 DEF AddFinalizer, ClusterTypeOK
<1>16. CASE UpdateAgain
  <2>1. PICK ok \in BOOLEAN :
          /\ Update("database", dbcr, ok)
          /\ dbcr' = IF ok THEN [WithStatus(dbcr, db) EXCEPT !.name = TRUE] ELSE dbcr
          /\ DbGoto(ok, "objects")
    BY <1>16 DEF UpdateAgain
  <2>2. db' \in Database /\ fresh' \in [Controllers -> BOOLEAN] /\ faults' \in Nat
    BY <2>1, UpdateType
  <2>3. dbcr' \in Database
    BY <2>1 DEF ClusterTypeOK, WithStatus, Database
  <2>4. dpc' \in DbSteps
    BY <2>1 DEF DbSteps
  <2>5. QED
    BY <1>1, <1>16, <2>2, <2>3, <2>4 DEF UpdateAgain, ClusterTypeOK
<1>17. CASE HandleObjects
  <2>1. PICK ok \in BOOLEAN :
          /\ (ok = (secret # None) /\ UNCHANGED faults) \/ (~ok /\ Fault)
          /\ DbGoto(ok, "setReady")
    BY <1>17 DEF HandleObjects
  <2>2. dpc' \in DbSteps
    BY <2>1 DEF DbSteps
  <2>3. faults' \in Nat
    BY <2>1 DEF Fault, ClusterTypeOK
  <2>4. QED
    BY <1>1, <1>17, <2>2, <2>3 DEF HandleObjects, ClusterTypeOK
<1>18. CASE SetReady
  <2> DEFINE o == [dbcr EXCEPT !.ready = TRUE]
  <2>1. o \in Database
    BY DEF Database
  <2>2. PICK ok \in BOOLEAN :
          /\ StatusUpdate("database", o, ok)
          /\ \/ ok /\ DbDone
             \/ ~ok /\ dpc' = "error" /\ dbcr' = o /\ UNCHANGED <<dbSecret, must>>
    BY <1>18 DEF SetReady
  <2>3. db' \in Database /\ fresh' \in [Controllers -> BOOLEAN] /\ faults' \in Nat
    BY <2>1, <2>2, StatusUpdateType
  <2>4. DbTypeOK'
    BY <2>1, <2>2, DbDoneType DEF DbSteps
  <2>5. QED
    BY <1>1, <1>18, <2>3, <2>4 DEF SetReady, ClusterTypeOK
<1>19. CASE DropSqlDatabase
  <2>1. dpc' \in DbSteps
    BY <1>19 DEF DropSqlDatabase, DbSteps
  <2>2. faults' \in Nat /\ UNCHANGED <<sqlPw, roles>>
    BY <1>19 DEF DropSqlDatabase, DeleteDatabase, PostgresDeleteDatabase,
         MysqlDeleteDatabase, Fault, ClusterTypeOK
  <2>3. sqlDb' \in BOOLEAN /\ applied' \in SUBSET (Specs \cup {None})
    BY <1>19 DEF DropSqlDatabase, DeleteDatabase, PostgresDeleteDatabase,
         MysqlDeleteDatabase, ClusterTypeOK
  <2>4. QED
    BY <1>1, <1>19, <2>1, <2>2, <2>3 DEF DropSqlDatabase, ClusterTypeOK
<1>20. CASE DropSqlUser
  <2>1. dpc' \in DbSteps
    BY <1>20 DEF DropSqlUser, DbSteps
  <2>2. faults' \in Nat /\ sqlPw' \in Passwords \cup {None}
    BY <1>20 DEF DropSqlUser, DeleteMainUser, PostgresDeleteUser,
         MysqlDeleteUser, Fault, ClusterTypeOK
  <2>3. UNCHANGED <<sqlDb, applied, roles>>
    BY <1>20 DEF DropSqlUser, DeleteMainUser, PostgresDeleteUser,
         MysqlDeleteUser
  <2>4. QED
    BY <1>1, <1>20, <2>1, <2>2, <2>3 DEF DropSqlUser, ClusterTypeOK
<1>21. CASE RemoveFinalizer
  <2> DEFINE o == [dbcr EXCEPT !.own = FALSE]
  <2>1. o \in Database
    BY DEF Database
  <2>2. PICK ok \in BOOLEAN :
          /\ Update("database", o, ok)
          /\ dbcr' = IF ok THEN WithStatus(o, db) ELSE o
          /\ DbGoto(ok, "cleanup")
    BY <1>21 DEF RemoveFinalizer
  <2>3. db' \in Database /\ fresh' \in [Controllers -> BOOLEAN] /\ faults' \in Nat
    BY <2>1, <2>2, UpdateType
  <2>4. dbcr' \in Database
    BY <2>1, <2>2, WithStatusType DEF ClusterTypeOK
  <2>5. dpc' \in DbSteps
    BY <2>2 DEF DbSteps
  <2>6. QED
    BY <1>1, <1>21, <2>3, <2>4, <2>5 DEF RemoveFinalizer, ClusterTypeOK
<1>22. CASE Cleanup
  <2>1. DbTypeOK'
    BY <1>22, DbDoneType DEF Cleanup, DbSteps
  <2>2. faults' \in Nat
    BY <1>22 DEF Cleanup, Fault, ClusterTypeOK
  <2>3. QED
    BY <1>1, <1>22, <2>1, <2>2 DEF Cleanup, ClusterTypeOK
<1>23. CASE ManageError
  <2> DEFINE o == [dbcr EXCEPT !.ready = FALSE]
  <2>1. o \in Database
    BY DEF Database
  <2>2. PICK ok \in BOOLEAN : StatusUpdate("database", o, ok)
    BY <1>23 DEF ManageError
  <2>3. db' \in Database /\ fresh' \in [Controllers -> BOOLEAN] /\ faults' \in Nat
    BY <2>1, <2>2, StatusUpdateType
  <2>4. DbTypeOK'
    BY <1>23, DbDoneType DEF ManageError
  <2>5. QED
    BY <1>1, <1>23, <2>3, <2>4 DEF ManageError, ClusterTypeOK
<1>24. QED
  BY <1>2, <1>3, <1>4, <1>5, <1>6, <1>7, <1>8, <1>9, <1>10, <1>11, <1>12, <1>13,
     <1>14, <1>15, <1>16, <1>17, <1>18, <1>19, <1>20, <1>21, <1>22, <1>23
     DEF DbNext

(* Every step of the DbUser reconciler keeps the types.                    *)
LEMMA DbUserStepType ==
  ASSUME TypeOK, UserNext, UNCHANGED dbVars
  PROVE  TypeOK'
<1> USE DEF TypeOK, UserGoto, dbVars, resourceVars, sqlVars, budgetVars
<1>1. DbTypeOK'
  BY DEF DbTypeOK
<1>2. CASE ReconcileMissingUser
  BY <1>1, <1>2 DEF ReconcileMissingUser, userVars, clusterVars, UserTypeOK,
                    ClusterTypeOK
<1>3. ASSUME NEW u \in Users, ReconcileUser(u) PROVE TypeOK'
  <2>1. UserTypeOK'
    BY <1>3 DEF ReconcileUser, UserTypeOK, UserSteps, ClusterTypeOK
  <2>2. ClusterTypeOK'
    BY <1>3 DEF ReconcileUser, ClusterTypeOK
  <2>3. QED
    BY <1>1, <2>1, <2>2
<1>4. CASE DatabaseNotReady
  BY <1>1, <1>4 DEF DatabaseNotReady, UserTypeOK, UserSteps, clusterVars,
                    ClusterTypeOK
<1>5. CASE ManageSqlUser
  <2>1. x \in Users
    BY <1>5 DEF ManageSqlUser, UserTypeOK
  <2>2. upc' \in UserSteps
    BY <1>5 DEF ManageSqlUser, UserSteps
  <2>3. faults' \in Nat
    BY <1>5 DEF ManageSqlUser, SetPermissions, CreateUser, UpdateUser, Fault,
                ClusterTypeOK
  <2>4. roles' \in SUBSET Users
    BY <1>5, <2>1 DEF ManageSqlUser, SetPermissions, CreateUser, UpdateUser,
                      ClusterTypeOK
  <2>5. UNCHANGED <<sqlDb, applied, sqlPw>>
    BY <1>5 DEF ManageSqlUser, SetPermissions, CreateUser, UpdateUser
  <2>6. QED
    BY <1>1, <1>5, <2>1, <2>2, <2>3, <2>4, <2>5
       DEF ManageSqlUser, UserTypeOK, ClusterTypeOK
<1>6. CASE AddUserFinalizer
  <2> DEFINE o == [ucr EXCEPT !.fin = TRUE]
  <2>1. x \in Users /\ o \in DbUser
    BY <1>6 DEF AddUserFinalizer, UserTypeOK, DbUser
  <2>2. PICK ok \in BOOLEAN :
          /\ UserUpdate(x, o, ok)
          /\ ucr' = IF ok THEN WithUserStatus(o, du[x]) ELSE o
          /\ UserGoto(ok, "addDbFinalizer")
    BY <1>6 DEF AddUserFinalizer
  <2>3. du' \in [Users -> DbUser] /\ uFresh' \in [Users -> BOOLEAN] /\ faults' \in Nat
    BY <2>1, <2>2, UserUpdateType
  <2>4. ucr' \in DbUser
    BY <2>1, <2>2, WithUserStatusType DEF ClusterTypeOK
  <2>5. upc' \in UserSteps
    BY <2>2 DEF UserSteps
  <2>6. QED
    BY <1>1, <1>6, <2>1, <2>3, <2>4, <2>5
       DEF AddUserFinalizer, UserTypeOK, ClusterTypeOK
<1>7. CASE AddDbFinalizer
  <2> DEFINE o == [udb EXCEPT !.users = @ \cup {x}]
  <2>1. x \in Users
    BY <1>7 DEF AddDbFinalizer, UserTypeOK
  <2>2. o \in Database
    BY <2>1 DEF UserTypeOK, Database
  <2>3. PICK ok \in BOOLEAN :
          /\ Update("dbuser", o, ok)
          /\ ucr' = [ucr EXCEPT !.created = @ \/ ok]
          /\ UserGoto(ok, "setReady")
    BY <1>7 DEF AddDbFinalizer
  <2>4. db' \in Database /\ fresh' \in [Controllers -> BOOLEAN] /\ faults' \in Nat
    BY <2>2, <2>3, UpdateType
  <2>5. ucr' \in DbUser
    BY <2>3 DEF UserTypeOK, DbUser
  <2>6. upc' \in UserSteps
    BY <2>3 DEF UserSteps
  <2>7. QED
    BY <1>1, <1>7, <2>1, <2>4, <2>5, <2>6
       DEF AddDbFinalizer, UserTypeOK, ClusterTypeOK
<1>8. CASE SetUserReady
  <2> DEFINE o == [ucr EXCEPT !.ready = TRUE]
  <2>1. x \in Users /\ o \in DbUser
    BY <1>8 DEF SetUserReady, UserTypeOK, DbUser
  <2>2. CASE (\E ok \in BOOLEAN : UserStatusUpdate(x, o, ok)) /\ UserDone
    <3>1. du' \in [Users -> DbUser] /\ uFresh' \in [Users -> BOOLEAN] /\ faults' \in Nat
      BY <2>1, <2>2, UserStatusUpdateType
    <3>2. QED
      BY <1>1, <1>8, <2>2, <3>1, UserDoneType DEF SetUserReady, ClusterTypeOK
  <2>3. CASE Fault /\ upc' = "error" /\ UNCHANGED <<x, ucr, udb, du, uFresh>>
    BY <1>1, <1>8, <2>1, <2>3
       DEF SetUserReady, Fault, UserTypeOK, UserSteps, ClusterTypeOK
  <2>4. QED
    BY <1>8, <2>2, <2>3 DEF SetUserReady
<1>9. CASE DropRole
  <2>1. x \in Users
    BY <1>9 DEF DropRole, UserTypeOK
  <2>2. upc' \in UserSteps
    BY <1>9 DEF DropRole, UserSteps
  <2>3. faults' \in Nat
    BY <1>9 DEF DropRole, DeleteUser, RevokePermissions, Fault, ClusterTypeOK
  <2>4. roles' \in SUBSET Users /\ UNCHANGED <<sqlDb, applied, sqlPw>>
    BY <1>9 DEF DropRole, DeleteUser, RevokePermissions, ClusterTypeOK
  <2>5. QED
    BY <1>1, <1>9, <2>1, <2>2, <2>3, <2>4 DEF DropRole, UserTypeOK, ClusterTypeOK
<1>10. CASE RemoveDbFinalizer
  <2> DEFINE o == [udb EXCEPT !.users = @ \ {x}]
  <2>1. x \in Users /\ o \in Database
    BY <1>10 DEF RemoveDbFinalizer, UserTypeOK, Database
  <2>2. PICK ok \in BOOLEAN :
          Update("dbuser", o, ok) /\ UserGoto(ok, "removeUserFinalizer")
    BY <1>10 DEF RemoveDbFinalizer
  <2>3. db' \in Database /\ fresh' \in [Controllers -> BOOLEAN] /\ faults' \in Nat
    BY <2>1, <2>2, UpdateType
  <2>4. upc' \in UserSteps
    BY <2>2 DEF UserSteps
  <2>5. QED
    BY <1>1, <1>10, <2>1, <2>3, <2>4 DEF RemoveDbFinalizer, UserTypeOK, ClusterTypeOK
<1>11. CASE RemoveUserFinalizer
  <2> DEFINE o == [ucr EXCEPT !.fin = FALSE]
  <2>1. x \in Users /\ o \in DbUser
    BY <1>11 DEF RemoveUserFinalizer, UserTypeOK, DbUser
  <2>2. PICK ok \in BOOLEAN :
          /\ UserUpdate(x, o, ok)
          /\ IF ok THEN UserDone ELSE upc' = "error" /\ UNCHANGED <<x, ucr, udb>>
    BY <1>11 DEF RemoveUserFinalizer
  <2>3. du' \in [Users -> DbUser] /\ uFresh' \in [Users -> BOOLEAN] /\ faults' \in Nat
    BY <2>1, <2>2, UserUpdateType
  <2>4. UserTypeOK'
    BY <2>1, <2>2, UserDoneType DEF UserTypeOK, UserSteps
  <2>5. QED
    BY <1>1, <1>11, <2>3, <2>4 DEF RemoveUserFinalizer, ClusterTypeOK
<1>12. CASE ManageUserError
  <2> DEFINE o == [ucr EXCEPT !.ready = FALSE]
  <2>1. x \in Users /\ o \in DbUser
    BY <1>12 DEF ManageUserError, UserTypeOK, DbUser
  <2>2. PICK ok \in BOOLEAN : UserStatusUpdate(x, o, ok)
    BY <1>12 DEF ManageUserError
  <2>3. du' \in [Users -> DbUser] /\ uFresh' \in [Users -> BOOLEAN] /\ faults' \in Nat
    BY <2>1, <2>2, UserStatusUpdateType
  <2>4. QED
    BY <1>1, <1>12, <2>3, UserDoneType DEF ManageUserError, ClusterTypeOK
<1>13. QED
  BY <1>2, <1>3, <1>4, <1>5, <1>6, <1>7, <1>8, <1>9, <1>10, <1>11, <1>12
     DEF UserNext, UserStep

(* A restart of the operator keeps the types.                              *)
LEMMA RestartType == ASSUME TypeOK, Restart PROVE TypeOK'
<1>1. ClusterTypeOK'
  BY DEF Restart, Fault, TypeOK, ClusterTypeOK, resourceVars, sqlVars
<1>2. QED
  BY <1>1, DbDoneType, UserDoneType DEF Restart, TypeOK

(* Every step keeps the types.                                             *)
LEMMA NextType == TypeOK /\ [Next]_vars => TypeOK'
<1> SUFFICES ASSUME TypeOK, [Next]_vars PROVE TypeOK'
  OBVIOUS
<1>1. CASE DatabaseStep
  BY <1>1, DatabaseStepType DEF DatabaseStep
<1>2. CASE DbUserStep
  BY <1>2, DbUserStepType DEF DbUserStep
<1>3. CASE PeopleStep /\ UNCHANGED <<dbVars, userVars>>
  BY <1>3, PeopleStepType
<1>4. CASE Restart
  BY <1>4, RestartType
<1>5. CASE UNCHANGED vars
  BY <1>5 DEF vars, clusterVars, resourceVars, sqlVars, budgetVars, dbVars,
              userVars, TypeOK, ClusterTypeOK, DbTypeOK, UserTypeOK
<1>6. QED
  BY <1>1, <1>2, <1>3, <1>4, <1>5 DEF Next

(* Every reachable state is well typed.                                    *)
THEOREM TypeCorrect == Spec => []TypeOK
BY InitType, NextType, PTL DEF Spec
=============================================================================
