------------------------ MODULE DatabaseController -------------------------
(***************************************************************************)
(* The Database reconciler (internal/controller/database_controller.go),   *)
(* one action per call that another process can observe.  There is one     *)
(* worker, so one reconcile runs at a time; dpc is where it is.  Every     *)
(* error ends in manageError, which requeues the request; errors, watch    *)
(* events and resyncs start an idle worker again.                          *)
(***************************************************************************)
EXTENDS SqlServer

VARIABLES
  dpc,       \* the next step of the running reconcile
  dbcr,      \* the working copy of the Database
  dbSecret,  \* the Secret in memory: password, and whether it was generated
  must       \* mustReconcile

dbVars == <<dpc, dbcr, dbSecret, must>>

SecretCopy == [pw: Passwords \cup {None}, made: BOOLEAN]

NoCopy == [pw |-> None, made |-> FALSE]

DbSteps ==
  {"idle", "healthCheck", "isFullReconcile", "getSecret", "putSecret",
   "setEngine", "createDatabase", "createUser", "saveGrants", "addFinalizer",
   "updateAgain", "objects", "setReady", "dropDatabase", "dropUser",
   "removeFinalizer", "cleanup", "error"}

(* Reconcile is over: the working copies are garbage.                      *)
DbDone ==
  /\ dpc' = "idle"
  /\ dbcr' = NoDatabase
  /\ dbSecret' = NoCopy
  /\ must' = FALSE

DbGoto(ok, step) == dpc' = IF ok THEN step ELSE "error"

-----------------------------------------------------------------------------
(* Reconcile reads the Database and takes one of two paths.                *)

ReconcileMissing ==
  /\ dpc = "idle"
  /\ ~db.live
  /\ UNCHANGED <<dbVars, clusterVars>>

ReconcileCreateOrUpdate ==
  /\ dpc = "idle"
  /\ db.live
  /\ ~db.deleting
  /\ dbcr' = db
  /\ fresh' = [fresh EXCEPT !["database"] = TRUE]
  /\ dpc' = IF db.engine THEN "healthCheck" ELSE "isFullReconcile"
  /\ UNCHANGED <<dbSecret, must, db, du, uFresh, secret, sqlVars, budgetVars>>

(* Mutant: the finalizers of the DbUsers are not looked at.                *)
ReconcileDeleteReferenced ==
  /\ dpc = "idle"
  /\ db.live
  /\ db.deleting
  /\ dbcr' = db
  /\ fresh' = [fresh EXCEPT !["database"] = TRUE]
  /\ dpc' = IF db.own THEN "dropDatabase" ELSE "cleanup"
  /\ UNCHANGED <<dbSecret, must, db, du, uFresh, secret, sqlVars, budgetVars>>

(* The finalizers "dbuser.<u>" block the deletion.                         *)
ReconcileDelete ==
  /\ dpc = "idle"
  /\ db.live
  /\ db.deleting
  /\ dbcr' = db
  /\ fresh' = [fresh EXCEPT !["database"] = TRUE]
  /\ dpc' = CASE db.users # {} -> "error"
              [] db.users = {} /\ db.own -> "dropDatabase"
              [] OTHER -> "cleanup"
  /\ UNCHANGED <<dbSecret, must, db, du, uFresh, secret, sqlVars, budgetVars>>

-----------------------------------------------------------------------------
(* The create or update path *)

(* A failed health check only clears Status.Status in memory.              *)
HealthCheck ==
  /\ dpc = "healthCheck"
  /\ \E ok \in BOOLEAN :
       /\ \/ ok = CheckStatus(dbcr.spec, secret) /\ UNCHANGED faults
          \/ ~ok /\ Fault
       /\ dbcr' = [dbcr EXCEPT !.ready = @ /\ ok]
  /\ dpc' = "isFullReconcile"
  /\ UNCHANGED <<dbSecret, must, resourceVars, sqlVars, edits>>

IsDBChanged(p) == dbcr.sumSpec # dbcr.spec \/ dbcr.sumPw # p

(* The force annotation is taken off before anything else happens, and     *)
(* the answer of that Update replaces the status in memory.                *)
IsFullReconcileForced ==
  /\ dpc = "isFullReconcile"
  /\ dbcr.force
  /\ \E ok \in BOOLEAN :
       LET o == [dbcr EXCEPT !.force = FALSE] IN
       /\ Update("database", o, ok)
       /\ dbcr' = IF ok THEN WithStatus(o, db) ELSE o
       /\ DbGoto(ok, "getSecret")
  /\ must' = TRUE
  /\ UNCHANGED <<dbSecret, du, uFresh, secret, sqlVars, edits>>

IsFullReconcile ==
  /\ dpc = "isFullReconcile"
  /\ ~dbcr.force
  /\ must' = \/ ~CheckChanges
             \/ ~dbcr.ready
             \/ secret = None
             \/ IsDBChanged(secret)
  /\ \/ dpc' = "getSecret" /\ UNCHANGED faults
     \/ CheckChanges /\ dbcr.ready /\ dpc' = "error" /\ Fault
  /\ UNCHANGED <<dbcr, dbSecret, resourceVars, sqlVars, edits>>

SecretFound ==
  /\ dpc = "getSecret"
  /\ \/ /\ secret # None
        /\ dbSecret' = [pw |-> secret, made |-> FALSE]
        /\ dpc' = "putSecret"
        /\ UNCHANGED faults
     \/ Fault /\ dpc' = "error" /\ UNCHANGED dbSecret
  /\ UNCHANGED <<dbcr, must, resourceVars, sqlVars, edits>>

(* setEngine records the engine of the instance, once; it fails while the  *)
(* DbInstance cannot be read or is not ready.                              *)
SetEngine(ok) ==
  \/ dbcr.engine /\ ok /\ UNCHANGED <<db, fresh, dbcr, faults>>
  \/ ~dbcr.engine /\ ~ok /\ Fault /\ UNCHANGED <<db, fresh, dbcr>>
  \/ LET o == [dbcr EXCEPT !.engine = TRUE] IN
     /\ ~dbcr.engine
     /\ StatusUpdate("database", o, ok)
     /\ dbcr' = o

(* Not found: the engine is recorded and a password is generated.  The     *)
(* cache the client reads may lag behind the server, so an existing Secret *)
(* may not be seen; that is counted as a fault, and modelled once the      *)
(* engine is recorded.                                                     *)
SecretGenerated ==
  /\ dpc = "getSecret"
  /\ \E ok \in BOOLEAN, p \in Passwords :
       /\ \/ secret = None /\ SetEngine(ok)
          \/ /\ secret # None
             /\ dbcr.engine /\ ok
             /\ Fault
             /\ UNCHANGED <<db, fresh, dbcr>>
       /\ dbSecret' = IF ok THEN [pw |-> p, made |-> TRUE] ELSE dbSecret
       /\ DbGoto(ok, "putSecret")
  /\ UNCHANGED <<must, du, uFresh, secret, sqlVars, edits>>

(* ModifyObject.  A generated Secret is created; if one exists, the error  *)
(* is dropped and the existing one is labelled, while the reconcile goes   *)
(* on with the password in memory.  A Secret that was read is updated,     *)
(* which fails if it has changed since.                                    *)
PutSecret ==
  /\ dpc = "putSecret"
  /\ \E ok \in BOOLEAN :
       /\ \/ /\ dbSecret.made
             /\ secret' = IF secret = None THEN dbSecret.pw ELSE secret
             /\ IF ok THEN UNCHANGED faults ELSE Fault
          \/ /\ ~dbSecret.made
             /\ ok = (secret = dbSecret.pw)
             /\ UNCHANGED <<secret, faults>>
          \/ ~ok /\ Fault /\ UNCHANGED secret
       /\ DbGoto(ok, IF must THEN "setEngine" ELSE "objects")
  /\ UNCHANGED <<dbcr, dbSecret, must, db, du, fresh, uFresh, sqlVars, edits>>

RecordEngine ==
  /\ dpc = "setEngine"
  /\ \E ok \in BOOLEAN : SetEngine(ok) /\ DbGoto(ok, "createDatabase")
  /\ UNCHANGED <<dbSecret, must, du, uFresh, secret, sqlVars, edits>>

CreateSqlDatabase ==
  /\ dpc = "createDatabase"
  /\ \E ok \in BOOLEAN : CreateDatabase(dbcr.spec, ok) /\ DbGoto(ok, "createUser")
  /\ UNCHANGED <<dbcr, dbSecret, must, resourceVars, edits>>

CreateSqlUser ==
  /\ dpc = "createUser"
  /\ \E ok \in BOOLEAN :
       CreateOrUpdateUser(dbSecret.pw, ok) /\ DbGoto(ok, "saveGrants")
  /\ UNCHANGED <<dbcr, dbSecret, must, resourceVars, edits>>

(* The extra grants are applied and recorded; here only their outcome.     *)
SaveGrants ==
  /\ dpc = "saveGrants"
  /\ \E ok \in BOOLEAN :
       StatusUpdate("database", dbcr, ok) /\ DbGoto(ok, "addFinalizer")
  /\ UNCHANGED <<dbcr, dbSecret, must, du, uFresh, secret, sqlVars, edits>>

(* Mutant: only the checksums are stored.                                  *)
AddFinalizerForgotten ==
  /\ dpc = "addFinalizer"
  /\ \E ok \in BOOLEAN :
       LET o == [dbcr EXCEPT !.sumSpec = dbcr.spec, !.sumPw = dbSecret.pw] IN
       /\ Update("database", o, ok)
       /\ dbcr' = IF ok THEN WithStatus(o, db) ELSE o
       /\ DbGoto(ok, "updateAgain")
  /\ UNCHANGED <<dbSecret, must, du, uFresh, secret, sqlVars, edits>>

(* The finalizer and the checksums are stored by one Update ...            *)
AddFinalizer ==
  /\ dpc = "addFinalizer"
  /\ \E ok \in BOOLEAN :
       LET o == [dbcr EXCEPT !.own = TRUE, !.sumSpec = dbcr.spec,
                             !.sumPw = dbSecret.pw] IN
       /\ Update("database", o, ok)
       /\ dbcr' = IF ok THEN WithStatus(o, db) ELSE o
       /\ DbGoto(ok, "updateAgain")
  /\ UNCHANGED <<dbSecret, must, du, uFresh, secret, sqlVars, edits>>

(* ... and a second Update writes the same again.  Only then do the names  *)
(* of database and user reach the status, in memory.                       *)
UpdateAgain ==
  /\ dpc = "updateAgain"
  /\ \E ok \in BOOLEAN :
       /\ Update("database", dbcr, ok)
       /\ dbcr' = IF ok THEN [WithStatus(dbcr, db) EXCEPT !.name = TRUE]
                        ELSE dbcr
       /\ DbGoto(ok, "objects")
  /\ UNCHANGED <<dbSecret, must, du, uFresh, secret, sqlVars, edits>>

(* Instance access Secret, proxy, templates, ConfigMap and backup job.     *)
(* The templates read the Secret again.                                    *)
HandleObjects ==
  /\ dpc = "objects"
  /\ \E ok \in BOOLEAN :
       /\ \/ ok = (secret # None) /\ UNCHANGED faults
          \/ ~ok /\ Fault
       /\ DbGoto(ok, "setReady")
  /\ UNCHANGED <<dbcr, dbSecret, must, resourceVars, sqlVars, edits>>

SetReady ==
  /\ dpc = "setReady"
  /\ \E ok \in BOOLEAN :
       LET o == [dbcr EXCEPT !.ready = TRUE] IN
       /\ StatusUpdate("database", o, ok)
       /\ \/ ok /\ DbDone
          \/ ~ok /\ dpc' = "error" /\ dbcr' = o /\ UNCHANGED <<dbSecret, must>>
  /\ UNCHANGED <<du, uFresh, secret, sqlVars, edits>>

-----------------------------------------------------------------------------
(* The delete path *)

(* Mutant: the error of the drop is dropped.                               *)
DropSqlDatabaseUnchecked ==
  /\ dpc = "dropDatabase"
  /\ \/ /\ dbcr.spec \in Protected
        /\ dpc' = "removeFinalizer"
        /\ UNCHANGED <<sqlVars, faults>>
     \/ /\ dbcr.spec \notin Protected
        /\ \E ok \in BOOLEAN : DeleteDatabase(dbcr.name, ok)
        /\ dpc' = "dropUser"
  /\ UNCHANGED <<dbcr, dbSecret, must, resourceVars, edits>>

DropSqlDatabase ==
  /\ dpc = "dropDatabase"
  /\ \/ /\ dbcr.spec \in Protected
        /\ dpc' = "removeFinalizer"
        /\ UNCHANGED <<sqlVars, faults>>
     \/ /\ dbcr.spec \notin Protected
        /\ \E ok \in BOOLEAN :
             DeleteDatabase(dbcr.name, ok) /\ DbGoto(ok, "dropUser")
  /\ UNCHANGED <<dbcr, dbSecret, must, resourceVars, edits>>

DropSqlUser ==
  /\ dpc = "dropUser"
  /\ \E ok \in BOOLEAN :
       DeleteMainUser(dbcr.name, ok) /\ DbGoto(ok, "removeFinalizer")
  /\ UNCHANGED <<dbcr, dbSecret, must, resourceVars, edits>>

(* Mutant: the finalizer is written back.                                  *)
RemoveFinalizerKept ==
  /\ dpc = "removeFinalizer"
  /\ \E ok \in BOOLEAN : Update("database", dbcr, ok) /\ DbGoto(ok, "cleanup")
  /\ UNCHANGED <<dbcr, dbSecret, must, du, uFresh, secret, sqlVars, edits>>

RemoveFinalizer ==
  /\ dpc = "removeFinalizer"
  /\ \E ok \in BOOLEAN :
       LET o == [dbcr EXCEPT !.own = FALSE] IN
       /\ Update("database", o, ok)
       /\ dbcr' = IF ok THEN WithStatus(o, db) ELSE o
       /\ DbGoto(ok, "cleanup")
  /\ UNCHANGED <<dbSecret, must, du, uFresh, secret, sqlVars, edits>>

(* Templates, proxy, ConfigMap, backup job and Secret lose their labels.   *)
(* A failure goes to manageError, whose status update finds no object.     *)
Cleanup ==
  /\ dpc = "cleanup"
  /\ \/ DbDone /\ UNCHANGED faults
     \/ dpc' = "error" /\ Fault /\ UNCHANGED <<dbcr, dbSecret, must>>
  /\ UNCHANGED <<resourceVars, sqlVars, edits>>

-----------------------------------------------------------------------------

(* manageError, and the deferred Status().Update of Reconcile: the second  *)
(* one writes the same status and matters only when the first one failed.  *)
ManageError ==
  /\ dpc = "error"
  /\ \E ok \in BOOLEAN :
       StatusUpdate("database", [dbcr EXCEPT !.ready = FALSE], ok)
  /\ DbDone
  /\ UNCHANGED <<du, uFresh, secret, sqlVars, edits>>

DbNext ==
  \/ ReconcileMissing \/ ReconcileCreateOrUpdate \/ ReconcileDelete
  \/ HealthCheck \/ IsFullReconcileForced \/ IsFullReconcile
  \/ SecretFound \/ SecretGenerated \/ PutSecret \/ RecordEngine
  \/ CreateSqlDatabase \/ CreateSqlUser \/ SaveGrants \/ AddFinalizer
  \/ UpdateAgain \/ HandleObjects \/ SetReady
  \/ DropSqlDatabase \/ DropSqlUser \/ RemoveFinalizer \/ Cleanup
  \/ ManageError

DbInit ==
  /\ dpc = "idle"
  /\ dbcr = NoDatabase
  /\ dbSecret = NoCopy
  /\ must = FALSE

DbTypeOK ==
  /\ dpc \in DbSteps
  /\ dbcr \in Database
  /\ dbSecret \in SecretCopy
  /\ must \in BOOLEAN
=============================================================================
