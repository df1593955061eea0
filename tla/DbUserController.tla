------------------------- MODULE DbUserController --------------------------
(***************************************************************************)
(* The DbUser reconciler (internal/controller/dbuser_controller.go): one   *)
(* worker, one reconcile at a time, for the DbUser x.  It works on a copy  *)
(* of the DbUser and on a copy of the Database it references, and writes   *)
(* both.  Nothing ever stores the checksum annotations isDbUserChanged     *)
(* compares, so every reconcile is a full one, whatever CheckChanges is.   *)
(***************************************************************************)
EXTENDS SqlServer

VARIABLES
  upc,  \* the next step of the running reconcile
  x,    \* the DbUser it is about, None when idle
  ucr,  \* the working copy of the DbUser
  udb   \* the working copy of the Database

userVars == <<upc, x, ucr, udb>>

UserSteps ==
  {"idle", "sqlUser", "addUserFinalizer", "addDbFinalizer", "setReady",
   "dropRole", "removeDbFinalizer", "removeUserFinalizer", "error"}

UserDone ==
  /\ upc' = "idle"
  /\ x' = None
  /\ ucr' = NoDbUser
  /\ udb' = NoDatabase

UserGoto(ok, step) == upc' = IF ok THEN step ELSE "error"

-----------------------------------------------------------------------------
(* Reconcile reads the DbUser, then its Database.  Without a Database it   *)
(* fails, also when the DbUser is being deleted.  A DbUser that is being   *)
(* deleted has its finalizer, or it would be gone.                         *)

ReconcileMissingUser ==
  /\ upc = "idle"
  /\ \A u \in Users : ~du[u].live
  /\ UNCHANGED <<userVars, clusterVars>>

(* Mutant: the request is not remembered.                                  *)
ReconcileUserForgotten(u) ==
  /\ upc = "idle"
  /\ du[u].live
  /\ x' = x
  /\ ucr' = du[u]
  /\ udb' = db
  /\ uFresh' = [uFresh EXCEPT ![u] = TRUE]
  /\ fresh' = [fresh EXCEPT !["dbuser"] = TRUE]
  /\ upc' = "sqlUser"
  /\ UNCHANGED <<db, du, secret, sqlVars, budgetVars>>

ReconcileUser(u) ==
  /\ upc = "idle"
  /\ du[u].live
  /\ x' = u
  /\ ucr' = du[u]
  /\ udb' = db
  /\ uFresh' = [uFresh EXCEPT ![u] = TRUE]
  /\ fresh' = [fresh EXCEPT !["dbuser"] = TRUE]
  /\ upc' = CASE ~db.live -> "error"
              [] db.live /\ du[u].deleting -> "dropRole"
              [] OTHER -> "sqlUser"
  /\ UNCHANGED <<db, du, secret, sqlVars, budgetVars>>

-----------------------------------------------------------------------------
(* The create or update path.  The Secret of the user and FetchDatabaseData *)
(* need the engine of the Database, and the role is only created or        *)
(* updated while the Database is ready; it is dropped even when it is not. *)

DatabaseNotReady ==
  /\ \/ upc = "sqlUser" /\ ~(udb.engine /\ udb.ready)
     \/ upc = "dropRole" /\ ~udb.engine
  /\ upc' = "error"
  /\ UNCHANGED <<x, ucr, udb, clusterVars>>

(* Mutant: the role is managed whether or not the Database is ready.       *)
ManageSqlUserUnready ==
  /\ upc = "sqlUser"
  /\ udb.engine
  /\ \E ok \in BOOLEAN :
       /\ IF ucr.created THEN UpdateUser(x, ok) ELSE CreateUser(x, ok)
       /\ UserGoto(ok, IF ucr.created THEN "setReady" ELSE "addUserFinalizer")
  /\ UNCHANGED <<x, ucr, udb, resourceVars, edits>>

(* Mutant: an existing user is created.                                    *)
ManageSqlUserAsNew ==
  /\ upc = "sqlUser"
  /\ udb.engine /\ udb.ready
  /\ \E ok \in BOOLEAN :
       /\ IF ucr.created THEN UpdateUser(x, ok) ELSE CreateUser(x, ok)
       /\ UserGoto(ok, IF ucr.created THEN "setReady" ELSE "addUserFinalizer")
  /\ UNCHANGED <<x, ucr, udb, resourceVars, edits>>

(* An existing user only gets permissions; a new one is created, and once  *)
(* Status.Created is stored it is updated.                                 *)
ManageSqlUser ==
  /\ upc = "sqlUser"
  /\ udb.engine /\ udb.ready
  /\ \E ok \in BOOLEAN :
       \/ /\ x \in ExistingUsers
          /\ SetPermissions(x, ok)
          /\ UserGoto(ok, "addUserFinalizer")
       \/ /\ x \notin ExistingUsers
          /\ ~ucr.created
          /\ CreateUser(x, ok)
          /\ UserGoto(ok, "addUserFinalizer")
       \/ /\ x \notin ExistingUsers
          /\ ucr.created
          /\ UpdateUser(x, ok)
          /\ UserGoto(ok, "setReady")
  /\ UNCHANGED <<x, ucr, udb, resourceVars, edits>>

(* addFinalizers: first on the DbUser; the answer replaces the status in   *)
(* memory ...                                                              *)
AddUserFinalizer ==
  /\ upc = "addUserFinalizer"
  /\ \E ok \in BOOLEAN :
       LET o == [ucr EXCEPT !.fin = TRUE] IN
       /\ UserUpdate(x, o, ok)
       /\ ucr' = IF ok THEN WithUserStatus(o, du[x]) ELSE o
       /\ UserGoto(ok, "addDbFinalizer")
  /\ UNCHANGED <<x, udb, db, fresh, secret, sqlVars, edits>>

(* Mutant: the error of the Update of the Database is dropped.             *)
AddDbFinalizerUnchecked ==
  /\ upc = "addDbFinalizer"
  /\ \E ok \in BOOLEAN :
       Update("dbuser", [udb EXCEPT !.users = @ \cup {x}], ok)
  /\ ucr' = [ucr EXCEPT !.created = TRUE]
  /\ upc' = "setReady"
  /\ UNCHANGED <<x, udb, du, uFresh, secret, sqlVars, edits>>

(* ... then on the Database.  Status.Created is set in memory.             *)
AddDbFinalizer ==
  /\ upc = "addDbFinalizer"
  /\ \E ok \in BOOLEAN :
       /\ Update("dbuser", [udb EXCEPT !.users = @ \cup {x}], ok)
       /\ ucr' = [ucr EXCEPT !.created = @ \/ ok]
       /\ UserGoto(ok, "setReady")
  /\ UNCHANGED <<x, udb, du, uFresh, secret, sqlVars, edits>>

(* Templated credentials; then the deferred Status().Update, whose error   *)
(* is only logged, stores Status.Created and Status.Status.                *)
SetUserReady ==
  /\ upc = "setReady"
  /\ \/ /\ \E ok \in BOOLEAN :
             UserStatusUpdate(x, [ucr EXCEPT !.ready = TRUE], ok)
        /\ UserDone
     \/ /\ Fault
        /\ upc' = "error"
        /\ UNCHANGED <<x, ucr, udb, du, uFresh>>
  /\ UNCHANGED <<db, fresh, secret, sqlVars, edits>>

-----------------------------------------------------------------------------
(* The delete path *)

DropRole ==
  /\ upc = "dropRole"
  /\ udb.engine
  /\ \E ok \in BOOLEAN :
       /\ IF x \in ExistingUsers THEN RevokePermissions(x, ok)
                                 ELSE DeleteUser(x, ok)
       /\ UserGoto(ok, "removeDbFinalizer")
  /\ UNCHANGED <<x, ucr, udb, resourceVars, edits>>

RemoveDbFinalizer ==
  /\ upc = "removeDbFinalizer"
  /\ \E ok \in BOOLEAN :
       /\ Update("dbuser", [udb EXCEPT !.users = @ \ {x}], ok)
       /\ UserGoto(ok, "removeUserFinalizer")
  /\ UNCHANGED <<x, ucr, udb, du, uFresh, secret, sqlVars, edits>>

(* Mutant: the finalizer is written back.                                  *)
RemoveUserFinalizerKept ==
  /\ upc = "removeUserFinalizer"
  /\ \E ok \in BOOLEAN : UserUpdate(x, ucr, ok)
  /\ UserDone
  /\ UNCHANGED <<db, fresh, secret, sqlVars, edits>>

RemoveUserFinalizer ==
  /\ upc = "removeUserFinalizer"
  /\ \E ok \in BOOLEAN :
       /\ UserUpdate(x, [ucr EXCEPT !.fin = FALSE], ok)
       /\ IF ok THEN UserDone ELSE upc' = "error" /\ UNCHANGED <<x, ucr, udb>>
  /\ UNCHANGED <<db, fresh, secret, sqlVars, edits>>

-----------------------------------------------------------------------------

(* manageError clears Status.Status in memory; the deferred                *)
(* Status().Update stores it.                                              *)
ManageUserError ==
  /\ upc = "error"
  /\ \E ok \in BOOLEAN :
       UserStatusUpdate(x, [ucr EXCEPT !.ready = FALSE], ok)
  /\ UserDone
  /\ UNCHANGED <<db, fresh, secret, sqlVars, edits>>

UserStep ==
  \/ DatabaseNotReady \/ ManageSqlUser
  \/ AddUserFinalizer \/ AddDbFinalizer \/ SetUserReady
  \/ DropRole \/ RemoveDbFinalizer \/ RemoveUserFinalizer
  \/ ManageUserError

UserNext ==
  \/ ReconcileMissingUser
  \/ \E u \in Users : ReconcileUser(u)
  \/ UserStep

UserInit ==
  /\ upc = "idle"
  /\ x = None
  /\ ucr = NoDbUser
  /\ udb = NoDatabase

UserTypeOK ==
  /\ upc \in UserSteps
  /\ x \in Users \cup {None}
  /\ upc # "idle" => x \in Users
  /\ ucr \in DbUser
  /\ udb \in Database
=============================================================================
