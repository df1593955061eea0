----------------------------- MODULE SqlServer -----------------------------
(***************************************************************************)
(* The SQL operations of pkg/utils/database, for the engine the constant   *)
(* Postgres selects.  ok is the error result of the Go function: TRUE for  *)
(* nil.  A failed call is charged to the fault budget; the functions that  *)
(* run several statements may fail after any of them, and a statement may  *)
(* take effect although its answer is lost.                                *)
(***************************************************************************)
EXTENDS Cluster

(* createDatabase on postgres creates the database if it is missing, then  *)
(* the extensions and schemas of the spec, which it never removes ...      *)
PostgresCreateDatabase(s, ok) ==
  \/ /\ ok
     /\ sqlDb' = TRUE
     /\ applied' = applied \cup {s}
     /\ UNCHANGED faults
  \/ /\ ~ok
     /\ Fault
     /\ \/ UNCHANGED <<sqlDb, applied>>
        \/ sqlDb' = TRUE /\ UNCHANGED applied
        \/ sqlDb' = TRUE /\ applied' = applied \cup {s}

(* ... and on mysql it is one statement.                                   *)
MysqlCreateDatabase(s, ok) ==
  \/ /\ sqlDb' = TRUE
     /\ applied' = applied \cup {s}
     /\ IF ok THEN UNCHANGED faults ELSE Fault
  \/ ~ok /\ Fault /\ UNCHANGED <<sqlDb, applied>>

CreateDatabase(s, ok) ==
  /\ IF Postgres THEN PostgresCreateDatabase(s, ok)
                 ELSE MysqlCreateDatabase(s, ok)
  /\ UNCHANGED <<sqlPw, roles>>

(* isRowExist answers FALSE when the query fails, so the drop of postgres  *)
(* is skipped and reported as done.  The empty name is no database.        *)
PostgresDeleteDatabase(named, ok) ==
  \/ named /\ ok /\ sqlDb' = FALSE /\ applied' = {} /\ UNCHANGED faults
  \/ named /\ ok /\ Fault /\ UNCHANGED <<sqlDb, applied>>
  \/ named /\ ~ok /\ Fault /\ UNCHANGED <<sqlDb, applied>>
  \/ named /\ ~ok /\ Fault /\ sqlDb' = FALSE /\ applied' = {}
  \/ ~named /\ ok /\ UNCHANGED <<sqlDb, applied, faults>>

(* Mutant: DROP DATABASE without IF EXISTS.                                *)
MysqlDeleteDatabaseStrict(named, ok) ==
  \/ /\ named /\ sqlDb
     /\ sqlDb' = FALSE
     /\ applied' = {}
     /\ IF ok THEN UNCHANGED faults ELSE Fault
  \/ named /\ ~ok /\ Fault /\ UNCHANGED <<sqlDb, applied>>
  \/ ~ok /\ (named => ~sqlDb) /\ UNCHANGED <<sqlDb, applied, faults>>

(* DROP DATABASE IF EXISTS of mysql reports its error; with an empty name  *)
(* it is rejected.                                                         *)
MysqlDeleteDatabase(named, ok) ==
  \/ /\ named
     /\ sqlDb' = FALSE
     /\ applied' = {}
     /\ IF ok THEN UNCHANGED faults ELSE Fault
  \/ named /\ ~ok /\ Fault /\ UNCHANGED <<sqlDb, applied>>
  \/ ~named /\ ~ok /\ UNCHANGED <<sqlDb, applied, faults>>

(* Before it, the controller fetches instance and Secrets, which may fail. *)
DeleteDatabase(named, ok) ==
  /\ \/ Postgres /\ PostgresDeleteDatabase(named, ok)
     \/ ~Postgres /\ MysqlDeleteDatabase(named, ok)
     \/ ~ok /\ Fault /\ UNCHANGED <<sqlDb, applied>>
  /\ UNCHANGED <<sqlPw, roles>>

(* Mutant: an existing user keeps its password.                            *)
CreateOrKeepUser(p, ok) ==
  /\ \/ ok /\ sqlPw' = (IF sqlPw = None THEN p ELSE sqlPw) /\ UNCHANGED faults
     \/ ~ok /\ Fault /\ UNCHANGED sqlPw
  /\ UNCHANGED <<sqlDb, applied, roles>>

(* createOrUpdateUser for the main user: the user exists afterwards with   *)
(* password p, and so it may when only the grants failed.                  *)
CreateOrUpdateUser(p, ok) ==
  /\ \/ ok /\ sqlPw' = p /\ UNCHANGED faults
     \/ ~ok /\ Fault /\ UNCHANGED sqlPw
     \/ ~ok /\ Fault /\ sqlPw' = p
  /\ UNCHANGED <<sqlDb, applied, roles>>

(* deleteUser asks isUserExist first and skips the drop when it answers    *)
(* FALSE, also because of a failure ...                                    *)
MysqlDeleteUser(ok) ==
  \/ sqlPw' = None /\ (IF ok THEN UNCHANGED faults ELSE Fault)
  \/ Fault /\ UNCHANGED sqlPw

(* ... and on postgres a role that other objects depend on is kept without *)
(* an error.                                                               *)
PostgresDeleteUser(ok) ==
  \/ MysqlDeleteUser(ok)
  \/ ok /\ UNCHANGED <<sqlPw, faults>>

(* The main user; one without a name is not found.                         *)
DeleteMainUser(named, ok) ==
  /\ \/ named /\ Postgres /\ PostgresDeleteUser(ok)
     \/ named /\ ~Postgres /\ MysqlDeleteUser(ok)
     \/ ~named /\ ok /\ UNCHANGED <<sqlPw, faults>>
  /\ UNCHANGED <<sqlDb, applied, roles>>

(* setUserPermission connects to the database on postgres; mysql accepts a *)
(* grant on a database that does not exist.                                *)
CanGrant == Postgres => sqlDb

(* createUser for DbUser u: an error when the role is already there; the   *)
(* role stays when the grants fail.                                        *)
CreateUser(u, ok) ==
  /\ \/ /\ ok
        /\ u \notin roles
        /\ CanGrant
        /\ roles' = roles \cup {u}
        /\ UNCHANGED faults
     \/ ~ok /\ u \in roles /\ UNCHANGED <<roles, faults>>
     \/ ~ok /\ ~CanGrant /\ roles' = roles \cup {u} /\ UNCHANGED faults
     \/ ~ok /\ Fault /\ UNCHANGED roles
     \/ ~ok /\ Fault /\ roles' = roles \cup {u}
  /\ UNCHANGED <<sqlDb, applied, sqlPw>>

(* UpdateUser calls createOrUpdateUser, which creates a missing role.      *)
UpdateUser(u, ok) ==
  /\ \/ ok /\ CanGrant /\ roles' = roles \cup {u} /\ UNCHANGED faults
     \/ ~ok /\ ~CanGrant /\ roles' = roles \cup {u} /\ UNCHANGED faults
     \/ ~ok /\ Fault /\ UNCHANGED roles
     \/ ~ok /\ Fault /\ roles' = roles \cup {u}
  /\ UNCHANGED <<sqlDb, applied, sqlPw>>

(* SetPermissions for a role that somebody else manages.                   *)
SetPermissions(u, ok) ==
  /\ \/ ok /\ u \in roles /\ CanGrant /\ UNCHANGED faults
     \/ ~ok /\ ~(u \in roles /\ CanGrant) /\ UNCHANGED faults
     \/ ~ok /\ Fault
  /\ UNCHANGED sqlVars

(* DeleteUser revokes the permissions, which on postgres needs the         *)
(* database if the role exists, and drops the role.                        *)
DeleteUser(u, ok) ==
  /\ \/ /\ ok
        /\ u \in roles => CanGrant
        /\ roles' = roles \ {u}
        /\ UNCHANGED faults
     \/ ok /\ Postgres /\ CanGrant /\ UNCHANGED <<roles, faults>>
     \/ ok /\ Fault /\ UNCHANGED roles
     \/ ~ok /\ u \in roles /\ ~CanGrant /\ UNCHANGED <<roles, faults>>
     \/ ~ok /\ Fault /\ UNCHANGED roles
     \/ ~ok /\ Fault /\ roles' = roles \ {u}
  /\ UNCHANGED <<sqlDb, applied, sqlPw>>

(* RevokePermissions leaves the role.                                      *)
RevokePermissions(u, ok) ==
  /\ \/ ok /\ (u \in roles => CanGrant) /\ UNCHANGED faults
     \/ ok /\ Fault
     \/ ~ok /\ u \in roles /\ ~CanGrant /\ UNCHANGED faults
     \/ ~ok /\ Fault
  /\ UNCHANGED sqlVars

(* CheckStatus logs in as the main user with password p and selects the   *)
(* database ...                                                            *)
MysqlCheckStatus(p) == sqlDb /\ p # None /\ sqlPw = p

(* ... and on postgres also looks for the schemas and the extensions.      *)
CheckStatus(s, p) ==
  /\ MysqlCheckStatus(p)
  /\ Postgres => s \in applied
=============================================================================
