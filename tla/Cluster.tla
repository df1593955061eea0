------------------------------ MODULE Cluster ------------------------------
(***************************************************************************)
(* What the controllers of db-operator share: the Kubernetes API server    *)
(* (one Database resource, the DbUser resources that reference it, the     *)
(* credentials Secret of the Database) and the SQL server behind them.     *)
(*                                                                         *)
(* The API server keeps a resourceVersion per object and refuses a write   *)
(* made from an outdated copy.  A controller holds one working copy per    *)
(* reconcile, so the version is abstracted to one bit per copy:            *)
(* fresh[c] is TRUE while nobody has changed the Database since            *)
(* controller c read or last wrote it, and uFresh[u] says the same of the  *)
(* copy of DbUser u.  A write that changes nothing keeps the version.      *)
(***************************************************************************)
EXTENDS Naturals

CONSTANTS
  Users,          \* the DbUser resources, all with databaseRef = the Database
  ExistingUsers,  \* those with .spec.existingUser set
  Specs,          \* values of the Database's .spec
  Protected,      \* those with deletionProtected: true
  Passwords,      \* values of the PASSWORD key of the credentials Secret
  None,           \* absent
  Postgres,       \* TRUE: engine postgres, FALSE: engine mysql
  CheckChanges,   \* the --check-for-changes flag
  MaxFaults,      \* bound: failed calls and operator restarts
  MaxEdits        \* bound: changes made by people to the resources

ASSUME ClusterAssumption ==
  /\ ExistingUsers \subseteq Users
  /\ Protected \subseteq Specs
  /\ None \notin Specs
  /\ None \notin Passwords
  /\ Postgres \in BOOLEAN
  /\ CheckChanges \in BOOLEAN
  /\ MaxFaults \in Nat
  /\ MaxEdits \in Nat

VARIABLES
  db,       \* the Database resource as the API server stores it
  du,       \* du[u]: the DbUser resource u
  fresh,    \* fresh[c]: controller c's copy of the Database is current
  uFresh,   \* uFresh[u]: the DbUser controller's copy of u is current
  secret,   \* the password in the credentials Secret, None: no Secret
  sqlDb,    \* the SQL database exists
  applied,  \* the specs whose extensions and schemas it has
  sqlPw,    \* password of the main SQL user, None: no such user
  roles,    \* the DbUsers whose SQL role exists
  faults, edits

resourceVars == <<db, du, fresh, uFresh, secret>>
sqlVars      == <<sqlDb, applied, sqlPw, roles>>
budgetVars   == <<faults, edits>>
clusterVars  == <<resourceVars, sqlVars, budgetVars>>

-----------------------------------------------------------------------------
(* Resources *)

Controllers == {"database", "dbuser"}

(***************************************************************************)
(* A Database.  own is the finalizer "db.<name>", users the finalizers     *)
(* "dbuser.<u>"; force is the db-force-full-reconcile annotation, sumSpec  *)
(* and sumPw the annotations checksum/spec and checksum/secret; ready,     *)
(* engine and name are Status.Status, "Status.Engine is set" and           *)
(* "Status.DatabaseName and Status.UserName are set".                      *)
(***************************************************************************)
Database ==
  [live: BOOLEAN, deleting: BOOLEAN, own: BOOLEAN, users: SUBSET Users,
   force: BOOLEAN, spec: Specs \cup {None}, sumSpec: Specs \cup {None},
   sumPw: Passwords \cup {None}, ready: BOOLEAN, engine: BOOLEAN,
   name: BOOLEAN]

NewDatabase(s) ==
  [live |-> s # None, deleting |-> FALSE, own |-> FALSE, users |-> {},
   force |-> FALSE, spec |-> s, sumSpec |-> None, sumPw |-> None,
   ready |-> FALSE, engine |-> FALSE, name |-> FALSE]

NoDatabase == NewDatabase(None)

(* A DbUser.  fin is its finalizer "dbuser.<name>"; created and ready are  *)
(* Status.Created and Status.Status.                                       *)
DbUser ==
  [live: BOOLEAN, deleting: BOOLEAN, fin: BOOLEAN, created: BOOLEAN,
   ready: BOOLEAN]

NewDbUser ==
  [live |-> TRUE, deleting |-> FALSE, fin |-> FALSE, created |-> FALSE,
   ready |-> FALSE]

NoDbUser == [NewDbUser EXCEPT !.live = FALSE]

-----------------------------------------------------------------------------
(* The API server *)

(* An object marked for deletion disappears with its last finalizer.       *)
Reap(o) ==
  IF o.deleting /\ ~o.own /\ o.users = {} THEN NoDatabase ELSE o

ReapUser(o) == IF o.deleting /\ ~o.fin THEN NoDbUser ELSE o

WithStatus(o, s) ==
  [o EXCEPT !.ready = s.ready, !.engine = s.engine, !.name = s.name]

WithUserStatus(o, s) ==
  [o EXCEPT !.created = s.created, !.ready = s.ready]

(* Store o as the Database on behalf of writer c.                          *)
StoreDb(c, o) ==
  /\ db' = o
  /\ fresh' = [k \in Controllers |->
                 fresh[k] /\ (o = db \/ (k = c /\ o.live))]

(* A call to the API server or to the SQL server that fails.               *)
Fault == faults < MaxFaults /\ faults' = faults + 1

(***************************************************************************)
(* Update writes metadata and spec and keeps the stored status; it is      *)
(* refused for an outdated copy, and a new finalizer is refused on an      *)
(* object that is being deleted.  ok is what the caller is told: a call    *)
(* may fail before or after it took effect, and in the second case the     *)
(* caller's copy is outdated.                                              *)
(***************************************************************************)
CanUpdate(c, o) ==
  /\ db.live
  /\ fresh[c]
  /\ db.deleting => (o.own => db.own) /\ o.users \subseteq db.users

Update(c, o, ok) ==
  LET stored == Reap(WithStatus(o, db)) IN
  \/ ok /\ CanUpdate(c, o) /\ StoreDb(c, stored) /\ UNCHANGED faults
  \/ ~ok /\ ~CanUpdate(c, o) /\ UNCHANGED <<db, fresh, faults>>
  \/ ~ok /\ Fault /\ UNCHANGED <<db, fresh>>
  \/ ~ok /\ Fault /\ CanUpdate(c, o) /\ StoreDb("lost", stored)

(* Status().Update writes the status and nothing else.                     *)
CanUpdateStatus(c) == db.live /\ fresh[c]

StatusUpdate(c, o, ok) ==
  LET stored == WithStatus(db, o) IN
  \/ ok /\ CanUpdateStatus(c) /\ StoreDb(c, stored) /\ UNCHANGED faults
  \/ ~ok /\ ~CanUpdateStatus(c) /\ UNCHANGED <<db, fresh, faults>>
  \/ ~ok /\ Fault /\ UNCHANGED <<db, fresh>>
  \/ ~ok /\ Fault /\ CanUpdateStatus(c) /\ StoreDb("lost", stored)

(* The same two calls for DbUser u, made by the DbUser controller.         *)
StoreUser(c, u, o) ==
  /\ du' = [du EXCEPT ![u] = o]
  /\ uFresh' =
       [uFresh EXCEPT ![u] = @ /\ (o = du[u] \/ (c = "dbuser" /\ o.live))]

CanUpdateUser(u, o) ==
  /\ du[u].live
  /\ uFresh[u]
  /\ du[u].deleting => (o.fin => du[u].fin)

UserUpdate(u, o, ok) ==
  LET stored == ReapUser(WithUserStatus(o, du[u])) IN
  \/ /\ ok
     /\ CanUpdateUser(u, o)
     /\ StoreUser("dbuser", u, stored)
     /\ UNCHANGED faults
  \/ ~ok /\ ~CanUpdateUser(u, o) /\ UNCHANGED <<du, uFresh, faults>>
  \/ ~ok /\ Fault /\ UNCHANGED <<du, uFresh>>
  \/ ~ok /\ Fault /\ CanUpdateUser(u, o) /\ StoreUser("lost", u, stored)

CanUpdateUserStatus(u) == du[u].live /\ uFresh[u]

UserStatusUpdate(u, o, ok) ==
  LET stored == WithUserStatus(du[u], o) IN
  \/ /\ ok
     /\ CanUpdateUserStatus(u)
     /\ StoreUser("dbuser", u, stored)
     /\ UNCHANGED faults
  \/ ~ok /\ ~CanUpdateUserStatus(u) /\ UNCHANGED <<du, uFresh, faults>>
  \/ ~ok /\ Fault /\ UNCHANGED <<du, uFresh>>
  \/ ~ok /\ Fault /\ CanUpdateUserStatus(u) /\ StoreUser("lost", u, stored)

-----------------------------------------------------------------------------
(* What people do to the resources.  Each action costs one edit.           *)

Edit == edits < MaxEdits /\ edits' = edits + 1 /\ UNCHANGED <<faults, sqlVars>>

CreateDatabaseResource(s) ==
  /\ Edit
  /\ ~db.live
  /\ StoreDb("person", NewDatabase(s))
  /\ UNCHANGED <<du, uFresh, secret>>

EditDatabaseSpec(s) ==
  /\ Edit
  /\ db.live
  /\ db.spec # s
  /\ StoreDb("person", [db EXCEPT !.spec = s])
  /\ UNCHANGED <<du, uFresh, secret>>

ForceFullReconcile ==
  /\ Edit
  /\ db.live
  /\ ~db.force
  /\ StoreDb("person", [db EXCEPT !.force = TRUE])
  /\ UNCHANGED <<du, uFresh, secret>>

DeleteDatabaseResource ==
  /\ Edit
  /\ db.live
  /\ ~db.deleting
  /\ StoreDb("person", Reap([db EXCEPT !.deleting = TRUE]))
  /\ UNCHANGED <<du, uFresh, secret>>

CreateDbUserResource(u) ==
  /\ Edit
  /\ ~du[u].live
  /\ StoreUser("person", u, NewDbUser)
  /\ UNCHANGED <<db, fresh, secret>>

(* Any edit of a DbUser that the model does not tell apart: it only makes  *)
(* the controller's copy outdated.                                         *)
TouchDbUserResource(u) ==
  /\ Edit
  /\ du[u].live
  /\ uFresh[u]
  /\ uFresh' = [uFresh EXCEPT ![u] = FALSE]
  /\ UNCHANGED <<db, du, fresh, secret>>

DeleteDbUserResource(u) ==
  /\ Edit
  /\ du[u].live
  /\ ~du[u].deleting
  /\ StoreUser("person", u, ReapUser([du[u] EXCEPT !.deleting = TRUE]))
  /\ UNCHANGED <<db, fresh, secret>>

(* Rotation of the password: the Secret is removed or rewritten.           *)
ChangeSecret(p) ==
  /\ Edit
  /\ secret # p
  /\ secret' = p
  /\ UNCHANGED <<db, du, fresh, uFresh>>

PeopleStep ==
  \/ \E s \in Specs : CreateDatabaseResource(s)
  \/ \E s \in Specs : EditDatabaseSpec(s)
  \/ ForceFullReconcile
  \/ DeleteDatabaseResource
  \/ \E u \in Users : CreateDbUserResource(u)
  \/ \E u \in Users : TouchDbUserResource(u)
  \/ \E u \in Users : DeleteDbUserResource(u)
  \/ \E p \in Passwords \cup {None} : ChangeSecret(p)

-----------------------------------------------------------------------------

(* The Database has just been created and nothing else is there; the roles *)
(* of .spec.existingUser are on the server already.                        *)
ClusterInit ==
  /\ db \in {NewDatabase(s) : s \in Specs}
  /\ du = [u \in Users |-> NoDbUser]
  /\ fresh = [c \in Controllers |-> FALSE]
  /\ uFresh = [u \in Users |-> FALSE]
  /\ secret = None
  /\ sqlDb = FALSE
  /\ applied = {}
  /\ sqlPw = None
  /\ roles = ExistingUsers
  /\ faults = 0
  /\ edits = 0

ClusterTypeOK ==
  /\ db \in Database
  /\ du \in [Users -> DbUser]
  /\ fresh \in [Controllers -> BOOLEAN]
  /\ uFresh \in [Users -> BOOLEAN]
  /\ secret \in Passwords \cup {None}
  /\ sqlDb \in BOOLEAN
  /\ applied \in SUBSET (Specs \cup {None})
  /\ sqlPw \in Passwords \cup {None}
  /\ roles \in SUBSET Users
  /\ faults \in Nat
  /\ edits \in Nat
=============================================================================
