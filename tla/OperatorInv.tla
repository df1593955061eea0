---------------------------- MODULE OperatorInv -----------------------------
(***************************************************************************)
(* The inductive invariant behind the safety properties of Operator: what  *)
(* each working copy still says about the stored object, and what each     *)
(* step of a reconcile may rely on.                                        *)
(***************************************************************************)
EXTENDS Operator

DeleteSteps == {"dropDatabase", "dropUser", "removeFinalizer"}

UpsertSteps ==
  {"healthCheck", "isFullReconcile", "getSecret", "putSecret", "setEngine",
   "createDatabase", "createUser", "saveGrants", "addFinalizer", "updateAgain",
   "objects", "setReady"}

SameMeta(o, s) ==
  /\ o.live = s.live
  /\ o.deleting = s.deleting
  /\ o.own = s.own
  /\ o.users = s.users

(* What is stored is well formed: an absent Database has no finalizers,    *)
(* and a referenced one has its finalizer and its SQL database.            *)
StoredInv == db.users # {} => db.live /\ db.own /\ sqlDb

(* The deletion is decided on finalizers that cannot come back.            *)
DeleteInv ==
  dpc \in DeleteSteps =>
    db.live /\ db.deleting /\ db.own /\ db.users = {}

(* While the Database controller's copy is current it agrees with the      *)
(* stored object in everything an Update writes back.                      *)
DbCopyInv ==
  /\ dpc \in UpsertSteps => dbcr.live /\ ~dbcr.deleting
  /\ dpc \in DeleteSteps => dbcr.live /\ dbcr.deleting
  /\ dpc \in UpsertSteps \cup DeleteSteps /\ fresh["database"] =>
       SameMeta(dbcr, db) /\ dbcr.engine = db.engine

(* What the steps before have established.                                 *)
DbStepInv ==
  /\ dpc \in UpsertSteps /\ dbcr.ready =>
       dbcr.own /\ dbcr.engine /\ dbcr.name /\ sqlDb /\ sqlPw # None
  /\ dpc \in {"getSecret", "putSecret"} /\ ~must => dbcr.ready
  /\ dpc \in {"putSecret", "setEngine", "createDatabase", "createUser",
              "saveGrants", "addFinalizer"} => dbSecret.pw # None
  /\ dpc \in {"createDatabase", "createUser", "saveGrants", "addFinalizer",
              "updateAgain"} => dbcr.engine
  /\ dpc \in {"createUser", "saveGrants", "addFinalizer", "updateAgain"} => sqlDb
  /\ dpc \in {"saveGrants", "addFinalizer", "updateAgain"} => sqlPw # None
  /\ dpc = "updateAgain" => dbcr.own
  /\ dpc \in {"objects", "setReady"} =>
       dbcr.own /\ dbcr.engine /\ dbcr.name /\ sqlDb /\ sqlPw # None

(* The DbUser controller's copies, while they are current.                 *)
UserCopyInv ==
  /\ upc \in {"sqlUser", "addUserFinalizer", "addDbFinalizer", "dropRole",
              "removeDbFinalizer"} /\ fresh["dbuser"] => udb = db
  /\ upc \notin {"idle", "error"} /\ uFresh[x] =>
       ucr.live = du[x].live /\ ucr.deleting = du[x].deleting

UserStepInv ==
  /\ upc \in {"addUserFinalizer", "addDbFinalizer"} => udb.ready
  /\ upc \in {"dropRole", "removeDbFinalizer", "removeUserFinalizer"} =>
       du[x].live /\ du[x].deleting
  /\ upc = "addDbFinalizer" /\ uFresh[x] => du[x].live /\ du[x].fin
  /\ upc # "idle" /\ uFresh[x] /\ ucr.created /\ ~du[x].deleting =>
       du[x].fin /\ x \in db.users

(* The inductive invariant: all of the above and the two properties.       *)
Inductive ==
  /\ TypeOK
  /\ StoredInv
  /\ DeleteInv
  /\ DbCopyInv
  /\ DbStepInv
  /\ UserCopyInv
  /\ UserStepInv
  /\ ReadyDatabaseIsBacked
  /\ CreatedUserPinsDatabase
=============================================================================
