------------------------ MODULE InstanceController -------------------------
(***************************************************************************)
(* The DbInstance reconciler (internal/controller/dbinstance_controller.go) *)
(* with the backends of pkg/utils/dbinstance: a generic server that is     *)
(* only looked for, or a Google Cloud SQL instance that is created and     *)
(* patched.  A new or changed DbInstance is provisioned, its connection    *)
(* data is kept in Status.Info, and its Databases are told to reconcile in *)
(* full by blanking their checksum/spec annotation ("broadcast").          *)
(*                                                                         *)
(* Status is written once, when Reconcile returns, from the working copy;  *)
(* iFresh is TRUE while that copy is current.  A configuration c stands    *)
(* for the spec together with the data it references.                      *)
(***************************************************************************)
EXTENDS Naturals

CONSTANTS
  Databases,     \* the Databases with .spec.instance = this DbInstance
  Configs,       \* values of the configuration
  Invalid,       \* those that ValidateBackend or ValidateEngine rejects
  None,          \* absent
  Backends,      \* generic: a server that is there, google: Cloud SQL
  GoogleConn,    \* its connection name, which no configuration changes
  FromRef,       \* TRUE: the configuration is in a Secret or a ConfigMap
  CheckChanges,  \* the --check-for-changes flag
  MaxFaults,     \* bound: failed calls, time-outs and restarts
  MaxEdits       \* bound: changes of the configuration and of Databases

ASSUME InstanceAssumption ==
  /\ Invalid \subseteq Configs
  /\ None \notin Configs \cup Databases \cup {GoogleConn}
  /\ GoogleConn \notin Configs
  /\ Backends \subseteq {"generic", "google"}
  /\ FromRef \in BOOLEAN /\ CheckChanges \in BOOLEAN
  /\ MaxFaults \in Nat /\ MaxEdits \in Nat

VARIABLES
  config,   \* the configuration as stored, None: a referenced object is gone
  inst,     \* the stored status of the DbInstance
  iFresh,   \* the working copy of the DbInstance is current
  cloud,    \* the Cloud SQL instance
  dbs,      \* dbs[d]: annotation and engine of Database d, and its servers
  ipc,      \* the next step of the running reconcile
  icr,      \* the status of the working copy
  read,     \* the configuration as last read
  todo,     \* Databases the broadcast still has to tell
  listed,   \* Databases unchanged since the broadcast listed them
  placing,  \* the Database in a full reconcile, None: none is
  placeOk,  \* its working copy is current
  faults, edits

instVars == <<ipc, icr, read, todo, listed>>
dbSide   == <<dbs, placing, placeOk>>
vars     == <<config, inst, iFresh, cloud, dbSide, instVars, faults, edits>>

Infos == Configs \cup {GoogleConn}

Phases ==
  {"", "Validating", "Creating", "Broadcasting", "ProxyCreating", "Running"}

(* Status.Status, Status.Phase, Status.Checksums and Status.Info.          *)
Status ==
  [ready: BOOLEAN, phase: Phases, sum: Configs \cup {None},
   info: Infos \cup {None}]

NoStatus == [ready |-> FALSE, phase |-> "", sum |-> None, info |-> None]

(* GetBackendType; a generic server is none of Cloud SQL's.                *)
Google == cloud.state # "external"

(* Status.Info as getInfoMap builds it.                                    *)
InfoMap(c) == IF Google THEN GoogleConn ELSE c

(* A call that fails, or an answer that comes too late.                    *)
Fault == faults < MaxFaults /\ faults' = faults + 1

Goto(ok, step) == ipc' = IF ok THEN step ELSE "exit"

(* A call that can fail by itself only.                                    *)
Call(ok) == IF ok THEN UNCHANGED faults ELSE Fault

-----------------------------------------------------------------------------
(* The DbInstance reconciler *)

(* Get and fetchInstanceData: without a referenced object there is nothing *)
(* to do.                                                                  *)
FetchInstanceData ==
  /\ ipc = "idle"
  /\ iFresh' = TRUE
  /\ icr' = inst
  /\ read' = config
  /\ \/ Goto(config # None, "label") /\ UNCHANGED faults
     \/ ipc' = "exit" /\ Fault
  /\ UNCHANGED <<config, inst, cloud, dbSide, todo, listed, edits>>

(* labelReferencedResources: a referenced object without the label is      *)
(* updated, which fails if it has changed since it was fetched.            *)
LabelReferenced ==
  /\ ipc = "label"
  /\ \/ ipc' = "validate" /\ UNCHANGED faults
     \/ FromRef /\ read # config /\ ipc' = "exit" /\ UNCHANGED faults
     \/ ipc' = "exit" /\ Fault
  /\ UNCHANGED <<config, inst, iFresh, cloud, dbSide, icr, read, todo, listed,
                 edits>>

(* The checksums of spec and referenced data differ from the recorded ones. *)
IsDBInstanceChanged == icr.sum # read

(* ValidateBackend and ValidateEngine.                                     *)
Valid(c) == c \notin Invalid

(* Mutant: the checksums are not recorded.                                 *)
ValidateWithoutSum ==
  LET ready == icr.ready /\ ~IsDBInstanceChanged IN
  /\ ipc = "validate"
  /\ icr' = [icr EXCEPT !.ready = ready]
  /\ Goto(~ready /\ Valid(read), "exist")
  /\ UNCHANGED <<config, inst, iFresh, cloud, dbSide, read, todo, listed,
                 faults, edits>>

(* Mutant: an invalid spec or configuration is not rejected.               *)
ValidateNothing ==
  /\ ipc = "validate"
  /\ icr' = [icr EXCEPT !.ready = FALSE, !.sum = read]
  /\ ipc' = "exist"
  /\ UNCHANGED <<config, inst, iFresh, cloud, dbSide, read, todo, listed,
                 faults, edits>>

(* The status in memory is reset if the checksums differ; an instance that *)
(* is not ready is validated and is about to be created.                   *)
Validate ==
  LET ready == icr.ready /\ ~IsDBInstanceChanged
      phase == IF IsDBInstanceChanged THEN "Validating" ELSE icr.phase
  IN
  /\ ipc = "validate"
  /\ Goto(~ready /\ Valid(read), "exist")
  /\ \/ /\ ready \/ ~Valid(read)
        /\ icr' = [icr EXCEPT !.ready = ready, !.phase = phase]
     \/ /\ ~ready /\ Valid(read)
        /\ icr' = [ready |-> FALSE, phase |-> "Creating", sum |-> read,
                   info |-> None]
  /\ UNCHANGED <<config, inst, iFresh, cloud, dbSide, read, todo, listed,
                 faults, edits>>

(* create reads host and port of a generic server again, from the objects  *)
(* they are kept in.                                                       *)
CreateFrom == IF FromRef /\ ~Google THEN config ELSE read

(* Then Create asks whether the instance exists.  A generic server that    *)
(* cannot be reached cannot be created either ...                          *)
ExistGeneric ==
  /\ ipc = "exist"
  /\ ~Google
  /\ read' = CreateFrom
  /\ \/ Goto(CreateFrom # None, "info") /\ UNCHANGED faults
     \/ ipc' = "exit" /\ Fault
  /\ UNCHANGED <<config, inst, iFresh, cloud, dbSide, icr, todo, listed, edits>>

(* ... and an error of Cloud SQL counts as absence.                        *)
ExistGoogle ==
  /\ ipc = "exist"
  /\ Google
  /\ \/ /\ ipc' = IF cloud.state = "absent" THEN "insert" ELSE "patch"
        /\ UNCHANGED faults
     \/ ipc' = "insert" /\ Fault
  /\ UNCHANGED <<config, inst, iFresh, cloud, dbSide, icr, read, todo, listed,
                 edits>>

(* createInstance: an instance of that name must not exist.                *)
InsertInstance ==
  /\ ipc = "insert"
  /\ \/ /\ cloud.state = "absent"
        /\ cloud' = [cloud EXCEPT !.state = "pending", !.config = read]
        /\ \/ ipc' = "waitInstance" /\ UNCHANGED faults
           \/ ipc' = "exit" /\ Fault
     \/ /\ cloud.state # "absent"
        /\ ipc' = "exit" /\ UNCHANGED <<cloud, faults>>
     \/ ipc' = "exit" /\ Fault /\ UNCHANGED cloud
  /\ UNCHANGED <<config, inst, iFresh, dbSide, icr, read, todo, listed, edits>>

(* Update: the instance is patched if it is there and RUNNABLE.            *)
PatchInstance ==
  /\ ipc = "patch"
  /\ \/ /\ cloud.state = "runnable"
        /\ cloud' = [cloud EXCEPT !.state = "pending", !.config = read]
        /\ \/ ipc' = "waitInstance" /\ UNCHANGED faults
           \/ ipc' = "exit" /\ Fault
     \/ /\ cloud.state # "runnable"
        /\ ipc' = "exit" /\ UNCHANGED <<cloud, faults>>
     \/ ipc' = "exit" /\ Fault /\ UNCHANGED cloud
  /\ UNCHANGED <<config, inst, iFresh, dbSide, icr, read, todo, listed, edits>>

(* Mutant: the caller goes on as soon as the instance runs.                *)
WaitWithoutUser ==
  /\ ipc \in {"waitInstance", "waitUser"}
  /\ cloud.state = "runnable"
  /\ ipc' = "info"
  /\ UNCHANGED <<config, inst, iFresh, cloud, dbSide, icr, read, todo, listed,
                 faults, edits>>

(* Both create and update wait for the instance, set the admin password    *)
(* and wait again.                                                         *)
AfterWait == [waitInstance |-> "updateUser", waitUser |-> "info"]

(* waitUntilRunnable: Retry gives up after ten attempts.                   *)
WaitUntilRunnable ==
  /\ ipc \in DOMAIN AfterWait
  /\ \/ /\ cloud.state = "runnable"
        /\ ipc' = AfterWait[ipc]
        /\ UNCHANGED faults
     \/ cloud.state # "runnable" /\ ipc' = "exit" /\ Fault
  /\ UNCHANGED <<config, inst, iFresh, cloud, dbSide, icr, read, todo, listed,
                 edits>>

(* updateUser sets the password of the admin user.                         *)
UpdateAdminUser ==
  /\ ipc = "updateUser"
  /\ \E ok \in BOOLEAN :
       /\ Call(ok)
       /\ Goto(ok, "waitUser")
       /\ \/ cloud' = [cloud EXCEPT !.state = "pending", !.password = read]
          \/ ~ok /\ UNCHANGED cloud
  /\ UNCHANGED <<config, inst, iFresh, dbSide, icr, read, todo, listed, edits>>

(* Mutant: the raw state of the instance is stored as the phase.           *)
FetchInfoRawPhase ==
  /\ ipc = "info"
  /\ ipc' = "list"
  /\ icr' = [icr EXCEPT !.info = InfoMap(read), !.ready = TRUE,
                        !.phase = cloud.state]
  /\ UNCHANGED <<config, inst, iFresh, cloud, dbSide, read, todo, listed,
                 faults, edits>>

(* Mutant: connection data that is there already is kept.                  *)
FetchInfoOnce ==
  /\ ipc = "info"
  /\ ipc' = "list"
  /\ icr' = [icr EXCEPT !.info = IF inst.info # None THEN inst.info
                                                    ELSE InfoMap(read),
                        !.ready = TRUE, !.phase = "Broadcasting"]
  /\ UNCHANGED <<config, inst, iFresh, cloud, dbSide, read, todo, listed,
                 faults, edits>>

(* getInfoMap; the instance counts as ready before anybody is told.        *)
FetchInfo ==
  /\ ipc = "info"
  /\ \E ok \in BOOLEAN :
       /\ Call(ok)
       /\ Goto(ok, "list")
       /\ icr' = IF ok THEN [icr EXCEPT !.info = InfoMap(read), !.ready = TRUE,
                                        !.phase = "Broadcasting"]
                       ELSE icr
  /\ UNCHANGED <<config, inst, iFresh, cloud, dbSide, read, todo, listed, edits>>

(* broadcast lists the Databases ...                                       *)
ListDatabases ==
  /\ ipc = "list"
  /\ \E ok \in BOOLEAN : Call(ok) /\ Goto(ok, "broadcast")
  /\ todo' = {d \in Databases : dbs[d].sum # "none"}
  /\ listed' = Databases
  /\ UNCHANGED <<config, inst, iFresh, cloud, dbSide, icr, read, edits>>

(* ... and blanks the annotation of one after the other; the first error,  *)
(* also because a Database has changed since, ends it.                     *)
TellDatabase(d) ==
  /\ ipc = "broadcast"
  /\ d \in todo
  /\ todo' = todo \ {d}
  /\ \/ /\ d \in listed
        /\ dbs' = [dbs EXCEPT ![d].sum = "blank"]
        /\ placeOk' = (placeOk /\ (placing # d \/ dbs[d].sum = "blank"))
        /\ UNCHANGED <<ipc, faults>>
     \/ d \notin listed /\ ipc' = "exit" /\ UNCHANGED <<dbs, placeOk, faults>>
     \/ ipc' = "exit" /\ Fault /\ UNCHANGED <<dbs, placeOk>>
  /\ UNCHANGED <<config, inst, iFresh, cloud, placing, icr, read, listed, edits>>

BroadcastDone ==
  /\ ipc = "broadcast"
  /\ todo = {}
  /\ ipc' = "proxy"
  /\ icr' = [icr EXCEPT !.phase = "ProxyCreating"]
  /\ UNCHANGED <<config, inst, iFresh, cloud, dbSide, read, todo, listed,
                 faults, edits>>

(* createProxy; a generic server has no proxy.                             *)
CreateProxy ==
  /\ ipc = "proxy"
  /\ \/ icr' = [icr EXCEPT !.phase = "Running"] /\ UNCHANGED faults
     \/ Google /\ Fault /\ UNCHANGED icr
  /\ ipc' = "exit"
  /\ UNCHANGED <<config, inst, iFresh, cloud, dbSide, read, todo, listed, edits>>

InstanceDone ==
  /\ ipc' = "idle"
  /\ icr' = NoStatus
  /\ read' = None
  /\ todo' = {}
  /\ listed' = {}

(* Every return runs the deferred Status().Update; its error is logged.    *)
UpdateStatus ==
  /\ ipc = "exit"
  /\ \/ inst' = (IF iFresh THEN icr ELSE inst) /\ UNCHANGED faults
     \/ inst' = inst /\ Fault
  /\ InstanceDone
  /\ UNCHANGED <<config, iFresh, cloud, dbSide, edits>>

InstanceStep ==
  \/ FetchInstanceData \/ LabelReferenced \/ Validate
  \/ ExistGeneric \/ ExistGoogle \/ InsertInstance \/ PatchInstance
  \/ WaitUntilRunnable \/ UpdateAdminUser \/ FetchInfo \/ ListDatabases
  \/ \E d \in Databases : TellDatabase(d)
  \/ BroadcastDone \/ CreateProxy \/ UpdateStatus

-----------------------------------------------------------------------------
(* What a Database reconcile has to do with the instance *)

(* Mutant: no health check, only the annotation.                           *)
FullReconcileByChecksum(d) == ~CheckChanges \/ dbs[d].sum # "current"

(* isFullReconcile, after the health check on the server of Status.Info.   *)
FullReconcile(d) ==
  \/ ~CheckChanges
  \/ inst.info \notin dbs[d].servers
  \/ dbs[d].sum # "current"

(* createDatabase works on the server Status.Info names.  Only a Database  *)
(* without an engine asks for Status.Status.                               *)
PlaceDatabase(d) ==
  /\ placing = None
  /\ inst.info # None
  /\ dbs[d].engine \/ inst.ready
  /\ FullReconcile(d)
  /\ \/ /\ dbs' = [dbs EXCEPT ![d].engine = TRUE,
                              ![d].servers = @ \cup {inst.info}]
        /\ placing' = d
        /\ placeOk' = TRUE
        /\ UNCHANGED faults
     \/ /\ dbs' = [dbs EXCEPT ![d].engine = TRUE]
        /\ Fault
        /\ UNCHANGED <<placing, placeOk>>
  /\ listed' = IF dbs[d].engine THEN listed ELSE listed \ {d}
  /\ UNCHANGED <<config, inst, iFresh, cloud, ipc, icr, read, todo, edits>>

(* Then the checksum is recorded, unless the Database was changed.         *)
RecordChecksum ==
  /\ placing # None
  /\ placing' = None
  /\ placeOk' = FALSE
  /\ \/ /\ placeOk
        /\ dbs' = [dbs EXCEPT ![placing].sum = "current"]
        /\ listed' = IF dbs[placing].sum = "current" THEN listed
                                                    ELSE listed \ {placing}
        /\ UNCHANGED faults
     \/ ~placeOk /\ UNCHANGED <<dbs, listed, faults>>
     \/ Fault /\ UNCHANGED <<dbs, listed>>
  /\ UNCHANGED <<config, inst, iFresh, cloud, ipc, icr, read, todo, edits>>

-----------------------------------------------------------------------------
(* The environment *)

(* A change of the spec makes the working copy outdated; a change of a     *)
(* referenced object does not.  Engine and backend type are in the spec.   *)
EditConfig(c) ==
  /\ edits < MaxEdits
  /\ edits' = edits + 1
  /\ c # config
  /\ c = None => FromRef
  /\ config' = c
  /\ iFresh' = (iFresh /\ FromRef /\ {c, config} \cap Invalid = {})
  /\ UNCHANGED <<inst, cloud, dbSide, instVars, faults>>

(* Any other write of a Database, its status included: copies of it become *)
(* outdated.                                                               *)
TouchDatabase(d) ==
  /\ edits < MaxEdits
  /\ edits' = edits + 1
  /\ listed' = listed \ {d}
  /\ placeOk' = (placeOk /\ placing # d)
  /\ <<listed', placeOk'>> # <<listed, placeOk>>
  /\ UNCHANGED <<config, inst, iFresh, cloud, dbs, placing, ipc, icr, read,
                 todo, faults>>

(* The Cloud SQL instance becomes RUNNABLE.                                *)
CloudReady ==
  /\ cloud.state = "pending"
  /\ cloud' = [cloud EXCEPT !.state = "runnable"]
  /\ UNCHANGED <<config, inst, iFresh, dbSide, instVars, faults, edits>>

Restart ==
  /\ ipc # "idle" \/ placing # None
  /\ Fault
  /\ InstanceDone
  /\ placing' = None
  /\ placeOk' = FALSE
  /\ UNCHANGED <<config, inst, iFresh, cloud, dbs, edits>>

-----------------------------------------------------------------------------

Init ==
  /\ config \in Configs
  /\ inst = NoStatus
  /\ iFresh = FALSE
  /\ \E b \in Backends :
       cloud = [state |-> IF b = "google" THEN "absent" ELSE "external",
                config |-> None, password |-> None]
  /\ dbs = [d \in Databases |-> [sum |-> "none", engine |-> FALSE, servers |-> {}]]
  /\ ipc = "idle" /\ icr = NoStatus /\ read = None
  /\ todo = {} /\ listed = {}
  /\ placing = None /\ placeOk = FALSE
  /\ faults = 0 /\ edits = 0

Next ==
  \/ InstanceStep
  \/ \E d \in Databases : PlaceDatabase(d)
  \/ RecordChecksum
  \/ \E c \in Configs \cup {None} : EditConfig(c)
  \/ \E d \in Databases : TouchDatabase(d)
  \/ CloudReady
  \/ Restart

(* A reconcile goes on, every exit requeues, the Databases take turns, and *)
(* Cloud SQL finishes what it has started.                                 *)
Fairness ==
  /\ WF_vars(InstanceStep)
  /\ WF_vars(RecordChecksum)
  /\ \A d \in Databases : SF_vars(PlaceDatabase(d))
  /\ WF_vars(CloudReady)

Spec == Init /\ [][Next]_vars

FairSpec == Spec /\ Fairness

-----------------------------------------------------------------------------

(* Status, configuration and working copies have their types: no phase but *)
(* the five of the code is ever stored.                                    *)
InstanceTypeOK ==
  /\ config \in Configs \cup {None}
  /\ inst \in Status
  /\ icr \in Status
  /\ read \in Configs \cup {None}
  /\ todo \in SUBSET Databases
  /\ listed \in SUBSET Databases
  /\ placing \in Databases \cup {None}
  /\ iFresh \in BOOLEAN /\ placeOk \in BOOLEAN

(* An instance that is stored as ready can be worked with: its connection  *)
(* data is there, and a Cloud SQL instance exists with the admin password  *)
(* set, however often its creation timed out or was interrupted.           *)
ReadyInstanceIsProvisioned ==
  inst.ready =>
    /\ inst.info # None
    /\ inst.sum \notin Invalid \cup {None}
    /\ Google => cloud.state # "absent" /\ cloud.password # None

(* No Database is set up on a server whose configuration was rejected, and *)
(* one that carries a checksum is on some server.                          *)
DatabasesOnAcceptedServers ==
  \A d \in Databases :
    /\ dbs[d].servers \cap Invalid = {}
    /\ dbs[d].sum # "none" => dbs[d].servers # {}

(* Once the configuration stays valid, the instance ends up ready, with    *)
(* the checksums of that configuration, after any failed creation and      *)
(* without anybody touching it: Reconcile returns a RequeueAfter although  *)
(* the comment beside it (dbinstance_controller.go:146) says otherwise.    *)
(* What Status.Info holds then is the subject of InfoFollowsConfig.        *)
InstanceSettles ==
  <>[](config \notin Invalid \cup {None} => inst.ready /\ inst.sum = config)

(* A valid configuration whose checksums are not the recorded ones when a  *)
(* reconcile is about to start ends up in Status.Info of a ready instance, *)
(* unless it is changed again.  A configuration that was changed and put   *)
(* back while one reconcile ran has its checksums recorded, but may leave  *)
(* the host of the other one, which create read in between.                *)
InfoFollowsConfig ==
  \A c \in Configs \ Invalid :
    config = c /\ ipc = "idle" /\ inst.sum # c
      ~> config # c \/ (inst.ready /\ inst.sum = c /\ inst.info = InfoMap(c))

(* When an instance moves to another server, every Database follows, with  *)
(* --check-for-changes too and even if the broadcast failed.               *)
DatabasesFollow ==
  <>[](inst.ready => \A d \in Databases : inst.info \in dbs[d].servers)

(* An instance that stays ready is in phase Running.                       *)
InstanceRuns == <>[](inst.ready => inst.phase = "Running")
=============================================================================
