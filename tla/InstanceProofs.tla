--------------------------- MODULE InstanceProofs ---------------------------
(***************************************************************************)
(* A DbInstance that is stored as ready is provisioned, and no Database is *)
(* set up on a rejected server (module InstanceController), for any number *)
(* of Databases, configurations, edits, failures and restarts, for both    *)
(* backends and with or without --check-for-changes.                       *)
(***************************************************************************)
EXTENDS InstanceController, TLAPS

Steps ==
  {"idle", "label", "validate", "exist", "insert", "patch", "waitInstance",
   "updateUser", "waitUser", "info", "list", "broadcast", "proxy", "exit"}

Cloud ==
  [state: {"external", "absent", "pending", "runnable"},
   config: Configs \cup {None}, password: Configs \cup {None}]

DbState ==
  [sum: {"none", "blank", "current"}, engine: BOOLEAN, servers: SUBSET Infos]

(* The types of the rest of the state.                                     *)
FullTypeOK ==
  /\ InstanceTypeOK
  /\ cloud \in Cloud
  /\ dbs \in [Databases -> DbState]
  /\ ipc \in Steps

(* A status that says ready, in memory or stored, is backed.               *)
Provisioned(s) ==
  s.ready =>
    /\ s.info # None
    /\ s.sum \notin Invalid \cup {None}
    /\ Google => cloud.state # "absent" /\ cloud.password # None

(* The steps on the way to the connection data, and those after it.        *)
CloudSteps == {"waitInstance", "updateUser", "waitUser"}

CreateSteps == {"exist", "insert", "patch", "info"} \cup CloudSteps

TellSteps == {"list", "broadcast", "proxy"}

(* While the working copy is current, the configuration has not passed     *)
(* between valid and invalid, although referenced data may have changed;   *)
(* only then is a status stored.                                           *)
ReadInv ==
  /\ ipc \notin {"idle", "exit"} => read # None
  /\ ipc \notin {"idle", "exit"} /\ iFresh =>
       (read \in Invalid <=> config \in Invalid)
  /\ ipc \in CreateSteps => icr.sum \notin Invalid \cup {None}
  /\ ipc \in CreateSteps /\ iFresh => read \notin Invalid

(* What has been done in Cloud SQL by each step.                           *)
CloudInv ==
  /\ ipc \in CloudSteps \cup {"insert", "patch"} => Google
  /\ ipc \in CloudSteps => cloud.state # "absent"
  /\ ipc \in {"waitUser", "info"} \cup TellSteps /\ Google =>
       cloud.state # "absent" /\ cloud.password # None

(* No status that is or may be stored names a rejected server.             *)
ServerInv ==
  /\ inst.info \notin Invalid
  /\ iFresh /\ ipc # "idle" => icr.info \notin Invalid

(* A Database that is told, or whose checksum is about to be recorded, is  *)
(* on some server.                                                         *)
DatabaseInv ==
  /\ \A d \in todo : dbs[d].sum # "none"
  /\ placing # None => dbs[placing].servers # {}

InstanceInv ==
  /\ Provisioned(inst)
  /\ Provisioned(icr)
  /\ ReadInv
  /\ CloudInv
  /\ ServerInv
  /\ DatabaseInv
  /\ DatabasesOnAcceptedServers

-----------------------------------------------------------------------------
(* Types *)

(* What the constants are not.                                             *)
LEMMA ConstantFacts ==
  /\ None \notin Configs /\ None \notin Databases /\ None \notin Invalid
  /\ GoogleConn # None /\ GoogleConn \notin Invalid /\ Invalid \subseteq Configs
  /\ None \notin Infos
BY InstanceAssumption DEF Infos

(* The empty status.                                                       *)
LEMMA NoStatusFields ==
  /\ NoStatus \in Status /\ NoStatus.ready = FALSE /\ NoStatus.info = None
  /\ NoStatus.sum = None
BY DEF NoStatus, Status, Phases

(* Where the two waits go on.                                              *)
LEMMA AfterWaitSteps ==
  ASSUME ipc \in DOMAIN AfterWait
  PROVE  \/ ipc = "waitInstance" /\ AfterWait[ipc] = "updateUser"
         \/ ipc = "waitUser" /\ AfterWait[ipc] = "info"
BY DEF AfterWait

(* The end of a reconcile has the types.                                   *)
LEMMA DoneType ==
  ASSUME InstanceDone
  PROVE  /\ ipc' \in Steps /\ icr' \in Status /\ read' \in Configs \cup {None}
         /\ todo' \in SUBSET Databases /\ listed' \in SUBSET Databases
BY NoStatusFields DEF InstanceDone, Steps

(* Validate leaves, with a status that is ready only if it was, or goes on *)
(* with a new one.                                                         *)
LEMMA ValidateCases ==
  ASSUME FullTypeOK, Validate
  PROVE  \/ /\ ipc' = "exit"
            /\ \E r \in BOOLEAN, p \in Phases :
                 /\ r => icr.ready
                 /\ icr' = [icr EXCEPT !.ready = r, !.phase = p]
         \/ /\ ipc' = "exist"
            /\ read \notin Invalid
            /\ icr' = [ready |-> FALSE, phase |-> "Creating", sum |-> read,
                       info |-> None]
<1> DEFINE ready == icr.ready /\ ~IsDBInstanceChanged
           phase == IF IsDBInstanceChanged THEN "Validating" ELSE icr.phase
<1>1. ready \in BOOLEAN /\ (ready => icr.ready)
  BY Zenon DEF FullTypeOK, InstanceTypeOK, Status
<1>2. icr.phase \in Phases /\ "Validating" \in Phases
  BY DEF FullTypeOK, InstanceTypeOK, Status, Phases
<1>3. phase \in Phases
  BY <1>2
<1>4. /\ ipc' = IF ~ready /\ Valid(read) THEN "exist" ELSE "exit"
      /\ \/ /\ ready \/ ~Valid(read)
            /\ icr' = [icr EXCEPT !.ready = ready, !.phase = phase]
         \/ /\ ~ready /\ Valid(read)
            /\ icr' = [ready |-> FALSE, phase |-> "Creating", sum |-> read,
                       info |-> None]
  BY DEF Validate, Goto
<1> HIDE DEF ready, phase
<1>5. CASE ready \/ ~Valid(read)
  BY <1>1, <1>3, <1>4, <1>5
<1>6. CASE ~ready /\ Valid(read)
  BY <1>4, <1>6 DEF Valid
<1>7. QED
  BY <1>5, <1>6

(* A Database that is given a server keeps its checksum.                   *)
LEMMA WithServer ==
  ASSUME NEW r \in DbState, NEW i \in Infos
  PROVE  LET q == [[r EXCEPT !.engine = TRUE] EXCEPT !.servers = @ \cup {i}]
         IN  /\ q \in DbState
             /\ q.sum = r.sum
             /\ q.servers = r.servers \cup {i}
BY DEF DbState

LEMMA WithEngine ==
  ASSUME NEW r \in DbState
  PROVE  LET q == [r EXCEPT !.engine = TRUE]
         IN  /\ q \in DbState
             /\ q.sum = r.sum
             /\ q.servers = r.servers
BY DEF DbState

(* What a full reconcile of d does to the Databases.                       *)
LEMMA PlaceEffect ==
  ASSUME FullTypeOK, NEW d \in Databases, PlaceDatabase(d)
  PROVE  /\ dbs' \in [Databases -> DbState]
         /\ \A e \in Databases : dbs'[e].sum = dbs[e].sum
         /\ \A e \in Databases \ {d} : dbs'[e] = dbs[e]
         /\ dbs'[d].servers \in {dbs[d].servers,
                                 dbs[d].servers \cup {inst.info}}
         /\ placing' # None => placing' = d /\ inst.info \in dbs'[d].servers
<1>1. dbs \in [Databases -> DbState] /\ dbs[d] \in DbState
  BY DEF FullTypeOK
<1>2. inst.info \in Infos
  BY DEF PlaceDatabase, FullTypeOK, InstanceTypeOK, Status
<1>3. CASE /\ dbs' = [dbs EXCEPT ![d].engine = TRUE,
                                 ![d].servers = @ \cup {inst.info}]
           /\ placing' = d
  <2> DEFINE q == [[dbs[d] EXCEPT !.engine = TRUE]
                     EXCEPT !.servers = @ \cup {inst.info}]
  <2>1. /\ q \in DbState
        /\ q.sum = dbs[d].sum
        /\ q.servers = dbs[d].servers \cup {inst.info}
    BY <1>1, <1>2, WithServer
  <2>2. dbs' = [dbs EXCEPT ![d] = q]
    BY <1>1, <1>3
  <2> HIDE DEF q
  <2>3. QED
    BY <1>1, <1>3, <2>1, <2>2
<1>4. CASE dbs' = [dbs EXCEPT ![d].engine = TRUE] /\ placing' = None
  <2> DEFINE q == [dbs[d] EXCEPT !.engine = TRUE]
  <2>1. q \in DbState /\ q.sum = dbs[d].sum /\ q.servers = dbs[d].servers
    BY <1>1, WithEngine
  <2>2. dbs' = [dbs EXCEPT ![d] = q]
    BY <1>4
  <2> HIDE DEF q
  <2>3. QED
    BY <1>1, <1>4, <2>1, <2>2
<1>5. QED
  BY <1>3, <1>4 DEF PlaceDatabase

(* The initial states have the types.                                      *)
LEMMA InitType == Init => FullTypeOK
<1> SUFFICES ASSUME Init PROVE FullTypeOK
  OBVIOUS
<1>1. cloud \in Cloud
  BY DEF Init, Cloud
<1>2. dbs \in [Databases -> DbState]
  BY DEF Init, DbState
<1>3. InstanceTypeOK
  BY NoStatusFields DEF Init, InstanceTypeOK
<1>4. QED
  BY <1>1, <1>2, <1>3 DEF Init, FullTypeOK, Steps

(* Steps of the reconciler that change no status.                          *)
LEMMA WalkType ==
  ASSUME FullTypeOK,
         \/ FetchInstanceData \/ LabelReferenced \/ ExistGeneric \/ ExistGoogle
         \/ WaitUntilRunnable \/ ListDatabases \/ UpdateStatus
  PROVE  FullTypeOK'
<1> USE DEF FullTypeOK, InstanceTypeOK, dbSide, Goto
<1>1. CASE FetchInstanceData
  BY <1>1 DEF FetchInstanceData, Steps
<1>2. CASE LabelReferenced
  BY <1>2 DEF LabelReferenced, Steps
<1>3. CASE ExistGeneric
  BY <1>3 DEF ExistGeneric, CreateFrom, Steps
<1>4. CASE ExistGoogle
  BY <1>4 DEF ExistGoogle, Steps
<1>5. CASE WaitUntilRunnable
  BY <1>5, AfterWaitSteps DEF WaitUntilRunnable, Steps
<1>6. CASE ListDatabases
  BY <1>6 DEF ListDatabases, Steps
<1>7. CASE UpdateStatus
  BY <1>7, DoneType DEF UpdateStatus
<1>8. QED
  BY <1>1, <1>2, <1>3, <1>4, <1>5, <1>6, <1>7

(* Steps of the reconciler that change the status in memory.               *)
LEMMA StatusType ==
  ASSUME FullTypeOK, Validate \/ FetchInfo \/ BroadcastDone \/ CreateProxy
  PROVE  FullTypeOK'
<1> USE DEF FullTypeOK, InstanceTypeOK, dbSide, Goto
<1>1. CASE Validate
  <2>1. icr' \in Status
    <3>1. ASSUME NEW r \in BOOLEAN, NEW p \in Phases
          PROVE  [icr EXCEPT !.ready = r, !.phase = p] \in Status
      BY DEF Status
    <3>2. [ready |-> FALSE, phase |-> "Creating", sum |-> read, info |-> None]
            \in Status
      BY DEF Status, Phases
    <3>3. QED
      BY <1>1, <3>1, <3>2, ValidateCases, Zenon
  <2>2. ipc' \in Steps
    BY <1>1, ValidateCases DEF Steps
  <2>3. QED
    BY <1>1, <2>1, <2>2 DEF Validate
<1>2. CASE FetchInfo
  <2>1. read # None => InfoMap(read) \in Infos
    BY DEF InfoMap, Infos
  <2>2. InfoMap(read) \in Infos \cup {None}
    BY DEF InfoMap, Infos
  <2>3. icr' \in Status
    BY <1>2, <2>2 DEF FetchInfo, Status, Phases
  <2>4. QED
    BY <1>2, <2>3 DEF FetchInfo, Steps
<1>3. CASE BroadcastDone
  <2>1. icr' \in Status
    BY <1>3 DEF BroadcastDone, Status, Phases
  <2>2. QED
    BY <1>3, <2>1 DEF BroadcastDone, Steps
<1>4. CASE CreateProxy
  <2>1. icr' \in Status
    BY <1>4 DEF CreateProxy, Status, Phases
  <2>2. QED
    BY <1>4, <2>1 DEF CreateProxy, Steps
<1>5. QED
  BY <1>1, <1>2, <1>3, <1>4

(* Steps that change the Cloud SQL instance.                               *)
LEMMA CloudType ==
  ASSUME FullTypeOK,
         InsertInstance \/ PatchInstance \/ UpdateAdminUser \/ CloudReady
  PROVE  FullTypeOK'
<1> USE DEF FullTypeOK, InstanceTypeOK, dbSide, Goto
<1>1. cloud' \in Cloud
  BY DEF InsertInstance, PatchInstance, UpdateAdminUser, CloudReady, Cloud
<1>2. ipc' \in Steps
  BY DEF InsertInstance, PatchInstance, UpdateAdminUser, CloudReady, instVars,
     Steps
<1>3. QED
  BY <1>1, <1>2 DEF InsertInstance, PatchInstance, UpdateAdminUser, CloudReady,
     instVars

(* Steps that change a Database.                                           *)
LEMMA DatabaseType ==
  ASSUME FullTypeOK,
         \/ \E d \in Databases : \/ TellDatabase(d) \/ PlaceDatabase(d)
                                \/ TouchDatabase(d)
         \/ RecordChecksum
  PROVE  FullTypeOK'
<1> USE DEF FullTypeOK, InstanceTypeOK
<1>1. ASSUME NEW d \in Databases, TellDatabase(d) PROVE FullTypeOK'
  <2>1. dbs' \in [Databases -> DbState]
    BY <1>1 DEF TellDatabase, DbState
  <2>2. placeOk' \in BOOLEAN
    BY <1>1 DEF TellDatabase
  <2>3. QED
    BY <1>1, <2>1, <2>2 DEF TellDatabase, Steps
<1>2. ASSUME NEW d \in Databases, PlaceDatabase(d) PROVE FullTypeOK'
  <2>1. inst.info \in Infos
    BY <1>2 DEF PlaceDatabase, Status
  <2>2. dbs' \in [Databases -> DbState]
    BY <1>2, PlaceEffect
  <2>3. listed' \in SUBSET Databases /\ placing' \in Databases \cup {None}
        /\ placeOk' \in BOOLEAN
    BY <1>2 DEF PlaceDatabase
  <2>4. QED
    BY <1>2, <2>2, <2>3 DEF PlaceDatabase
<1>3. ASSUME NEW d \in Databases, TouchDatabase(d) PROVE FullTypeOK'
  <2>1. placeOk' \in BOOLEAN
    BY <1>3 DEF TouchDatabase
  <2>2. QED
    BY <1>3, <2>1 DEF TouchDatabase
<1>4. CASE RecordChecksum
  <2>1. placing \in Databases
    BY <1>4 DEF RecordChecksum
  <2>2. dbs' \in [Databases -> DbState]
    BY <1>4, <2>1 DEF RecordChecksum, DbState
  <2>3. listed' \in SUBSET Databases
    BY <1>4 DEF RecordChecksum
  <2>4. QED
    BY <1>4, <2>2, <2>3 DEF RecordChecksum
<1>5. QED
  BY <1>1, <1>2, <1>3, <1>4

(* Every step keeps the types.                                             *)
LEMMA NextType == FullTypeOK /\ [Next]_vars => FullTypeOK'
<1> SUFFICES ASSUME FullTypeOK, [Next]_vars PROVE FullTypeOK'
  OBVIOUS
<1>1. ASSUME NEW c \in Configs \cup {None}, EditConfig(c) PROVE FullTypeOK'
  <2>1. iFresh' \in BOOLEAN
    BY <1>1, InstanceAssumption DEF EditConfig, FullTypeOK, InstanceTypeOK
  <2>2. QED
    BY <1>1, <2>1 DEF EditConfig, FullTypeOK, InstanceTypeOK, dbSide, instVars
<1>2. CASE Restart
  BY <1>2, DoneType DEF Restart, FullTypeOK, InstanceTypeOK
<1>3. CASE UNCHANGED vars
  BY <1>3 DEF vars, dbSide, instVars, FullTypeOK, InstanceTypeOK
<1>4. QED
  BY <1>1, <1>2, <1>3, WalkType, StatusType, CloudType, DatabaseType
     DEF Next, InstanceStep

(* The types hold in every reachable state.                                *)
LEMMA FullTypeCorrect == Spec => []FullTypeOK
BY InitType, NextType, PTL DEF Spec

(* Status, configuration and working copies keep their types: no phase but *)
(* the five of the code is ever stored.                                    *)
THEOREM InstanceTypeCorrect == Spec => []InstanceTypeOK
<1>1. FullTypeOK => InstanceTypeOK
  BY DEF FullTypeOK
<1>2. QED
  BY <1>1, FullTypeCorrect, PTL

-----------------------------------------------------------------------------
(* The inductive invariant *)

(* The part of the invariant that speaks of the DbInstance.                *)
CoreInv ==
  Provisioned(inst) /\ Provisioned(icr) /\ ReadInv /\ CloudInv /\ ServerInv

(* Nothing is stored or being worked on at first.                          *)
LEMMA InitInv == Init => InstanceInv
<1> SUFFICES ASSUME Init PROVE InstanceInv
  OBVIOUS
<1>1. Provisioned(inst) /\ Provisioned(icr)
  BY NoStatusFields DEF Init, Provisioned
<1>2. ReadInv /\ CloudInv /\ ServerInv
  BY NoStatusFields, ConstantFacts
     DEF Init, ReadInv, CloudInv, ServerInv, CreateSteps, CloudSteps, TellSteps
<1>3. DatabaseInv /\ DatabasesOnAcceptedServers
  BY DEF Init, DatabaseInv, DatabasesOnAcceptedServers
<1>4. QED
  BY <1>1, <1>2, <1>3 DEF InstanceInv

(* The end of a reconcile: what is in memory is gone.                      *)
LEMMA DoneInv ==
  ASSUME CoreInv, InstanceDone, UNCHANGED <<config, cloud>>,
         Provisioned(inst)', inst'.info \notin Invalid
  PROVE  CoreInv'
<1>1. Provisioned(icr)'
  BY NoStatusFields DEF InstanceDone, Provisioned
<1>2. ReadInv' /\ CloudInv' /\ ServerInv'
  BY DEF InstanceDone, ReadInv, CloudInv, ServerInv, CreateSteps, CloudSteps,
     TellSteps
<1>3. QED
  BY <1>1, <1>2 DEF CoreInv

(* Steps of the reconciler that change neither a status nor Cloud SQL.     *)
LEMMA WalkInv ==
  ASSUME FullTypeOK, CoreInv,
         \/ LabelReferenced \/ ExistGeneric \/ ExistGoogle
         \/ WaitUntilRunnable \/ ListDatabases
  PROVE  CoreInv'
<1>1. Provisioned(inst)' /\ Provisioned(icr)'
  BY DEF CoreInv, Provisioned, Google, LabelReferenced, ExistGeneric,
     ExistGoogle, WaitUntilRunnable, ListDatabases
<1>2. ServerInv'
  BY AfterWaitSteps DEF CoreInv, ServerInv, LabelReferenced, ExistGeneric,
     ExistGoogle, WaitUntilRunnable, ListDatabases
<1>3. CASE LabelReferenced
  BY <1>1, <1>2, <1>3
     DEF CoreInv, LabelReferenced, ReadInv, CloudInv, CreateSteps, CloudSteps,
     TellSteps, Google
<1>4. CASE ExistGeneric
  BY <1>1, <1>2, <1>4
     DEF CoreInv, ExistGeneric, CreateFrom, Goto, ReadInv, CloudInv,
     CreateSteps, CloudSteps, TellSteps, Google
<1>5. CASE ExistGoogle
  BY <1>1, <1>2, <1>5
     DEF CoreInv, ExistGoogle, ReadInv, CloudInv, CreateSteps, CloudSteps,
     TellSteps, Google
<1>6. CASE WaitUntilRunnable
  BY <1>1, <1>2, <1>6, AfterWaitSteps
     DEF CoreInv, WaitUntilRunnable, ReadInv, CloudInv, CreateSteps,
     CloudSteps, TellSteps, Google
<1>7. CASE ListDatabases
  BY <1>1, <1>2, <1>7
     DEF CoreInv, ListDatabases, Goto, ReadInv, CloudInv, CreateSteps,
     CloudSteps, TellSteps, Google
<1>8. QED
  BY <1>3, <1>4, <1>5, <1>6, <1>7

(* Cloud SQL forgets neither an instance nor a password.                   *)
CloudKept ==
  /\ Google' = Google
  /\ cloud.state # "absent" => cloud'.state # "absent"
  /\ cloud.password # None => cloud'.password # None

LEMMA CloudStepInv ==
  ASSUME FullTypeOK, CoreInv,
         InsertInstance \/ PatchInstance \/ UpdateAdminUser \/ CloudReady
  PROVE  CoreInv'
<1>1. ipc = "updateUser" => read # None
  BY DEF CoreInv, ReadInv
<1>2. CloudKept
  <2>1. cloud \in Cloud /\ (cloud.state # "external" \/ ipc # "updateUser")
    BY DEF FullTypeOK, CoreInv, CloudInv, CloudSteps, Google
  <2>2. QED
    BY <1>1, <2>1 DEF CloudKept, InsertInstance, PatchInstance,
       UpdateAdminUser, CloudReady, Google, Cloud, CoreInv, CloudInv
<1>3. Provisioned(inst)' /\ Provisioned(icr)'
  BY <1>2 DEF CloudKept, CoreInv, Provisioned, InsertInstance, PatchInstance,
     UpdateAdminUser, CloudReady, instVars
<1>4. ServerInv'
  BY DEF CoreInv, ServerInv, InsertInstance, PatchInstance, UpdateAdminUser,
     CloudReady, instVars
<1>5. ReadInv'
  BY DEF CoreInv, ReadInv, InsertInstance, PatchInstance, UpdateAdminUser,
     CloudReady, instVars, Goto, CreateSteps, CloudSteps
<1>6. CloudInv'
  <2>1. CASE InsertInstance \/ PatchInstance
    BY <1>2, <2>1 DEF CloudKept, CoreInv, CloudInv, InsertInstance,
       PatchInstance, CloudSteps, TellSteps, FullTypeOK, Cloud
  <2>2. CASE UpdateAdminUser
    BY <1>1, <1>2, <2>2 DEF CloudKept, CoreInv, CloudInv, UpdateAdminUser,
       Goto, CloudSteps, TellSteps, FullTypeOK, Cloud
  <2>3. CASE CloudReady
    BY <1>2, <2>3 DEF CloudKept, CoreInv, CloudInv, CloudReady, instVars
  <2>4. QED
    BY <2>1, <2>2, <2>3
<1>7. QED
  BY <1>3, <1>4, <1>5, <1>6 DEF CoreInv

(* Steps that change the status in memory.                                 *)
LEMMA StatusInv ==
  ASSUME FullTypeOK, CoreInv,
         \/ FetchInstanceData \/ Validate \/ FetchInfo
         \/ BroadcastDone \/ CreateProxy
  PROVE  CoreInv'
<1> USE DEF CoreInv
<1>1. CASE FetchInstanceData
  <2>1. Provisioned(inst)' /\ Provisioned(icr)' /\ ServerInv'
    BY <1>1 DEF FetchInstanceData, Provisioned, Google, ServerInv
  <2>2. ReadInv' /\ CloudInv'
    BY <1>1 DEF FetchInstanceData, ReadInv, CloudInv, Goto, CreateSteps,
       CloudSteps, TellSteps
  <2>3. QED
    BY <2>1, <2>2
<1>2. CASE Validate
  <2>1. /\ UNCHANGED <<config, inst, iFresh, cloud, read>>
        /\ ipc = "validate" /\ ipc' \in {"exist", "exit"}
    BY <1>2, ValidateCases DEF Validate
  <2>2. /\ icr'.ready => icr.ready /\ icr'.sum = icr.sum
                          /\ icr'.info = icr.info
        /\ icr'.info \in {icr.info, None}
        /\ ipc' = "exist" => icr'.sum = read /\ read \notin Invalid
    <3>1. ASSUME NEW r \in BOOLEAN, NEW p \in Phases
          PROVE  LET s == [icr EXCEPT !.ready = r, !.phase = p]
                 IN  s.ready = r /\ s.info = icr.info /\ s.sum = icr.sum
      BY DEF FullTypeOK, InstanceTypeOK, Status
    <3>2. CASE /\ ipc' = "exit"
               /\ \E r \in BOOLEAN, p \in Phases :
                    /\ r => icr.ready
                    /\ icr' = [icr EXCEPT !.ready = r, !.phase = p]
      BY <3>1, <3>2
    <3>3. CASE /\ ipc' = "exist"
               /\ read \notin Invalid
               /\ icr' = [ready |-> FALSE, phase |-> "Creating", sum |-> read,
                          info |-> None]
      BY <3>3
    <3>4. QED
      BY <1>2, <3>2, <3>3, ValidateCases
  <2>3. Provisioned(inst)' /\ Provisioned(icr)'
    BY <2>1, <2>2 DEF Provisioned, Google
  <2>4. ServerInv'
    BY <2>1, <2>2, ConstantFacts DEF ServerInv
  <2>5. ReadInv' /\ CloudInv'
    BY <2>1, <2>2 DEF ReadInv, CloudInv, CreateSteps, CloudSteps, TellSteps
  <2>6. QED
    BY <2>3, <2>4, <2>5
<1>3. CASE FetchInfo
  <2>1. /\ UNCHANGED <<config, inst, iFresh, cloud, read>>
        /\ ipc = "info" /\ ipc' \in {"list", "exit"}
    BY <1>3 DEF FetchInfo, Goto
  <2>2. /\ icr' # icr => icr'.info = InfoMap(read) /\ icr'.sum = icr.sum
    BY <1>3 DEF FetchInfo, FullTypeOK, InstanceTypeOK, Status
  <2>3. InfoMap(read) # None /\ (iFresh => InfoMap(read) \notin Invalid)
    BY <2>1, ConstantFacts DEF InfoMap, ReadInv, CreateSteps
  <2>4. Provisioned(inst)' /\ Provisioned(icr)'
    BY <2>1, <2>2, <2>3
       DEF Provisioned, Google, ReadInv, CloudInv, CreateSteps, TellSteps
  <2>5. ServerInv'
    BY <2>1, <2>2, <2>3 DEF ServerInv
  <2>6. ReadInv' /\ CloudInv'
    BY <2>1 DEF ReadInv, CloudInv, CreateSteps, CloudSteps, TellSteps, Google
  <2>7. QED
    BY <2>4, <2>5, <2>6
<1>4. CASE BroadcastDone \/ CreateProxy
  <2>1. /\ UNCHANGED <<config, inst, iFresh, cloud, read>>
        /\ ipc \in TellSteps /\ ipc' \in {"proxy", "exit"}
    BY <1>4 DEF BroadcastDone, CreateProxy, TellSteps
  <2>2. icr'.ready = icr.ready /\ icr'.info = icr.info /\ icr'.sum = icr.sum
    BY <1>4 DEF BroadcastDone, CreateProxy, FullTypeOK, InstanceTypeOK, Status
  <2>3. Provisioned(inst)' /\ Provisioned(icr)'
    BY <2>1, <2>2 DEF Provisioned, Google
  <2>4. ServerInv'
    BY <2>1, <2>2 DEF ServerInv, TellSteps
  <2>5. ReadInv' /\ CloudInv'
    BY <2>1 DEF ReadInv, CloudInv, CreateSteps, CloudSteps, TellSteps, Google
  <2>6. QED
    BY <2>3, <2>4, <2>5
<1>5. QED
  BY <1>1, <1>2, <1>3, <1>4

(* The DbInstance's part is kept by every step.                            *)
LEMMA CoreStep ==
  ASSUME FullTypeOK, CoreInv, [Next]_vars
  PROVE  CoreInv'
<1>1. ASSUME UNCHANGED <<config, inst, iFresh, cloud, icr, read>>,
             \/ ipc' = ipc
             \/ ipc \in TellSteps /\ ipc' = "exit"
      PROVE  CoreInv'
  <2>1. Provisioned(inst)' /\ Provisioned(icr)'
    BY <1>1 DEF CoreInv, Provisioned, Google
  <2>2. ReadInv' /\ CloudInv' /\ ServerInv'
    BY <1>1 DEF CoreInv, ReadInv, CloudInv, ServerInv, CreateSteps, CloudSteps,
       TellSteps, Google
  <2>3. QED
    BY <2>1, <2>2 DEF CoreInv
<1>2. ASSUME NEW d \in Databases,
             TellDatabase(d) \/ PlaceDatabase(d) \/ TouchDatabase(d)
      PROVE  CoreInv'
  BY <1>1, <1>2 DEF TellDatabase, PlaceDatabase, TouchDatabase, TellSteps
<1>3. CASE RecordChecksum
  BY <1>1, <1>3 DEF RecordChecksum
<1>4. ASSUME NEW c \in Configs \cup {None}, EditConfig(c) PROVE CoreInv'
  <2>1. iFresh' => iFresh /\ c \notin Invalid /\ config \notin Invalid
    BY <1>4 DEF EditConfig
  <2>2. UNCHANGED <<inst, cloud, ipc, icr, read>> /\ config' = c
    BY <1>4 DEF EditConfig, instVars
  <2>3. Provisioned(inst)' /\ Provisioned(icr)' /\ CloudInv'
    BY <2>2 DEF CoreInv, Provisioned, CloudInv, Google
  <2>4. ReadInv' /\ ServerInv'
    BY <2>1, <2>2 DEF CoreInv, ReadInv, ServerInv
  <2>5. QED
    BY <2>3, <2>4 DEF CoreInv
<1>5. CASE UpdateStatus
  <2>1. Provisioned(inst)' /\ inst'.info \notin Invalid
    BY <1>5 DEF UpdateStatus, CoreInv, Provisioned, ServerInv, Google
  <2>2. QED
    BY <1>5, <2>1, DoneInv DEF UpdateStatus
<1>6. CASE Restart
  <2>1. Provisioned(inst)' /\ inst'.info \notin Invalid
    BY <1>6 DEF Restart, CoreInv, Provisioned, ServerInv, Google
  <2>2. QED
    BY <1>6, <2>1, DoneInv DEF Restart
<1>7. CASE UNCHANGED vars
  BY <1>1, <1>7 DEF vars, instVars
<1>8. QED
  BY <1>2, <1>3, <1>4, <1>5, <1>6, <1>7, WalkInv, CloudStepInv, StatusInv
     DEF Next, InstanceStep

(* The Databases' part: a checksum is only blanked where there was one,    *)
(* and only recorded after the Database was set up on the server of the    *)
(* stored status.                                                          *)
LEMMA DatabaseStep ==
  ASSUME FullTypeOK, CoreInv, DatabaseInv, DatabasesOnAcceptedServers,
         [Next]_vars
  PROVE  DatabaseInv' /\ DatabasesOnAcceptedServers'
<1> USE DEF DatabaseInv, DatabasesOnAcceptedServers
<1>1. ASSUME UNCHANGED <<dbs, placing>>, todo' \subseteq todo
      PROVE  DatabaseInv' /\ DatabasesOnAcceptedServers'
  BY <1>1
<1>2. ASSUME NEW d \in Databases, TellDatabase(d)
      PROVE  DatabaseInv' /\ DatabasesOnAcceptedServers'
  <2>1. CASE dbs' = dbs
    BY <1>1, <1>2, <2>1 DEF TellDatabase
  <2>2. CASE dbs' = [dbs EXCEPT ![d].sum = "blank"]
    <3>1. \A e \in Databases :
            /\ dbs'[e].servers = dbs[e].servers
            /\ dbs'[e].sum # "none" <=> dbs[e].sum # "none"
      BY <1>2, <2>2 DEF TellDatabase, FullTypeOK, DbState
    <3>2. todo' \subseteq todo /\ placing' = placing
          /\ todo \subseteq Databases /\ placing \in Databases \cup {None}
      BY <1>2 DEF TellDatabase, FullTypeOK, InstanceTypeOK
    <3>3. QED
      BY <3>1, <3>2
  <2>3. QED
    BY <1>2, <2>1, <2>2 DEF TellDatabase
<1>3. ASSUME NEW d \in Databases, PlaceDatabase(d)
      PROVE  DatabaseInv' /\ DatabasesOnAcceptedServers'
  <2>1. inst.info \notin Invalid /\ todo' = todo /\ todo \subseteq Databases
    BY <1>3 DEF CoreInv, ServerInv, PlaceDatabase, FullTypeOK, InstanceTypeOK
  <2>2. QED
    BY <1>3, <2>1, PlaceEffect
<1>4. CASE RecordChecksum
  <2>1. placing \in Databases /\ placing' = None /\ todo' = todo
        /\ todo \subseteq Databases
    BY <1>4 DEF RecordChecksum, FullTypeOK, InstanceTypeOK
  <2>2. CASE dbs' = dbs
    BY <2>1, <2>2
  <2>3. CASE dbs' = [dbs EXCEPT ![placing].sum = "current"]
    <3>1. \A e \in Databases :
            /\ dbs'[e].servers = dbs[e].servers
            /\ dbs'[e].sum = IF e = placing THEN "current" ELSE dbs[e].sum
      BY <2>1, <2>3 DEF FullTypeOK, DbState
    <3>2. QED
      BY <2>1, <3>1, ConstantFacts
  <2>4. QED
    BY <1>4, <2>2, <2>3 DEF RecordChecksum
<1>5. CASE ListDatabases
  BY <1>5 DEF ListDatabases, dbSide
<1>6. CASE Restart
  BY <1>6 DEF Restart, InstanceDone
<1>7. CASE \/ FetchInstanceData \/ LabelReferenced \/ Validate
           \/ ExistGeneric \/ ExistGoogle \/ InsertInstance \/ PatchInstance
           \/ WaitUntilRunnable \/ UpdateAdminUser \/ FetchInfo
           \/ BroadcastDone \/ CreateProxy \/ UpdateStatus
  BY <1>1, <1>7 DEF FetchInstanceData, LabelReferenced, Validate,
     ExistGeneric, ExistGoogle, InsertInstance, PatchInstance,
     WaitUntilRunnable, UpdateAdminUser, FetchInfo, BroadcastDone, CreateProxy,
     UpdateStatus, InstanceDone, dbSide
<1>8. ASSUME NEW d \in Databases, TouchDatabase(d)
      PROVE  DatabaseInv' /\ DatabasesOnAcceptedServers'
  BY <1>1, <1>8 DEF TouchDatabase
<1>9. CASE \/ CloudReady \/ \E c \in Configs \cup {None} : EditConfig(c)
           \/ UNCHANGED vars
  BY <1>1, <1>9 DEF CloudReady, EditConfig, vars, dbSide, instVars
<1>10. QED
  BY <1>2, <1>3, <1>4, <1>5, <1>6, <1>7, <1>8, <1>9 DEF Next, InstanceStep

(* InstanceInv holds in every reachable state.                             *)
LEMMA InstanceInvariant == Spec => []InstanceInv
<1>1. FullTypeOK /\ InstanceInv /\ [Next]_vars => InstanceInv'
  BY CoreStep, DatabaseStep DEF InstanceInv, CoreInv
<1>2. QED
  BY <1>1, InitInv, FullTypeCorrect, PTL DEF Spec

(* A DbInstance whose stored status is ready (Status.Status of the         *)
(* deferred update) has its connection data, a checksum of a configuration *)
(* that was accepted and, on Google, a Cloud SQL instance with the admin   *)
(* password set, wherever a creation failed, timed out or was interrupted. *)
THEOREM ReadyIsProvisioned == Spec => []ReadyInstanceIsProvisioned
<1>1. InstanceInv => ReadyInstanceIsProvisioned
  BY DEF InstanceInv, Provisioned, ReadyInstanceIsProvisioned
<1>2. QED
  BY <1>1, InstanceInvariant, PTL

(* Database reconciles, which work on whatever server Status.Info names    *)
(* and mostly without asking for Status.Status, never set a Database up on *)
(* a server that ValidateBackend or ValidateEngine rejected, and record a  *)
(* checksum only for a Database that is on some server.                    *)
THEOREM OnlyAcceptedServers == Spec => []DatabasesOnAcceptedServers
<1>1. InstanceInv => DatabasesOnAcceptedServers
  BY DEF InstanceInv
<1>2. QED
  BY <1>1, InstanceInvariant, PTL
=============================================================================
