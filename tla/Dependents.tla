----------------------------- MODULE Dependents -----------------------------
(***************************************************************************)
(* The objects around a Database: how its controller creates, templates,   *)
(* owns and releases the credentials Secret, the info ConfigMap and the    *)
(* backup CronJob, while the DbUser controller may want the same Secret,   *)
(* people edit, delete and re-create resources and objects, and the        *)
(* garbage collector of Kubernetes follows the owner references.           *)
(*                                                                         *)
(* The instance is generic: there is no proxy and no instance access       *)
(* Secret.  What happens on the SQL server is in DatabaseController and    *)
(* DbUserController; here it is a call that may fail.                      *)
(***************************************************************************)
EXTENDS KubeHelper

CONSTANTS
  Blocked,      \* the keys of the credentials that the operator generates
  Default,      \* the key of the template that the webhook adds
  TemplateSets  \* the sets of names that people put in a list of templates

ASSUME DependentsAssumption ==
  /\ Blocked \subseteq Keys
  /\ Default \in Keys \ Blocked
  /\ TemplateSets \subseteq SUBSET Keys

VARIABLES
  res,   \* res[c]: the resource as the API server stores it
  seen   \* the callers whose working copy of the resource is the latest

vars == <<obj, todo, copy, cur, work, events, res, seen>>

resVars == <<res, seen>>

DependentsTypeOK ==
  /\ obj \in [Objects -> Object]
  /\ copy \in [Callers -> [Objects -> Object]]
  /\ cur \in [Callers -> SUBSET Copies]
  /\ work \in [Callers -> Resource]
  /\ res \in [Callers -> Resource]
  /\ seen \subseteq Callers
  /\ events \in 0..MaxEvents
  /\ \A c \in Callers : todo[c] # <<>> => work[c].live

-----------------------------------------------------------------------------
(* What a reconcile does *)

(* GenerateDatabaseSecretData and SecretBuilder.                           *)
BuiltSecret == [NoObject EXCEPT !.live = TRUE, !.keys = Blocked]

BuiltConfigMap == [NoObject EXCEPT !.live = TRUE]

(* The CronJob is built with a controller reference, whatever              *)
(* .spec.cleanup says.                                                     *)
BuiltCronJob(c) == [NoObject EXCEPT !.live = TRUE, !.refs = {UID(c)}]

Built(c) ==
  [secret |-> BuiltSecret, configMap |-> BuiltConfigMap,
   cronJob |-> BuiltCronJob(c)]

TemplateCalls ==
  <<Call("get", "secret", 0), Call("render", "configMap", 0)>>
    \o HandleRead("secret") \o HandleRead("configMap")

BackupCalls(s, calls) == IF s.backup THEN calls ELSE <<>>

UpsertCalls(s) ==
  <<Call("find", "secret", 0)>>
    \o HandleRead("secret")
    \o <<Call("addFinalizer", "secret", 0)>>
    \o (IF s.legacy = {} THEN <<>>
        ELSE <<Call("legacy", "secret", 0)>> \o HandleRead("secret")
               \o <<Call("write", "secret", 0)>>)
    \o HandleBuilt("configMap")
    \o (IF s.legacy = {} THEN TemplateCalls ELSE <<>>)
    \o BackupCalls(s, HandleBuilt("cronJob"))

(* Mutant: templates and backup are forgotten.                             *)
DeleteCallsForgotten(s) ==
  <<Call("removeFinalizer", "secret", 0)>>
    \o HandleDelete("configMap")
    \o <<Call("get", "secret", 3)>> \o HandleDelete("secret")

DeleteCalls(s) ==
  <<Call("removeFinalizer", "secret", 0)>>
    \o (IF s.legacy = {} THEN TemplateCalls ELSE <<>>)
    \o HandleDelete("configMap")
    \o BackupCalls(s, HandleDelete("cronJob"))
    \o <<Call("get", "secret", 3)>> \o HandleDelete("secret")

UserUpsertCalls ==
  <<Call("find", "secret", 0)>>
    \o HandleRead("secret")
    \o <<Call("addFinalizer", "secret", 0), Call("renderUser", "secret", 0)>>
    \o HandleRead("secret")

(* Mutant: a Secret that is not found is an error.                         *)
UserDeleteCallsStrict ==
  <<Call("get", "secret", 0), Call("renderUser", "secret", 0)>>
    \o HandleRead("secret") \o HandleDelete("secret")
    \o <<Call("removeFinalizer", "secret", 0)>>

(* The DbUser goes on when the Secret is not found; its finalizer is the   *)
(* last thing to go.                                                       *)
UserDeleteCalls ==
  <<Call("get", "secret", 5),
    Call("renderUser", "secret", 2), Call("update", "secret", 1),
    Call("get", "secret", 2), Call("release", "secret", 1),
    Call("removeFinalizer", "secret", 0)>>

Calls(c, r) ==
  CASE c = "database" /\ ~r.deleting -> UpsertCalls(r.spec)
    [] c = "database" /\ r.deleting -> DeleteCalls(r.spec)
    [] c = "dbuser" /\ ~r.deleting -> UserUpsertCalls
    [] c = "dbuser" /\ r.deleting -> UserDeleteCalls

(* Mutant: a resource that is gone is reconciled too.                      *)
ReconcileBlindly(c) ==
  /\ todo[c] = <<>>
  /\ work' = [work EXCEPT ![c] = res[c]]
  /\ seen' = seen \cup {c}
  /\ todo' = [todo EXCEPT ![c] = Calls(c, res[c])]
  /\ UNCHANGED <<obj, copy, cur, events, res>>

Reconcile(c) ==
  /\ todo[c] = <<>>
  /\ res[c].live
  /\ work' = [work EXCEPT ![c] = res[c]]
  /\ seen' = seen \cup {c}
  /\ todo' = [todo EXCEPT ![c] = Calls(c, res[c])]
  /\ UNCHANGED <<obj, copy, cur, events, res>>

ReconcileGone(c) ==
  /\ todo[c] = <<>>
  /\ ~res[c].live
  /\ UNCHANGED vars

(* The Secret is read, or generated and then handled as a built object.    *)
FindSecret(c) ==
  /\ At(c, "find", "secret")
  /\ \/ /\ obj["secret"].live
        /\ Go(c, Tail(todo[c]), Fetched(c, "secret"), WithLatest(c, "secret"))
        /\ UNCHANGED <<obj, events>>
     \/ /\ ~obj["secret"].live
        /\ Go(c, <<Call("create", "secret", 0), Call("get", "secret", 0)>>
                   \o Tail(todo[c]), copy[c], cur)
        /\ UNCHANGED <<obj, events>>
     \/ Broken(c)
  /\ UNCHANGED resVars

(* createDatabase or CreateUser, then the finalizer.  Change detection     *)
(* leaves both out of most reconciles of a resource that has it.           *)
AddFinalizer(c) ==
  /\ At(c, "addFinalizer", "secret")
  /\ \/ /\ c \in seen
        /\ res' = [res EXCEPT ![c].fin = TRUE]
        /\ Proceed(c)
        /\ UNCHANGED <<obj, events, seen>>
     \/ c \notin seen /\ Stop(c) /\ UNCHANGED <<obj, events, res, seen>>
     \/ work[c].fin /\ Proceed(c) /\ UNCHANGED <<obj, events, res, seen>>
     \/ Broken(c) /\ UNCHANGED <<res, seen>>

(* deleteDatabase or DeleteUser, then the finalizer: the resource is gone. *)
RemoveFinalizer(c) ==
  /\ At(c, "removeFinalizer", "secret")
  /\ \/ /\ c \in seen
        /\ res' = [res EXCEPT ![c] = [NoResource EXCEPT !.uid = res[c].uid]]
        /\ Proceed(c)
        /\ UNCHANGED <<obj, events, seen>>
     \/ c \notin seen /\ Stop(c) /\ UNCHANGED <<obj, events, res, seen>>
     \/ Broken(c) /\ UNCHANGED <<res, seen>>

-----------------------------------------------------------------------------
(* Templates *)

ParseSecretData(n) == Blocked \subseteq n.keys

(* Mutant: obsolete is every key that is not in the templates.             *)
LegacyKeysOnly(keys, legacy) == legacy \ Blocked

(* ParseTemplatedSecretsData takes the named keys out of the data,         *)
(* GenerateTemplatedSecrets and AppendTemplatedSecretData put back those   *)
(* that are not blocked, RemoveObsoleteSecret drops the others.            *)
LegacyKeys(keys, legacy) ==
  ((keys \ legacy) \cap Blocked) \cup (legacy \ Blocked)

(* createTemplatedSecrets, up to the helper.                               *)
RenderLegacy(c) ==
  LET n == [obj["secret"] EXCEPT !.keys = LegacyKeys(@, work[c].spec.legacy)] IN
  /\ At(c, "legacy", "secret")
  /\ \/ /\ obj["secret"].live /\ ParseSecretData(obj["secret"])
        /\ Go(c, Tail(todo[c]), [copy[c] EXCEPT !["secret"] = n],
              [cur EXCEPT ![c] = @ \cup {"secret", "original"}])
        /\ UNCHANGED <<obj, events>>
     \/ /\ ~(obj["secret"].live /\ ParseSecretData(obj["secret"]))
        /\ Stop(c) /\ UNCHANGED <<obj, events>>
     \/ Broken(c)
  /\ UNCHANGED resVars

(* The Secret is stored once more, under the version that was read: a      *)
(* conflict if the helper has changed it, and no change if it has not.     *)
WriteLegacy(c) ==
  /\ At(c, "write", "secret")
  /\ \/ /\ "original" \in cur[c]
        /\ Go(c, Tail(todo[c]), copy[c], [cur EXCEPT ![c] = @ \ {"original"}])
        /\ UNCHANGED <<obj, events>>
     \/ "original" \notin cur[c] /\ Stop(c) /\ UNCHANGED <<obj, events>>
     \/ Broken(c)
  /\ UNCHANGED resVars

(* Nothing is rendered for a resource that is being deleted, and nothing   *)
(* that was rendered is taken out.                                         *)
Rendered(c, n, names) ==
  IF work[c].deleting THEN n ELSE [n EXCEPT !.keys = @ \cup names]

(* handleTemplatedCredentials of the Database: Secret and ConfigMap are    *)
(* rendered in memory; a blocked name is an error.                         *)
Render(c) ==
  LET s == work[c].spec
      ok == /\ obj["configMap"].live
            /\ ParseSecretData(copy[c]["secret"])
            /\ work[c].deleting \/ (s.secret \cup s.config) \cap Blocked = {}
  IN
  /\ At(c, "render", "configMap")
  /\ \/ /\ ok
        /\ Go(c, Tail(todo[c]),
              [copy[c] EXCEPT
                 !["secret"] = Rendered(c, @, s.secret),
                 !["configMap"] = Rendered(c, obj["configMap"], s.config)],
              WithLatest(c, "configMap"))
        /\ UNCHANGED <<obj, events>>
     \/ ~ok /\ Stop(c) /\ UNCHANGED <<obj, events>>
     \/ Broken(c)
  /\ UNCHANGED resVars

(* The same for the DbUser, which reads the ConfigMap of its own Database. *)
RenderUser(c) ==
  LET s == work[c].spec
      n == obj["secret"]
      ok == /\ ParseSecretData(n)
            /\ work[c].deleting \/ s.secret \cap Blocked = {}
  IN
  /\ At(c, "renderUser", "secret")
  /\ \/ /\ n.live /\ ok
        /\ Go(c, Tail(todo[c]),
              [copy[c] EXCEPT !["secret"] = Rendered(c, n, s.secret)],
              WithLatest(c, "secret"))
        /\ UNCHANGED <<obj, events>>
     \/ n.live /\ ~ok /\ Stop(c) /\ UNCHANGED <<obj, events>>
     \/ ~n.live /\ Missing(c) /\ UNCHANGED <<obj, events>>
     \/ Broken(c)
  /\ UNCHANGED resVars

-----------------------------------------------------------------------------
(* The environment *)

Step(c) ==
  \/ Reconcile(c) \/ ReconcileGone(c) \/ FindSecret(c)
  \/ AddFinalizer(c) \/ RemoveFinalizer(c)
  \/ RenderLegacy(c) \/ WriteLegacy(c) \/ Render(c) \/ RenderUser(c)
  \/ /\ \E o \in Objects :
          \/ GetObject(c, o) \/ CreateObject(c, o, Built(c)[o])
          \/ UpdateObject(c, o) \/ ReleaseObject(c, o)
     /\ UNCHANGED resVars

Dangling(r) == ~(res[r[1]].live /\ res[r[1]].uid = r[2])

(* The garbage collector of Kubernetes: an object goes with the last of    *)
(* its owners, and loses the references to the others.                     *)
CollectGarbage(o) ==
  LET left == {r \in obj[o].refs : ~Dangling(r)}
      n == IF left = {} THEN NoObject ELSE [obj[o] EXCEPT !.refs = left]
  IN
  /\ obj[o].refs # left
  /\ Store(o, n)
  /\ cur' = Latest(None, o, n)
  /\ UNCHANGED <<todo, copy, work, events, res, seen>>

(* The webhook of the Database: secretsTemplates and templates exclude     *)
(* each other, and where there are none, one is added.  Names are not      *)
(* looked at.  That of the DbUser adds nothing.                            *)
Defaulted(c, s) ==
  IF c = "database" /\ s.legacy \cup s.secret \cup s.config = {}
    THEN [s EXCEPT !.secret = {Default}] ELSE s

(* One field is edited at a time; secretsTemplates, ConfigMap templates    *)
(* and backups are the Database's.                                         *)
Edited(c) ==
  LET s == res[c].spec IN
  {[s EXCEPT !.cleanup = ~@], [s EXCEPT !.backup = (c = "database") /\ ~@]}
    \cup {[s EXCEPT !.legacy = names, !.secret = {}, !.config = {}] :
            names \in IF c = "database" THEN TemplateSets ELSE {}}
    \cup {[s EXCEPT !.legacy = {}, !.secret = names] : names \in TemplateSets}
    \cup {[s EXCEPT !.legacy = {}, !.config = names] :
            names \in IF c = "database" THEN TemplateSets ELSE {}}

EditSpec(c) ==
  /\ Event
  /\ res[c].live
  /\ \E s \in {Defaulted(c, e) : e \in Edited(c)} \ {res[c].spec} :
       res' = [res EXCEPT ![c].spec = s]
  /\ seen' = seen \ {c}
  /\ UNCHANGED <<obj, todo, copy, cur, work>>

DeleteResource(c) ==
  /\ Event
  /\ res[c].live /\ ~res[c].deleting
  /\ res' = [res EXCEPT ![c] =
               IF @.fin THEN [@ EXCEPT !.deleting = TRUE]
               ELSE [NoResource EXCEPT !.uid = res[c].uid]]
  /\ seen' = seen \ {c}
  /\ UNCHANGED <<obj, todo, copy, cur, work>>

CreateResource(c) ==
  /\ Event
  /\ ~res[c].live
  /\ res' = [res EXCEPT ![c] = [live |-> TRUE, deleting |-> FALSE, fin |-> FALSE,
                                uid |-> @.uid + 1,
                                spec |-> Defaulted(c, NoSpec)]]
  /\ seen' = seen \ {c}
  /\ UNCHANGED <<obj, todo, copy, cur, work>>

DeleteObject(o) ==
  /\ Event
  /\ obj[o].live
  /\ Store(o, NoObject)
  /\ cur' = Latest(None, o, NoObject)
  /\ UNCHANGED <<todo, copy, work, res, seen>>

(* The operator restarts: both reconciles are forgotten.                   *)
Restart ==
  /\ Event
  /\ todo' = [c \in Callers |-> <<>>]
  /\ copy' = [c \in Callers |-> NoCopies]
  /\ cur' = [c \in Callers |-> {}]
  /\ work' = [c \in Callers |-> NoResource]
  /\ UNCHANGED <<obj, res, seen>>

-----------------------------------------------------------------------------
Init ==
  /\ obj = NoCopies
  /\ todo = [c \in Callers |-> <<>>]
  /\ copy = [c \in Callers |-> NoCopies]
  /\ cur = [c \in Callers |-> {}]
  /\ work = [c \in Callers |-> NoResource]
  /\ res = [c \in Callers |->
              [live |-> TRUE, deleting |-> FALSE, fin |-> FALSE, uid |-> 1,
               spec |-> [NoSpec EXCEPT !.cleanup = (c = "database"),
                                       !.backup = (c = "database"),
                                       !.secret = {Default}]]]
  /\ seen = {}
  /\ events = 0

Next ==
  \/ \E c \in Callers :
       \/ Step(c) \/ EditSpec(c) \/ DeleteResource(c) \/ CreateResource(c)
  \/ \E o \in Objects : CollectGarbage(o) \/ DeleteObject(o)
  \/ Restart

Spec == Init /\ [][Next]_vars

(* Both work queues are served, as is the garbage collector; people owe    *)
(* nothing.                                                                *)
FairSpec ==
  /\ Spec
  /\ \A c \in Callers : WF_vars(Step(c))
  /\ WF_vars(\E o \in Objects : CollectGarbage(o))

-----------------------------------------------------------------------------
(* Properties *)

(* A step of one controller never touches an object that carries the label *)
(* of somebody else's resource, however claim, release and re-creation     *)
(* interleave (kube.go Update and HandleDelete).                           *)
OnlyOwnerWrites ==
  [][\A c \in Callers, o \in Objects :
       todo'[c] # todo[c] /\ obj[o].live /\ obj[o].label \notin {c, None}
         => obj'[o] = obj[o]]_vars

(* The credentials are never templated away: the keys that the operator    *)
(* generated stay in the Secret, unless secretsTemplates names one of them *)
(* (pkg/utils/templates/secrets.go RemoveObsoleteSecret).                  *)
CredentialsKept ==
  [][obj["secret"].live /\ obj'["secret"].live
       /\ Blocked \subseteq obj["secret"].keys
       => \/ Blocked \subseteq obj'["secret"].keys
          \/ work["database"].spec.legacy \cap Blocked # {}]_vars

(* The object is the caller's, and owned exactly if .spec.cleanup says so. *)
Kept(c, o) ==
  /\ obj[o].live
  /\ obj[o].label = c
  /\ <<c, res[c].uid>> \in obj[o].refs <=> res[c].spec.cleanup

Templated(s) ==
  IF s.legacy # {}
    THEN obj["secret"].keys = Blocked \cup s.legacy
    ELSE /\ s.secret \subseteq obj["secret"].keys
         /\ s.config \subseteq obj["configMap"].keys

Wanted(c) ==
  IF c = "dbuser" THEN {"secret"}
  ELSE {"secret", "configMap"}
         \cup (IF res[c].spec.backup THEN {"cronJob"} ELSE {})

Marked(o) ==
  obj[o].label = "database" \/ \E r \in obj[o].refs : r[1] = "database"

InPlace(c) == (\A o \in Wanted(c) : Kept(c, o)) /\ Templated(res[c].spec)

(* Nothing in the way: the templates name no credentials, which are in the *)
(* Secret, and the Secret is not somebody else's.                          *)
Unhindered(c) ==
  LET s == res[c].spec IN
  /\ res[c].live /\ ~res[c].deleting
  /\ (s.legacy \cup s.secret \cup s.config) \cap Blocked = {}
  /\ obj["secret"].live => /\ obj["secret"].label \in {c, None}
                           /\ ParseSecretData(obj["secret"])

(* Whatever was deleted, edited, failed or collected before: in the end    *)
(* the objects of a Database or DbUser exist, carry its labels, are owned  *)
(* as .spec.cleanup says and hold what the templates ask for               *)
(* (handleDbCreateOrUpdate, DbUser Reconcile).                             *)
DependentsConverge ==
  <>[](\A c \in Callers : Unhindered(c) => InPlace(c))

(* A Database that is deleted when its objects, and no others, are in      *)
(* place, and with no failure or further intervention, leaves no object    *)
(* behind that is marked as its own, and none at all under .spec.cleanup,  *)
(* although its finalizer goes first (handleDbDelete).                     *)
DeletionReleases ==
  (/\ events = MaxEvents
   /\ res["database"].live /\ res["database"].deleting
   /\ todo["database"] = <<>> /\ InPlace("database")
   /\ \A o \in Objects \ Wanted("database") : ~Marked(o))
    ~> \A o \in Objects : ~Marked(o)

(* A DbUser that is being deleted goes away, whatever happens to its       *)
(* Secret, as long as the Secret is not somebody else's                    *)
(* (handleDbUserDelete).                                                   *)
UserReleaseCompletes ==
  (res["dbuser"].live /\ res["dbuser"].deleting)
    ~> (~res["dbuser"].deleting \/ obj["secret"].label = "database"
        \/ (obj["secret"].live /\ ~ParseSecretData(obj["secret"])))
=============================================================================
