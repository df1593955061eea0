----------------------------- MODULE KubeHelper -----------------------------
(***************************************************************************)
(* internal/helpers/kube: how the controllers create, label, own and       *)
(* release the objects they keep for a resource (credentials Secret, info  *)
(* ConfigMap, backup CronJob).  Several resources may name one object; the *)
(* labels used-by-kind and used-by-name say whose it is.                   *)
(*                                                                         *)
(* A caller is a resource that a controller is reconciling.  Its reconcile *)
(* is the sequence todo of the calls that are still to be made, each of    *)
(* which is one action; an error empties the sequence, and a later         *)
(* reconcile starts again.  The API server refuses a write that is not     *)
(* made from the latest copy of an object: cur[c] holds the objects whose  *)
(* copy in memory is the latest.                                           *)
(***************************************************************************)
EXTENDS Naturals, Sequences

CONSTANTS
  Keys,      \* keys of the data of an object
  None,      \* absent
  MaxEvents  \* bound: failed calls, restarts and changes made by people

(* A Database, and a DbUser of another Database whose .spec.secretName is  *)
(* the same: each is reconciled by its own controller.                     *)
Callers == {"database", "dbuser"}

Objects == {"secret", "configMap", "cronJob"}

(* ModifyObject works on a deep copy: original is the Secret that          *)
(* createTemplatedSecrets goes on with.                                    *)
Copies == Objects \cup {"original"}

ASSUME HelperAssumption ==
  /\ None \notin Callers
  /\ MaxEvents \in Nat

VARIABLES
  obj,   \* obj[o]: the object as the API server stores it
  todo,  \* todo[c]: the calls that the reconcile of c still has to make
  copy,  \* copy[c][o]: the object in the memory of that reconcile
  cur,   \* cur[c]: the copies that are the latest
  work,  \* work[c]: the resource in the memory of that reconcile
  events \* how many of these there were

(* label is the caller whose name is on the object, refs the UIDs of its   *)
(* owner references, keys the keys of its data.                            *)
Object ==
  [live: BOOLEAN, label: Callers \cup {None}, refs: SUBSET (Callers \X Nat),
   keys: SUBSET Keys]

NoObject == [live |-> FALSE, label |-> None, refs |-> {}, keys |-> {}]

NoCopies == [o \in Objects |-> NoObject]

(* What the objects follow: cleanup, whether there are backups, and the    *)
(* names in secretsTemplates (legacy) and in credentials.templates.        *)
Specs ==
  [cleanup: BOOLEAN, backup: BOOLEAN, legacy: SUBSET Keys,
   secret: SUBSET Keys, config: SUBSET Keys]

(* A resource: fin is its finalizer, uid tells a new one of the same name  *)
(* from the one that was deleted.                                          *)
Resource ==
  [live: BOOLEAN, deleting: BOOLEAN, fin: BOOLEAN, uid: Nat, spec: Specs]

NoSpec ==
  [cleanup |-> FALSE, backup |-> FALSE, legacy |-> {}, secret |-> {},
   config |-> {}]

NoResource ==
  [live |-> FALSE, deleting |-> FALSE, fin |-> FALSE, uid |-> 0,
   spec |-> NoSpec]

(* A call still to be made: op on object o.  Where the code goes on if the *)
(* object does not exist, skip is the number of calls that it leaves out.  *)
Call(op, o, skip) == [op |-> op, o |-> o, skip |-> skip]

HandleRead(o) == <<Call("update", o, 0)>>

(* A built object has no resourceVersion, so it goes through Create, which *)
(* reads it back.                                                          *)
HandleBuilt(o) == <<Call("create", o, 0), Call("get", o, 0), Call("update", o, 0)>>

HandleDelete(o) == <<Call("get", o, 0), Call("release", o, 0)>>

UID(c) == <<c, work[c].uid>>

Event == events < MaxEvents /\ events' = events + 1

(* The call at the head of the reconcile of c is op on o.                  *)
At(c, op, o) ==
  /\ todo[c] # <<>>
  /\ Head(todo[c]).op = op
  /\ Head(todo[c]).o = o

(* Go on with the given calls; after the last one the copies are garbage.  *)
Go(c, calls, copies, latest) ==
  /\ todo' = [todo EXCEPT ![c] = calls]
  /\ IF calls = <<>>
       THEN /\ copy' = [copy EXCEPT ![c] = NoCopies]
            /\ cur' = [latest EXCEPT ![c] = {}]
            /\ work' = [work EXCEPT ![c] = NoResource]
       ELSE /\ copy' = [copy EXCEPT ![c] = copies]
            /\ cur' = latest
            /\ UNCHANGED work

Proceed(c) == Go(c, Tail(todo[c]), copy[c], cur)

Stop(c) == Go(c, <<>>, NoCopies, cur)

(* Not found: leave out the calls that depend on the object, or fail.      *)
Missing(c) ==
  LET n == Head(todo[c]).skip IN
  Go(c, IF n = 0 THEN <<>> ELSE SubSeq(todo[c], n + 1, Len(todo[c])),
     copy[c], cur)

(* A call that fails without an effect.                                    *)
Broken(c) == Event /\ Stop(c) /\ UNCHANGED obj

-----------------------------------------------------------------------------
(* The API server *)

(* Who knows the latest version after c, or nobody, has stored n as o.     *)
Latest(c, o, n) ==
  LET outdated == IF o = "secret" THEN {o, "original"} ELSE {o} IN
  [k \in Callers |->
     IF n = obj[o] THEN cur[k]
     ELSE (cur[k] \ outdated) \cup (IF k = c THEN {o} ELSE {})]

Store(o, n) == obj' = [obj EXCEPT ![o] = n]

(* Cli.Update, and on with rest: conflict if the copy is outdated, not     *)
(* found if the object is gone.  It may fail, also after it took effect.   *)
(* The copy is garbage unless the next request works with it.              *)
Update(c, o, rest, n) ==
  \/ /\ obj[o].live /\ o \in cur[c]
     /\ Store(o, n)
     /\ IF rest # <<>> /\ Head(rest).op = "own"
          THEN Go(c, rest, [copy[c] EXCEPT ![o] = n], Latest(c, o, n))
          ELSE Go(c, rest, [copy[c] EXCEPT ![o] = NoObject],
                  [Latest(None, o, n) EXCEPT ![c] = @ \ {o}])
     /\ UNCHANGED events
  \/ obj[o].live /\ o \notin cur[c] /\ Stop(c) /\ UNCHANGED <<obj, events>>
  \/ ~obj[o].live /\ Missing(c) /\ UNCHANGED <<obj, events>>
  \/ /\ obj[o].live /\ o \in cur[c] /\ Event
     /\ Store(o, n)
     /\ Go(c, <<>>, NoCopies, Latest(None, o, n))
  \/ Broken(c)

(* Cli.Get of an object that exists.                                       *)
Fetched(c, o) == [copy[c] EXCEPT ![o] = obj[o]]

WithLatest(c, o) == [cur EXCEPT ![c] = @ \cup {o}]

-----------------------------------------------------------------------------
(* The helper *)

GetObject(c, o) ==
  /\ At(c, "get", o)
  /\ \/ /\ obj[o].live
        /\ Go(c, Tail(todo[c]), Fetched(c, o), WithLatest(c, o))
        /\ UNCHANGED <<obj, events>>
     \/ ~obj[o].live /\ Missing(c) /\ UNCHANGED <<obj, events>>
     \/ Broken(c)

(* Create: that the object exists is no error, and its content stays.      *)
CreateObject(c, o, built) ==
  /\ At(c, "create", o)
  /\ \/ obj[o].live /\ Proceed(c) /\ UNCHANGED <<obj, events>>
     \/ ~obj[o].live /\ Store(o, built) /\ Proceed(c) /\ UNCHANGED events
     \/ ~obj[o].live /\ Store(o, built) /\ Stop(c) /\ Event
     \/ Broken(c)

IsUsedByAny(n) == n.label # None

IsUsedByCaller(c, n) == n.label = c

SetUsedByLabels(c, n) == [n EXCEPT !.label = c]

DeleteUsedByLabels(n) == [n EXCEPT !.label = None]

BuildOwnerReference(c) == IF work[c].spec.cleanup THEN {UID(c)} ELSE {}

(* The reference to the caller follows .spec.cleanup, references to others *)
(* stay.                                                                   *)
SetOwnerReference(c, n) ==
  [n EXCEPT !.refs = (@ \ {UID(c)}) \cup BuildOwnerReference(c)]

(* Mutant: the reference is set once and never taken back.                 *)
OwnForGood(c, o) ==
  LET n == copy[c][o] IN
  IF IsUsedByCaller(c, n)
    THEN Update(c, o, Tail(todo[c]),
                IF work[c].spec.cleanup THEN SetOwnerReference(c, n) ELSE n)
    ELSE Stop(c) /\ UNCHANGED <<obj, events>>

(* Mutant: an object that somebody else uses is edited too.                *)
OwnAny(c, o) ==
  Update(c, o, Tail(todo[c]), SetOwnerReference(c, copy[c][o]))

(* Only the caller's objects are edited.                                   *)
Own(c, o) ==
  LET n == copy[c][o] IN
  IF IsUsedByCaller(c, n)
    THEN Update(c, o, Tail(todo[c]), SetOwnerReference(c, n))
    ELSE Stop(c) /\ UNCHANGED <<obj, events>>

(* Update: an object without a user is labelled at once, and owned in a    *)
(* second request.                                                         *)
UpdateObject(c, o) ==
  LET n == copy[c][o]
      rest == <<[Head(todo[c]) EXCEPT !.op = "own"]>> \o Tail(todo[c])
  IN
  \/ /\ At(c, "update", o)
     /\ \/ ~IsUsedByAny(n) /\ Update(c, o, rest, SetUsedByLabels(c, n))
        \/ IsUsedByAny(n) /\ Own(c, o)
  \/ At(c, "own", o) /\ Own(c, o)

(* HandleDelete: the labels go, the owner references stay.                 *)
ReleaseObject(c, o) ==
  LET n == copy[c][o] IN
  /\ At(c, "release", o)
  /\ \/ /\ IsUsedByCaller(c, n)
        /\ Update(c, o, Tail(todo[c]), DeleteUsedByLabels(n))
     \/ ~IsUsedByCaller(c, n) /\ Stop(c) /\ UNCHANGED <<obj, events>>
=============================================================================
