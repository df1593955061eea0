-------------------------- MODULE DependentsProofs --------------------------
(***************************************************************************)
(* No controller writes an object that carries another resource's label,   *)
(* and no template takes the generated credentials out of the Secret       *)
(* (module Dependents), for any keys and templates and any number of       *)
(* failures, edits and restarts.                                           *)
(*                                                                         *)
(* Which calls a reconcile is made of does not matter to the argument: a   *)
(* write only happens from a copy that is the latest, and such a copy      *)
(* agrees with the stored object in what decides about the write.          *)
(***************************************************************************)
EXTENDS Dependents, TLAPS

(* The types, and that a reconcile is a function of the callers.           *)
FullTypeOK == DependentsTypeOK /\ DOMAIN todo = Callers

(* The templates of c name one of the credentials.                         *)
NamesCredentials(c) == work[c].spec.legacy \cap Blocked # {}

(* The copies n, of which those in s are the latest, say of an object      *)
(* whose it is, and have no fewer credentials.                             *)
Faithful(c, n, s) ==
  \A o \in Objects \cap s :
    /\ obj[o].live /\ n[o].live
    /\ n[o].label = obj[o].label
    /\ o = "secret" =>
         Blocked \cap obj[o].keys \subseteq n[o].keys \/ NamesCredentials(c)

CopyInv == \A c \in Callers : Faithful(c, copy[c], cur[c])

(* Without a reconcile there are no copies.                                *)
IdleInv == \A c \in Callers : todo[c] = <<>> => cur[c] = {}

(* Only a Database has secretsTemplates.                                   *)
LegacyInv ==
  res["dbuser"].spec.legacy = {} /\ work["dbuser"].spec.legacy = {}

DependentsInv == CopyInv /\ IdleInv /\ LegacyInv

(* What a step may do, as in OnlyOwnerWrites and CredentialsKept.          *)
OwnerStep ==
  \A c \in Callers, o \in Objects :
    todo'[c] # todo[c] /\ obj[o].live /\ obj[o].label \notin {c, None}
      => obj'[o] = obj[o]

KeysStep ==
  /\ obj["secret"].live /\ obj'["secret"].live
  /\ Blocked \subseteq obj["secret"].keys
  => Blocked \subseteq obj'["secret"].keys \/ NamesCredentials("database")

SafeStep == FullTypeOK' /\ DependentsInv' /\ OwnerStep /\ KeysStep

-----------------------------------------------------------------------------
(* Records *)

LEMMA NoObjectType ==
  /\ NoObject \in Object /\ ~NoObject.live /\ NoObject.refs = {}
  /\ NoCopies \in [Objects -> Object]
BY DEF NoObject, Object, NoCopies

LEMMA NoResourceType ==
  /\ NoSpec \in Specs /\ NoSpec.legacy = {}
  /\ NoResource \in Resource /\ NoResource.spec = NoSpec /\ ~NoResource.live
<1>1. NoSpec \in Specs /\ NoSpec.legacy = {}
  BY DEF NoSpec, Specs
<1>2. QED
  BY <1>1 DEF NoResource, Resource

(* What a resource is after its finalizer is gone.                         *)
LEMMA GoneType ==
  ASSUME NEW u \in Nat
  PROVE  LET r == [NoResource EXCEPT !.uid = u]
         IN  r \in Resource /\ r.spec = NoSpec
BY NoResourceType DEF Resource

LEMMA UIDType == ASSUME FullTypeOK, NEW c \in Callers
                 PROVE  UID(c) \in Callers \X Nat
BY DEF UID, FullTypeOK, DependentsTypeOK, Resource

(* An object that a controller builds.                                     *)
LEMMA BuiltType ==
  ASSUME FullTypeOK, NEW c \in Callers, NEW o \in Objects
  PROVE  Built(c)[o] \in Object
<1>1. BuiltSecret \in Object /\ BuiltConfigMap \in Object
  BY NoObjectType, DependentsAssumption
     DEF BuiltSecret, BuiltConfigMap, Object
<1>2. BuiltCronJob(c) \in Object
  BY NoObjectType, UIDType DEF BuiltCronJob, Object
<1>3. CASE o = "secret"
  BY <1>1, <1>3 DEF Built
<1>4. CASE o = "configMap"
  BY <1>1, <1>4 DEF Built
<1>5. CASE o = "cronJob"
  BY <1>2, <1>5 DEF Built
<1>6. QED
  BY <1>3, <1>4, <1>5 DEF Objects

(* What the three edits of the helper leave alone.                         *)
LEMMA HelperEdits ==
  ASSUME FullTypeOK, NEW c \in Callers, NEW n \in Object
  PROVE  /\ SetUsedByLabels(c, n) \in Object
         /\ SetUsedByLabels(c, n).live = n.live
         /\ SetUsedByLabels(c, n).keys = n.keys
         /\ DeleteUsedByLabels(n) \in Object
         /\ DeleteUsedByLabels(n).live = n.live
         /\ DeleteUsedByLabels(n).keys = n.keys
         /\ SetOwnerReference(c, n) \in Object
         /\ SetOwnerReference(c, n).live = n.live
         /\ SetOwnerReference(c, n).keys = n.keys
<1>1. SetUsedByLabels(c, n) \in Object /\ SetUsedByLabels(c, n).live = n.live
      /\ SetUsedByLabels(c, n).keys = n.keys
  BY DEF SetUsedByLabels, Object
<1>2. DeleteUsedByLabels(n) \in Object /\ DeleteUsedByLabels(n).live = n.live
      /\ DeleteUsedByLabels(n).keys = n.keys
  BY DEF DeleteUsedByLabels, Object
<1>3. (n.refs \ {UID(c)}) \cup BuildOwnerReference(c) \in SUBSET (Callers \X Nat)
  BY UIDType DEF BuildOwnerReference, Object
<1>4. SetOwnerReference(c, n) \in Object
      /\ SetOwnerReference(c, n).live = n.live
      /\ SetOwnerReference(c, n).keys = n.keys
  BY <1>3 DEF SetOwnerReference, Object
<1>5. QED
  BY <1>1, <1>2, <1>4

-----------------------------------------------------------------------------
(* The end of a call *)

(* Where a call that ends with Go leads.                                   *)
Gone(c, calls, copies, latest) ==
  /\ DOMAIN todo' = Callers
  /\ copy' \in [Callers -> [Objects -> Object]]
  /\ cur' \in [Callers -> SUBSET Copies]
  /\ work' \in [Callers -> Resource]
  /\ \A k \in Callers : todo'[k] # <<>> => work'[k].live
  /\ todo'[c] = calls
  /\ \/ calls = <<>> /\ cur'[c] = {} /\ work'[c] = NoResource
     \/ /\ calls # <<>> /\ cur'[c] = latest[c]
        /\ copy'[c] = copies /\ work'[c] = work[c]
  /\ \A k \in Callers \ {c} :
       /\ todo'[k] = todo[k] /\ copy'[k] = copy[k]
       /\ cur'[k] = latest[k] /\ work'[k] = work[k]

(* Go changes what belongs to c, and who has the latest copies.            *)
LEMMA GoEffect ==
  ASSUME FullTypeOK, NEW c \in Callers, NEW calls,
         NEW copies \in [Objects -> Object],
         NEW latest \in [Callers -> SUBSET Copies],
         todo[c] # <<>>, Go(c, calls, copies, latest)
  PROVE  Gone(c, calls, copies, latest)
<1>1. CASE calls = <<>>
  BY <1>1, NoObjectType, NoResourceType
     DEF Gone, Go, FullTypeOK, DependentsTypeOK
<1>2. CASE calls # <<>>
  BY <1>2 DEF Gone, Go, FullTypeOK, DependentsTypeOK
<1>3. QED
  BY <1>1, <1>2

(* A call that writes nothing keeps the invariant if the copies it goes on *)
(* with are faithful.                                                      *)
LEMMA ReadOnly ==
  ASSUME FullTypeOK, DependentsInv, NEW c \in Callers, NEW calls,
         NEW copies \in [Objects -> Object],
         NEW latest \in [Callers -> SUBSET Copies],
         todo[c] # <<>>, Go(c, calls, copies, latest), obj' = obj,
         \A k \in Callers \ {c} : latest[k] = cur[k],
         calls # <<>> => Faithful(c, copies, latest[c]),
         events' \in 0..MaxEvents, res' \in [Callers -> Resource],
         seen' \subseteq Callers, res'["dbuser"].spec.legacy = {}
  PROVE  SafeStep
<1>0. Gone(c, calls, copies, latest)
  BY GoEffect
<1>1. FullTypeOK' /\ \A k \in Callers \ {c} : cur'[k] = cur[k]
  BY <1>0 DEF Gone, FullTypeOK, DependentsTypeOK
<1>2. IdleInv'
  BY <1>0, <1>1 DEF Gone, DependentsInv, IdleInv
<1>3. LegacyInv'
  BY <1>0, <1>1, NoResourceType DEF Gone, DependentsInv, LegacyInv, Callers
<1>4. ASSUME NEW k \in Callers PROVE Faithful(k, copy[k], cur[k])'
  <2>1. CASE k # c
    <3>1. copy'[k] = copy[k] /\ cur'[k] = cur[k] /\ work'[k] = work[k]
      BY <1>0, <1>1, <2>1 DEF Gone
    <3>2. QED
      BY <3>1 DEF DependentsInv, CopyInv, Faithful, NamesCredentials
  <2>2. CASE k = c /\ calls = <<>>
    <3>1. cur'[k] = {}
      BY <1>0, <2>2 DEF Gone
    <3>2. QED
      BY <3>1 DEF Faithful
  <2>3. CASE k = c /\ calls # <<>>
    <3>1. copy'[k] = copies /\ cur'[k] = latest[k] /\ work'[k] = work[k]
      BY <1>0, <2>3 DEF Gone
    <3>2. QED
      BY <2>3, <3>1 DEF Faithful, NamesCredentials
  <2>4. QED
    BY <2>1, <2>2, <2>3
<1>5. OwnerStep /\ KeysStep
  BY DEF OwnerStep, KeysStep
<1>6. QED
  BY <1>1, <1>2, <1>3, <1>4, <1>5 DEF DependentsInv, CopyInv, SafeStep

(* The same for a call that stores n as o: nobody else may go on with a    *)
(* copy of what it has replaced, and c only with n.                        *)
LEMMA Written ==
  ASSUME FullTypeOK, DependentsInv, NEW c \in Callers, NEW calls,
         NEW copies \in [Objects -> Object],
         NEW latest \in [Callers -> SUBSET Copies],
         NEW o \in Objects, NEW n \in Object,
         todo[c] # <<>>, Go(c, calls, copies, latest), Store(o, n),
         \A k \in Callers \ {c} :
           latest[k] \subseteq cur[k] /\ (o \in latest[k] => n = obj[o]),
         calls # <<>> =>
           \A p \in Objects \cap latest[c] :
             IF p = o THEN copies[p] = n /\ n.live
             ELSE p \in cur[c] /\ copies[p] = copy[c][p],
         events' \in 0..MaxEvents, UNCHANGED resVars
  PROVE  /\ FullTypeOK' /\ DependentsInv'
         /\ \A k \in Callers \ {c} : todo'[k] = todo[k]
<1>1. Gone(c, calls, copies, latest)
  BY GoEffect
<1>2. /\ obj' \in [Objects -> Object] /\ obj'[o] = n
      /\ \A p \in Objects \ {o} : obj'[p] = obj[p]
  BY DEF Store, FullTypeOK, DependentsTypeOK
<1>3. FullTypeOK'
  BY <1>1, <1>2 DEF Gone, FullTypeOK, DependentsTypeOK, resVars
<1>4. IdleInv'
  <2>1. ASSUME NEW k \in Callers \ {c}, cur[k] = {} PROVE cur'[k] = {}
    BY <1>1, <2>1 DEF Gone
  <2>2. QED
    BY <1>1, <2>1 DEF Gone, DependentsInv, IdleInv
<1>5. LegacyInv'
  BY <1>1, NoResourceType DEF Gone, DependentsInv, LegacyInv, Callers, resVars
<1>6. ASSUME NEW k \in Callers PROVE Faithful(k, copy[k], cur[k])'
  <2>1. CASE k # c
    <3>1. /\ copy'[k] = copy[k] /\ cur'[k] \subseteq cur[k]
          /\ work'[k] = work[k]
          /\ \A p \in Objects \cap cur'[k] : obj'[p] = obj[p]
      BY <1>1, <1>2, <2>1 DEF Gone
    <3>2. QED
      BY <3>1 DEF DependentsInv, CopyInv, Faithful, NamesCredentials
  <2>2. CASE k = c /\ calls = <<>>
    <3>1. cur'[k] = {}
      BY <1>1, <2>2 DEF Gone
    <3>2. QED
      BY <3>1 DEF Faithful
  <2>3. CASE k = c /\ calls # <<>>
    <3>1. /\ work'[k] = work[k]
          /\ \A p \in Objects \cap cur'[k] :
               \/ copy'[k][p] = obj'[p] /\ obj'[p].live
               \/ p \in cur[k] /\ obj'[p] = obj[p] /\ copy'[k][p] = copy[k][p]
      BY <1>1, <1>2, <2>3 DEF Gone
    <3>2. QED
      BY <2>3, <3>1 DEF DependentsInv, CopyInv, Faithful, NamesCredentials
  <2>4. QED
    BY <2>1, <2>2, <2>3
<1>7. QED
  BY <1>1, <1>3, <1>4, <1>5, <1>6 DEF Gone, DependentsInv, CopyInv

(* Who has the latest copy after a write.                                  *)
LEMMA LatestEffect ==
  ASSUME FullTypeOK, NEW c, NEW o \in Objects, NEW n
  PROVE  /\ Latest(c, o, n) \in [Callers -> SUBSET Copies]
         /\ \A k \in Callers : Latest(c, o, n)[k] \subseteq cur[k] \cup {o}
         /\ \A k \in Callers \ {c} :
              /\ Latest(c, o, n)[k] \subseteq cur[k]
              /\ o \in Latest(c, o, n)[k] => n = obj[o]
BY DEF Latest, FullTypeOK, DependentsTypeOK, Copies

(* A call that stops, or goes on with the copies it has.                   *)
LEMMA StopSafe ==
  ASSUME FullTypeOK, DependentsInv, NEW c \in Callers, todo[c] # <<>>,
         \/ Stop(c) \/ Proceed(c) \/ Missing(c),
         obj' = obj, events' \in 0..MaxEvents,
         res' \in [Callers -> Resource], seen' \subseteq Callers,
         res'["dbuser"].spec.legacy = {}
  PROVE  SafeStep
<1>1. /\ cur \in [Callers -> SUBSET Copies] /\ NoCopies \in [Objects -> Object]
      /\ copy[c] \in [Objects -> Object]
  BY NoObjectType DEF FullTypeOK, DependentsTypeOK
<1>2. CASE Stop(c)
  BY <1>1, <1>2, ReadOnly DEF Stop
<1>3. CASE Proceed(c) \/ Missing(c)
  <2>1. PICK calls : Go(c, calls, copy[c], cur)
    BY <1>3 DEF Proceed, Missing
  <2>2. Faithful(c, copy[c], cur[c])
    BY DEF DependentsInv, CopyInv
  <2>3. QED
    BY <1>1, <2>1, <2>2, ReadOnly
<1>4. QED
  BY <1>2, <1>3

(* A call that fails.                                                      *)
LEMMA EventType == ASSUME FullTypeOK, Event PROVE events' \in 0..MaxEvents
BY HelperAssumption DEF Event, FullTypeOK, DependentsTypeOK

LEMMA BrokenSafe ==
  ASSUME FullTypeOK, DependentsInv, NEW c \in Callers, todo[c] # <<>>,
         Broken(c), UNCHANGED resVars
  PROVE  SafeStep
<1>1. obj' = obj /\ events' \in 0..MaxEvents /\ Stop(c)
  BY EventType DEF Broken
<1>2. /\ res' \in [Callers -> Resource] /\ seen' \subseteq Callers
      /\ res'["dbuser"].spec.legacy = {}
  BY DEF resVars, FullTypeOK, DependentsTypeOK, DependentsInv, LegacyInv
<1>3. QED
  BY <1>1, <1>2, StopSafe

(* Cli.Update of an object that, by the copy, is the caller's or nobody's. *)
LEMMA UpdateSafe ==
  ASSUME FullTypeOK, DependentsInv, NEW c \in Callers, NEW o \in Objects,
         NEW rest, NEW n \in Object, todo[c] # <<>>,
         Update(c, o, rest, n), UNCHANGED resVars,
         copy[c][o].label \in {c, None},
         n.live = copy[c][o].live, n.keys = copy[c][o].keys
  PROVE  SafeStep
<1>1. /\ cur \in [Callers -> SUBSET Copies] /\ NoCopies \in [Objects -> Object]
      /\ copy[c] \in [Objects -> Object] /\ NoObject \in Object
      /\ events \in 0..MaxEvents
  BY NoObjectType DEF FullTypeOK, DependentsTypeOK
<1>2. /\ res' \in [Callers -> Resource] /\ seen' \subseteq Callers
      /\ res'["dbuser"].spec.legacy = {}
  BY DEF resVars, FullTypeOK, DependentsTypeOK, DependentsInv, LegacyInv
<1>3. CASE obj' = obj /\ events' = events /\ (Stop(c) \/ Missing(c))
  BY <1>1, <1>2, <1>3, StopSafe
<1>4. CASE Broken(c)
  BY <1>4, BrokenSafe
<1>5. ASSUME obj[o].live, o \in cur[c], Store(o, n),
             FullTypeOK', DependentsInv',
             \A k \in Callers \ {c} : todo'[k] = todo[k]
      PROVE  SafeStep
  <2>1. /\ obj'[o] = n
        /\ \A p \in Objects \ {o} : obj'[p] = obj[p]
    BY <1>5 DEF Store, FullTypeOK, DependentsTypeOK
  <2>2. /\ obj[o].label = copy[c][o].label
        /\ o = "secret" => Blocked \cap obj[o].keys \subseteq copy[c][o].keys
                             \/ NamesCredentials(c)
    BY <1>5 DEF DependentsInv, CopyInv, Faithful
  <2>3. OwnerStep
    BY <1>5, <2>1, <2>2 DEF OwnerStep
  <2>4. ~NamesCredentials("dbuser")
    BY DEF DependentsInv, LegacyInv, NamesCredentials
  <2>5. KeysStep
    BY <2>1, <2>2, <2>4 DEF KeysStep, Callers, Objects
  <2>6. QED
    BY <1>5, <2>3, <2>5 DEF SafeStep
<1>6. None \notin Callers
  BY HelperAssumption
<1>7. CASE /\ obj[o].live /\ o \in cur[c] /\ Store(o, n)
           /\ Go(c, rest, [copy[c] EXCEPT ![o] = n], Latest(c, o, n))
           /\ UNCHANGED events
  <2>1. n.live
    BY <1>7 DEF DependentsInv, CopyInv, Faithful
  <2> DEFINE copies == [copy[c] EXCEPT ![o] = n]
             latest == Latest(c, o, n)
  <2>2. copies \in [Objects -> Object] /\ latest \in [Callers -> SUBSET Copies]
    BY <1>1, LatestEffect
  <2>3. \A k \in Callers \ {c} :
          latest[k] \subseteq cur[k] /\ (o \in latest[k] => n = obj[o])
    BY LatestEffect
  <2>4. \A p \in Objects \cap latest[c] :
          IF p = o THEN copies[p] = n /\ n.live
          ELSE p \in cur[c] /\ copies[p] = copy[c][p]
    BY <1>1, <2>1, LatestEffect
  <2>5. /\ Go(c, rest, copies, latest) /\ Store(o, n)
        /\ events' \in 0..MaxEvents
    BY <1>1, <1>7
  <2> HIDE DEF copies, latest
  <2>6. /\ FullTypeOK' /\ DependentsInv'
        /\ \A k \in Callers \ {c} : todo'[k] = todo[k]
    BY <2>2, <2>3, <2>4, <2>5, Written
  <2>7. QED
    BY <1>5, <1>7, <2>6
<1>8. CASE /\ obj[o].live /\ o \in cur[c] /\ Store(o, n)
           /\ Go(c, rest, [copy[c] EXCEPT ![o] = NoObject],
                 [Latest(None, o, n) EXCEPT ![c] = @ \ {o}])
           /\ UNCHANGED events
  <2> DEFINE copies == [copy[c] EXCEPT ![o] = NoObject]
             latest == [Latest(None, o, n) EXCEPT ![c] = @ \ {o}]
  <2>1. copies \in [Objects -> Object] /\ latest \in [Callers -> SUBSET Copies]
    BY <1>1, LatestEffect
  <2>2. \A k \in Callers \ {c} :
          latest[k] \subseteq cur[k] /\ (o \in latest[k] => n = obj[o])
    BY <1>6, LatestEffect
  <2>3. \A p \in Objects \cap latest[c] :
          IF p = o THEN copies[p] = n /\ n.live
          ELSE p \in cur[c] /\ copies[p] = copy[c][p]
    <3>0. Latest(None, o, n) \in [Callers -> SUBSET Copies]
      BY LatestEffect
    <3>1. latest[c] = Latest(None, o, n)[c] \ {o}
      BY <3>0
    <3>2. Latest(None, o, n)[c] \subseteq cur[c]
      BY <1>6, LatestEffect
    <3>3. QED
      BY <1>1, <3>1, <3>2
  <2>4. /\ Go(c, rest, copies, latest) /\ Store(o, n)
        /\ events' \in 0..MaxEvents
    BY <1>1, <1>8
  <2> HIDE DEF copies, latest
  <2>5. /\ FullTypeOK' /\ DependentsInv'
        /\ \A k \in Callers \ {c} : todo'[k] = todo[k]
    BY <2>1, <2>2, <2>3, <2>4, Written
  <2>6. QED
    BY <1>5, <1>8, <2>5
<1>9. CASE /\ obj[o].live /\ o \in cur[c] /\ Event /\ Store(o, n)
           /\ Go(c, <<>>, NoCopies, Latest(None, o, n))
  <2>1. Latest(None, o, n) \in [Callers -> SUBSET Copies]
    BY LatestEffect
  <2>2. \A k \in Callers \ {c} :
          /\ Latest(None, o, n)[k] \subseteq cur[k]
          /\ o \in Latest(None, o, n)[k] => n = obj[o]
    BY <1>6, LatestEffect
  <2>3. events' \in 0..MaxEvents
    BY <1>9, EventType
  <2>4. /\ FullTypeOK' /\ DependentsInv'
        /\ \A k \in Callers \ {c} : todo'[k] = todo[k]
    BY <1>1, <1>9, <2>1, <2>2, <2>3, Written
  <2>5. QED
    BY <1>5, <1>9, <2>4
<1>10. QED
  BY <1>3, <1>4, <1>7, <1>8, <1>9 DEF Update

-----------------------------------------------------------------------------
(* Calls of the helper *)

(* The types of what a call leaves alone.                                  *)
LEMMA SameRest ==
  ASSUME FullTypeOK, DependentsInv, UNCHANGED resVars
  PROVE  /\ res' \in [Callers -> Resource] /\ seen' \subseteq Callers
         /\ res'["dbuser"].spec.legacy = {}
BY DEF resVars, FullTypeOK, DependentsTypeOK, DependentsInv, LegacyInv

(* Going on with n in memory as the latest o.                              *)
LEMMA ReadSafe ==
  ASSUME FullTypeOK, DependentsInv, NEW c \in Callers, NEW o \in Objects,
         NEW n \in Object, NEW calls, NEW s \in SUBSET Copies,
         s \subseteq cur[c] \cup {o, "original"},
         obj[o].live, n.live, n.label = obj[o].label,
         o = "secret" => Blocked \cap obj[o].keys \subseteq n.keys
                          \/ NamesCredentials(c),
         todo[c] # <<>>,
         Go(c, calls, [copy[c] EXCEPT ![o] = n], [cur EXCEPT ![c] = s]),
         UNCHANGED <<obj, events>>, UNCHANGED resVars
  PROVE  SafeStep
<1> DEFINE copies == [copy[c] EXCEPT ![o] = n]
           latest == [cur EXCEPT ![c] = s]
<1>1. /\ copies \in [Objects -> Object] /\ copies[o] = n
      /\ \A p \in Objects \ {o} : copies[p] = copy[c][p]
  BY DEF FullTypeOK, DependentsTypeOK
<1>2. /\ latest \in [Callers -> SUBSET Copies] /\ latest[c] = s
      /\ \A k \in Callers \ {c} : latest[k] = cur[k]
  BY DEF FullTypeOK, DependentsTypeOK
<1>3. Go(c, calls, copies, latest) /\ obj' = obj /\ events' \in 0..MaxEvents
  BY DEF FullTypeOK, DependentsTypeOK
<1> HIDE DEF copies, latest
<1>4. Faithful(c, copies, latest[c])
  <2>1. Faithful(c, copy[c], cur[c])
    BY DEF DependentsInv, CopyInv
  <2>2. QED
    BY <1>1, <1>2, <2>1 DEF Faithful, Objects
<1>5. QED
  BY <1>1, <1>2, <1>3, <1>4, SameRest, ReadOnly

LEMMA GetObjectSafe ==
  ASSUME FullTypeOK, DependentsInv, NEW c \in Callers, NEW o \in Objects,
         GetObject(c, o), UNCHANGED resVars
  PROVE  SafeStep
<1>1. todo[c] # <<>> /\ events \in 0..MaxEvents /\ obj[o] \in Object
      /\ cur[c] \in SUBSET Copies /\ Objects \subseteq Copies
  BY DEF GetObject, At, FullTypeOK, DependentsTypeOK, Copies
<1>2. CASE /\ obj[o].live
           /\ Go(c, Tail(todo[c]), Fetched(c, o), WithLatest(c, o))
           /\ UNCHANGED <<obj, events>>
  <2>1. cur[c] \cup {o} \in SUBSET Copies
    BY <1>1
  <2>2. [cur EXCEPT ![c] = @ \cup {o}] = [cur EXCEPT ![c] = cur[c] \cup {o}]
    BY DEF FullTypeOK, DependentsTypeOK
  <2>3. QED
    BY <1>1, <1>2, <2>1, <2>2, ReadSafe DEF Fetched, WithLatest
<1>3. CASE Missing(c) /\ UNCHANGED <<obj, events>>
  BY <1>1, <1>3, SameRest, StopSafe
<1>4. CASE Broken(c)
  BY <1>1, <1>4, BrokenSafe
<1>5. QED
  BY <1>2, <1>3, <1>4 DEF GetObject

LEMMA CreateObjectSafe ==
  ASSUME FullTypeOK, DependentsInv, NEW c \in Callers, NEW o \in Objects,
         NEW n \in Object, CreateObject(c, o, n), UNCHANGED resVars
  PROVE  SafeStep
<1>1. /\ todo[c] # <<>> /\ events \in 0..MaxEvents
      /\ cur \in [Callers -> SUBSET Copies] /\ copy[c] \in [Objects -> Object]
      /\ NoCopies \in [Objects -> Object]
  BY NoObjectType DEF CreateObject, At, FullTypeOK, DependentsTypeOK
<1>2. CASE Proceed(c) /\ UNCHANGED <<obj, events>>
  BY <1>1, <1>2, SameRest, StopSafe
<1>3. CASE Broken(c)
  BY <1>1, <1>3, BrokenSafe
<1>4. CASE ~obj[o].live /\ Store(o, n) /\ (Proceed(c) \/ Stop(c))
           /\ events' \in 0..MaxEvents
  <2>1. \A k \in Callers : o \notin cur[k]
    BY <1>4 DEF DependentsInv, CopyInv, Faithful
  <2>2. PICK calls, copies :
          /\ copies \in [Objects -> Object]
          /\ Go(c, calls, copies, cur)
          /\ calls # <<>> => copies = copy[c]
    <3>1. CASE Proceed(c)
      BY <1>1, <3>1 DEF Proceed
    <3>2. CASE Stop(c)
      BY <1>1, <3>2 DEF Stop
    <3>3. QED
      BY <1>4, <3>1, <3>2
  <2>3. /\ FullTypeOK' /\ DependentsInv'
        /\ \A k \in Callers \ {c} : todo'[k] = todo[k]
    <3>1. \A k \in Callers \ {c} :
            cur[k] \subseteq cur[k] /\ (o \in cur[k] => n = obj[o])
      BY <2>1
    <3>2. calls # <<>> =>
            \A p \in Objects \cap cur[c] :
              IF p = o THEN copies[p] = n /\ n.live
              ELSE p \in cur[c] /\ copies[p] = copy[c][p]
      BY <2>1, <2>2
    <3>3. QED
      BY <1>1, <1>4, <2>2, <3>1, <3>2, Written
  <2>4. \A p \in Objects : obj[p].live => obj'[p] = obj[p]
    BY <1>4 DEF Store, FullTypeOK, DependentsTypeOK
  <2>5. OwnerStep /\ KeysStep
    BY <2>4 DEF OwnerStep, KeysStep, Objects
  <2>6. QED
    BY <2>3, <2>5 DEF SafeStep
<1>5. QED
  BY <1>1, <1>2, <1>3, <1>4, EventType DEF CreateObject

LEMMA OwnSafe ==
  ASSUME FullTypeOK, DependentsInv, NEW c \in Callers, NEW o \in Objects,
         todo[c] # <<>>, Own(c, o), UNCHANGED resVars
  PROVE  SafeStep
<1>1. copy[c][o] \in Object /\ events \in 0..MaxEvents
  BY DEF FullTypeOK, DependentsTypeOK
<1>2. CASE /\ copy[c][o].label = c
           /\ Update(c, o, Tail(todo[c]), SetOwnerReference(c, copy[c][o]))
  BY <1>1, <1>2, HelperEdits, UpdateSafe
<1>3. CASE Stop(c) /\ UNCHANGED <<obj, events>>
  BY <1>1, <1>3, SameRest, StopSafe
<1>4. QED
  BY <1>2, <1>3 DEF Own, IsUsedByCaller

LEMMA UpdateObjectSafe ==
  ASSUME FullTypeOK, DependentsInv, NEW c \in Callers, NEW o \in Objects,
         UpdateObject(c, o), UNCHANGED resVars
  PROVE  SafeStep
<1>1. copy[c][o] \in Object /\ todo[c] # <<>>
  BY DEF FullTypeOK, DependentsTypeOK, UpdateObject, At
<1>2. CASE Own(c, o)
  BY <1>1, <1>2, OwnSafe
<1>3. ASSUME NEW rest, copy[c][o].label = None,
             Update(c, o, rest, SetUsedByLabels(c, copy[c][o]))
      PROVE  SafeStep
  BY <1>1, <1>3, HelperEdits, UpdateSafe
<1>4. QED
  BY <1>2, <1>3 DEF UpdateObject, IsUsedByAny

LEMMA ReleaseObjectSafe ==
  ASSUME FullTypeOK, DependentsInv, NEW c \in Callers, NEW o \in Objects,
         ReleaseObject(c, o), UNCHANGED resVars
  PROVE  SafeStep
<1>1. copy[c][o] \in Object /\ todo[c] # <<>> /\ events \in 0..MaxEvents
  BY DEF FullTypeOK, DependentsTypeOK, ReleaseObject, At
<1>2. CASE /\ copy[c][o].label = c
           /\ Update(c, o, Tail(todo[c]), DeleteUsedByLabels(copy[c][o]))
  BY <1>1, <1>2, HelperEdits, UpdateSafe
<1>3. CASE Stop(c) /\ UNCHANGED <<obj, events>>
  BY <1>1, <1>3, SameRest, StopSafe
<1>4. QED
  BY <1>2, <1>3 DEF ReleaseObject, IsUsedByCaller

-----------------------------------------------------------------------------
(* Calls of the controllers *)

LEMMA FindSecretSafe ==
  ASSUME FullTypeOK, DependentsInv, NEW c \in Callers, FindSecret(c)
  PROVE  SafeStep
<1>1. /\ todo[c] # <<>> /\ events \in 0..MaxEvents
      /\ "secret" \in Objects /\ obj["secret"] \in Object
      /\ copy[c] \in [Objects -> Object] /\ cur \in [Callers -> SUBSET Copies]
      /\ cur[c] \cup {"secret"} \in SUBSET Copies /\ UNCHANGED resVars
  BY DEF FindSecret, At, FullTypeOK, DependentsTypeOK, Copies, Objects
<1>2. CASE /\ obj["secret"].live
           /\ Go(c, Tail(todo[c]), Fetched(c, "secret"), WithLatest(c, "secret"))
           /\ UNCHANGED <<obj, events>>
  <2>1. [cur EXCEPT ![c] = @ \cup {"secret"}]
          = [cur EXCEPT ![c] = cur[c] \cup {"secret"}]
    BY <1>1
  <2>2. QED
    BY <1>1, <1>2, <2>1, ReadSafe DEF Fetched, WithLatest
<1>3. ASSUME NEW calls, Go(c, calls, copy[c], cur), UNCHANGED <<obj, events>>
      PROVE  SafeStep
  <2>1. Faithful(c, copy[c], cur[c])
    BY DEF DependentsInv, CopyInv
  <2>2. QED
    BY <1>1, <1>3, <2>1, SameRest, ReadOnly
<1>4. CASE Broken(c)
  BY <1>1, <1>4, BrokenSafe
<1>5. QED
  BY <1>2, <1>3, <1>4 DEF FindSecret

LEMMA RenderLegacySafe ==
  ASSUME FullTypeOK, DependentsInv, NEW c \in Callers, RenderLegacy(c)
  PROVE  SafeStep
<1> DEFINE n == [obj["secret"] EXCEPT !.keys = LegacyKeys(@, work[c].spec.legacy)]
<1>1. /\ todo[c] # <<>> /\ events \in 0..MaxEvents
      /\ "secret" \in Objects /\ obj["secret"] \in Object
      /\ cur \in [Callers -> SUBSET Copies]
      /\ cur[c] \cup {"secret", "original"} \in SUBSET Copies
      /\ work[c].spec.legacy \in SUBSET Keys /\ UNCHANGED resVars
  BY DEF RenderLegacy, At, FullTypeOK, DependentsTypeOK, Copies, Objects,
     Resource, Specs
<1>2. /\ n \in Object /\ n.live = obj["secret"].live
      /\ n.label = obj["secret"].label
      /\ n.keys = LegacyKeys(obj["secret"].keys, work[c].spec.legacy)
  BY <1>1, DependentsAssumption DEF Object, LegacyKeys
<1>3. Blocked \cap obj["secret"].keys \subseteq n.keys \/ NamesCredentials(c)
  BY <1>2 DEF LegacyKeys, NamesCredentials
<1>4. CASE /\ obj["secret"].live
           /\ Go(c, Tail(todo[c]), [copy[c] EXCEPT !["secret"] = n],
                 [cur EXCEPT ![c] = @ \cup {"secret", "original"}])
           /\ UNCHANGED <<obj, events>>
  <2>1. [cur EXCEPT ![c] = @ \cup {"secret", "original"}]
          = [cur EXCEPT ![c] = cur[c] \cup {"secret", "original"}]
    BY <1>1
  <2> HIDE DEF n
  <2>2. QED
    BY <1>1, <1>2, <1>3, <1>4, <2>1, ReadSafe
<1>5. CASE Stop(c) /\ UNCHANGED <<obj, events>>
  BY <1>1, <1>5, SameRest, StopSafe
<1>6. CASE Broken(c)
  BY <1>1, <1>6, BrokenSafe
<1>7. QED
  BY <1>4, <1>5, <1>6 DEF RenderLegacy

LEMMA WriteLegacySafe ==
  ASSUME FullTypeOK, DependentsInv, NEW c \in Callers, WriteLegacy(c)
  PROVE  SafeStep
<1>1. /\ todo[c] # <<>> /\ events \in 0..MaxEvents
      /\ copy[c] \in [Objects -> Object] /\ cur \in [Callers -> SUBSET Copies]
      /\ UNCHANGED resVars
  BY DEF WriteLegacy, At, FullTypeOK, DependentsTypeOK
<1>2. CASE /\ Go(c, Tail(todo[c]), copy[c], [cur EXCEPT ![c] = @ \ {"original"}])
           /\ UNCHANGED <<obj, events>>
  <2> DEFINE latest == [cur EXCEPT ![c] = @ \ {"original"}]
  <2>1. /\ latest \in [Callers -> SUBSET Copies]
        /\ latest[c] \subseteq cur[c]
        /\ \A k \in Callers \ {c} : latest[k] = cur[k]
    BY <1>1
  <2>2. Go(c, Tail(todo[c]), copy[c], latest)
    BY <1>2
  <2> HIDE DEF latest
  <2>3. Faithful(c, copy[c], latest[c])
    BY <2>1 DEF DependentsInv, CopyInv, Faithful
  <2>4. QED
    BY <1>1, <1>2, <2>1, <2>2, <2>3, SameRest, ReadOnly
<1>3. CASE Stop(c) /\ UNCHANGED <<obj, events>>
  BY <1>1, <1>3, SameRest, StopSafe
<1>4. CASE Broken(c)
  BY <1>1, <1>4, BrokenSafe
<1>5. QED
  BY <1>2, <1>3, <1>4 DEF WriteLegacy

(* Rendering adds keys and changes nothing else.                           *)
LEMMA RenderedObject ==
  ASSUME NEW c \in Callers, NEW n \in Object, NEW names \in SUBSET Keys
  PROVE  /\ Rendered(c, n, names) \in Object
         /\ Rendered(c, n, names).live = n.live
         /\ Rendered(c, n, names).label = n.label
         /\ n.keys \subseteq Rendered(c, n, names).keys
BY DEF Rendered, Object

LEMMA RenderSafe ==
  ASSUME FullTypeOK, DependentsInv, NEW c \in Callers, Render(c)
  PROVE  SafeStep
<1> DEFINE s == work[c].spec
           a == Rendered(c, copy[c]["secret"], s.secret)
           b == Rendered(c, obj["configMap"], s.config)
           copies == [copy[c] EXCEPT !["secret"] = a, !["configMap"] = b]
           latest == [cur EXCEPT ![c] = @ \cup {"configMap"}]
<1>1. /\ todo[c] # <<>> /\ events \in 0..MaxEvents
      /\ copy[c] \in [Objects -> Object] /\ cur \in [Callers -> SUBSET Copies]
      /\ copy[c]["secret"] \in Object /\ obj["configMap"] \in Object
      /\ s.secret \in SUBSET Keys /\ s.config \in SUBSET Keys
      /\ UNCHANGED resVars
  BY DEF Render, At, FullTypeOK, DependentsTypeOK, Copies, Objects, Resource,
     Specs
<1>2. /\ a \in Object /\ a.live = copy[c]["secret"].live
      /\ a.label = copy[c]["secret"].label
      /\ copy[c]["secret"].keys \subseteq a.keys
      /\ b \in Object /\ b.live = obj["configMap"].live
      /\ b.label = obj["configMap"].label
  BY <1>1, RenderedObject
<1>3. CASE /\ obj["configMap"].live
           /\ Go(c, Tail(todo[c]), copies, latest)
           /\ UNCHANGED <<obj, events>>
  <2> HIDE DEF a, b
  <2>1. /\ copies \in [Objects -> Object] /\ copies["secret"] = a
        /\ copies["configMap"] = b /\ copies["cronJob"] = copy[c]["cronJob"]
    BY <1>1, <1>2 DEF Objects
  <2>2. /\ latest \in [Callers -> SUBSET Copies]
        /\ latest[c] = cur[c] \cup {"configMap"}
        /\ \A k \in Callers \ {c} : latest[k] = cur[k]
    BY <1>1 DEF Copies, Objects
  <2>3. Faithful(c, copy[c], cur[c])
    BY DEF DependentsInv, CopyInv
  <2> HIDE DEF copies, latest
  <2>4. Faithful(c, copies, latest[c])
    <3>1. ASSUME "secret" \in cur[c]
          PROVE  /\ obj["secret"].live /\ a.live
                 /\ a.label = obj["secret"].label
                 /\ \/ Blocked \cap obj["secret"].keys \subseteq a.keys
                    \/ NamesCredentials(c)
      <4>1. /\ obj["secret"].live /\ copy[c]["secret"].live
            /\ copy[c]["secret"].label = obj["secret"].label
            /\ \/ Blocked \cap obj["secret"].keys
                     \subseteq copy[c]["secret"].keys
               \/ NamesCredentials(c)
        BY <2>3, <3>1 DEF Faithful, Objects
      <4>2. QED
        BY <1>2, <4>1
    <3>2. ASSUME "cronJob" \in cur[c]
          PROVE  /\ obj["cronJob"].live /\ copy[c]["cronJob"].live
                 /\ copy[c]["cronJob"].label = obj["cronJob"].label
      BY <2>3, <3>2 DEF Faithful, Objects
    <3>3. QED
      BY <1>2, <1>3, <2>1, <2>2, <3>1, <3>2 DEF Faithful, Objects
  <2>5. QED
    BY <1>1, <1>3, <2>1, <2>2, <2>4, SameRest, ReadOnly
<1>4. CASE Stop(c) /\ UNCHANGED <<obj, events>>
  BY <1>1, <1>4, SameRest, StopSafe
<1>5. CASE Broken(c)
  BY <1>1, <1>5, BrokenSafe
<1>6. QED
  <2>1. [copy[c] EXCEPT !["secret"] = Rendered(c, @, s.secret),
                        !["configMap"] = Rendered(c, obj["configMap"], s.config)]
          = copies
    BY <1>1 DEF Objects
  <2>2. QED
    BY <1>3, <1>4, <1>5, <2>1 DEF Render, WithLatest

LEMMA RenderUserSafe ==
  ASSUME FullTypeOK, DependentsInv, NEW c \in Callers, RenderUser(c)
  PROVE  SafeStep
<1> DEFINE n == Rendered(c, obj["secret"], work[c].spec.secret)
<1>1. /\ todo[c] # <<>> /\ events \in 0..MaxEvents
      /\ "secret" \in Objects /\ obj["secret"] \in Object
      /\ cur \in [Callers -> SUBSET Copies]
      /\ cur[c] \cup {"secret"} \in SUBSET Copies
      /\ work[c].spec.secret \in SUBSET Keys /\ UNCHANGED resVars
  BY DEF RenderUser, At, FullTypeOK, DependentsTypeOK, Copies, Objects,
     Resource, Specs
<1>2. /\ n \in Object /\ n.live = obj["secret"].live
      /\ n.label = obj["secret"].label
      /\ obj["secret"].keys \subseteq n.keys
  BY <1>1, RenderedObject
<1>3. CASE /\ obj["secret"].live
           /\ Go(c, Tail(todo[c]), [copy[c] EXCEPT !["secret"] = n],
                 WithLatest(c, "secret"))
           /\ UNCHANGED <<obj, events>>
  <2>1. WithLatest(c, "secret") = [cur EXCEPT ![c] = cur[c] \cup {"secret"}]
    BY <1>1 DEF WithLatest
  <2>2. Blocked \cap obj["secret"].keys \subseteq n.keys
    BY <1>2
  <2> HIDE DEF n
  <2>3. Go(c, Tail(todo[c]), [copy[c] EXCEPT !["secret"] = n],
           [cur EXCEPT ![c] = cur[c] \cup {"secret"}])
    BY <1>3, <2>1
  <2>4. QED
    BY <1>1, <1>2, <1>3, <2>2, <2>3, ReadSafe
<1>4. CASE (Stop(c) \/ Missing(c)) /\ UNCHANGED <<obj, events>>
  BY <1>1, <1>4, SameRest, StopSafe
<1>5. CASE Broken(c)
  BY <1>1, <1>5, BrokenSafe
<1>6. QED
  BY <1>3, <1>4, <1>5 DEF RenderUser

-----------------------------------------------------------------------------
(* Resources *)

(* Both finalizer steps write the resource and no object.                  *)
LEMMA FinalizerSafe ==
  ASSUME FullTypeOK, DependentsInv, NEW c \in Callers,
         AddFinalizer(c) \/ RemoveFinalizer(c)
  PROVE  SafeStep
<1>1. /\ todo[c] # <<>> /\ events \in 0..MaxEvents
      /\ res \in [Callers -> Resource] /\ seen \subseteq Callers
      /\ res["dbuser"].spec.legacy = {} /\ "dbuser" \in Callers
  BY DEF AddFinalizer, RemoveFinalizer, At, FullTypeOK, DependentsTypeOK,
     DependentsInv, LegacyInv, Callers
<1>2. CASE UNCHANGED <<res, seen, obj, events>> /\ (Stop(c) \/ Proceed(c))
  BY <1>1, <1>2, StopSafe
<1>3. CASE Broken(c) /\ UNCHANGED <<res, seen>>
  BY <1>1, <1>3, BrokenSafe DEF resVars
<1>4. CASE /\ res' = [res EXCEPT ![c].fin = TRUE]
           /\ Proceed(c) /\ UNCHANGED <<obj, events, seen>>
  <2>1. /\ [res[c] EXCEPT !.fin = TRUE] \in Resource
        /\ [res[c] EXCEPT !.fin = TRUE].spec = res[c].spec
    BY <1>1 DEF Resource
  <2>2. res' = [res EXCEPT ![c] = [res[c] EXCEPT !.fin = TRUE]]
    BY <1>4
  <2>3. res' \in [Callers -> Resource] /\ res'["dbuser"].spec.legacy = {}
    BY <1>1, <2>1, <2>2
  <2>4. QED
    BY <1>1, <1>4, <2>3, StopSafe
<1>5. CASE /\ res' = [res EXCEPT ![c] = [NoResource EXCEPT !.uid = res[c].uid]]
           /\ Proceed(c) /\ UNCHANGED <<obj, events, seen>>
  <2>1. res[c].uid \in Nat
    BY <1>1 DEF Resource
  <2>2. res' \in [Callers -> Resource] /\ res'["dbuser"].spec.legacy = {}
    BY <1>1, <1>5, <2>1, GoneType, NoResourceType
  <2>3. QED
    BY <1>1, <1>5, <2>2, StopSafe
<1>6. QED
  BY <1>2, <1>3, <1>4, <1>5 DEF AddFinalizer, RemoveFinalizer

(* A reconcile starts without copies.                                      *)
LEMMA ReconcileSafe ==
  ASSUME FullTypeOK, DependentsInv, NEW c \in Callers, Reconcile(c)
  PROVE  SafeStep
<1>1. /\ res[c] \in Resource /\ res[c].live /\ cur[c] = {}
      /\ UNCHANGED <<obj, copy, cur, events, res>> /\ seen' = seen \cup {c}
  BY DEF Reconcile, FullTypeOK, DependentsTypeOK, DependentsInv, IdleInv
<1>2. /\ work' \in [Callers -> Resource] /\ work'[c] = res[c]
      /\ \A k \in Callers \ {c} : work'[k] = work[k]
  BY <1>1 DEF Reconcile, FullTypeOK, DependentsTypeOK
<1>3. /\ DOMAIN todo' = Callers
      /\ \A k \in Callers \ {c} : todo'[k] = todo[k]
  BY DEF Reconcile, FullTypeOK
<1>4. FullTypeOK'
  BY <1>1, <1>2, <1>3 DEF FullTypeOK, DependentsTypeOK
<1>5. IdleInv' /\ LegacyInv'
  BY <1>1, <1>2, <1>3 DEF DependentsInv, IdleInv, LegacyInv, Callers
<1>6. ASSUME NEW k \in Callers PROVE Faithful(k, copy[k], cur[k])'
  <2>1. CASE k = c
    BY <1>1, <2>1 DEF Faithful
  <2>2. CASE k # c
    BY <1>1, <1>2, <2>2
       DEF DependentsInv, CopyInv, Faithful, NamesCredentials
  <2>3. QED
    BY <2>1, <2>2
<1>7. OwnerStep /\ KeysStep
  BY <1>1 DEF OwnerStep, KeysStep
<1>8. QED
  BY <1>4, <1>5, <1>6, <1>7 DEF SafeStep, DependentsInv, CopyInv

(* People change resources; the DbUser's never gets secretsTemplates.      *)
LEMMA ResourceSafe ==
  ASSUME FullTypeOK, DependentsInv, Event,
         res' \in [Callers -> Resource], res'["dbuser"].spec.legacy = {},
         seen' \subseteq Callers, UNCHANGED <<obj, todo, copy, cur, work>>
  PROVE  SafeStep
<1>1. FullTypeOK'
  BY EventType DEF FullTypeOK, DependentsTypeOK
<1>2. IdleInv' /\ LegacyInv'
  BY DEF DependentsInv, IdleInv, LegacyInv
<1>3. CopyInv'
  BY DEF DependentsInv, CopyInv, Faithful, NamesCredentials
<1>4. OwnerStep /\ KeysStep
  BY DEF OwnerStep, KeysStep
<1>5. QED
  BY <1>1, <1>2, <1>3, <1>4 DEF SafeStep, DependentsInv

(* What a spec can be edited to.                                           *)
LEMMA EditedSpecs ==
  ASSUME FullTypeOK, DependentsInv, NEW c \in Callers, NEW e \in Edited(c)
  PROVE  e \in Specs /\ (c = "dbuser" => e.legacy = {})
<1> DEFINE s == res[c].spec
<1>1. s \in Specs /\ (c = "dbuser" => s.legacy = {})
  BY DEF FullTypeOK, DependentsTypeOK, Resource, DependentsInv, LegacyInv
<1>2. \A names \in TemplateSets : names \in SUBSET Keys
  BY DependentsAssumption
<1> HIDE DEF s
<1>3. CASE e = [s EXCEPT !.cleanup = ~@]
  <2>1. (~s.cleanup) \in BOOLEAN
    OBVIOUS
  <2>2. QED
    BY <1>1, <1>3, <2>1 DEF Specs
<1>4. CASE e = [s EXCEPT !.backup = (c = "database") /\ ~@]
  <2>1. ((c = "database") /\ ~s.backup) \in BOOLEAN
    OBVIOUS
  <2>2. QED
    BY <1>1, <1>4, <2>1 DEF Specs
<1>5. CASE /\ c = "database"
           /\ \E names \in TemplateSets :
                e = [s EXCEPT !.legacy = names, !.secret = {}, !.config = {}]
  BY <1>1, <1>2, <1>5 DEF Specs
<1>6. CASE \E names \in TemplateSets :
             e = [s EXCEPT !.legacy = {}, !.secret = names]
  <2>1. PICK names \in SUBSET Keys :
          e = [s EXCEPT !.legacy = {}, !.secret = names]
    BY <1>2, <1>6
  <2>2. QED
    BY <1>1, <2>1 DEF Specs
<1>7. CASE \E names \in TemplateSets :
             e = [s EXCEPT !.legacy = {}, !.config = names]
  <2>1. PICK names \in SUBSET Keys :
          e = [s EXCEPT !.legacy = {}, !.config = names]
    BY <1>2, <1>7
  <2>2. QED
    BY <1>1, <2>1 DEF Specs
<1>8. QED
  BY <1>3, <1>4, <1>5, <1>6, <1>7 DEF Edited, s

LEMMA DefaultedSpec ==
  ASSUME NEW c \in Callers, NEW e \in Specs, c = "dbuser" => e.legacy = {}
  PROVE  /\ Defaulted(c, e) \in Specs
         /\ c = "dbuser" => Defaulted(c, e).legacy = {}
BY DependentsAssumption DEF Defaulted, Specs

LEMMA PeopleSafe ==
  ASSUME FullTypeOK, DependentsInv, NEW c \in Callers,
         EditSpec(c) \/ DeleteResource(c) \/ CreateResource(c)
  PROVE  SafeStep
<1>1. /\ res \in [Callers -> Resource] /\ res[c] \in Resource
      /\ res["dbuser"].spec.legacy = {} /\ "dbuser" \in Callers
      /\ res[c].uid \in Nat /\ res[c].spec \in Specs
  BY DEF FullTypeOK, DependentsTypeOK, DependentsInv, LegacyInv, Callers,
     Resource
<1>2. /\ Event /\ seen' \subseteq Callers
      /\ UNCHANGED <<obj, todo, copy, cur, work>>
  BY DEF EditSpec, DeleteResource, CreateResource, FullTypeOK, DependentsTypeOK
<1>3. ASSUME NEW r \in Resource, c = "dbuser" => r.spec.legacy = {},
             res' = [res EXCEPT ![c] = r]
      PROVE  SafeStep
  <2>1. res' \in [Callers -> Resource] /\ res'["dbuser"].spec.legacy = {}
    BY <1>1, <1>3
  <2>2. QED
    BY <1>2, <2>1, ResourceSafe
<1>4. CASE EditSpec(c)
  <2>1. PICK e \in Edited(c) :
          res' = [res EXCEPT ![c].spec = Defaulted(c, e)]
    BY <1>4 DEF EditSpec
  <2> DEFINE r == [res[c] EXCEPT !.spec = Defaulted(c, e)]
  <2>2. /\ Defaulted(c, e) \in Specs
        /\ c = "dbuser" => Defaulted(c, e).legacy = {}
    BY EditedSpecs, DefaultedSpec
  <2>3. r \in Resource /\ r.spec = Defaulted(c, e)
    BY <1>1, <2>2 DEF Resource
  <2>4. res' = [res EXCEPT ![c] = r]
    BY <2>1
  <2> HIDE DEF r
  <2>5. QED
    BY <1>3, <2>2, <2>3, <2>4
<1>5. CASE DeleteResource(c)
  <2>1. CASE res' = [res EXCEPT ![c] = [res[c] EXCEPT !.deleting = TRUE]]
    <3>1. /\ [res[c] EXCEPT !.deleting = TRUE] \in Resource
          /\ [res[c] EXCEPT !.deleting = TRUE].spec = res[c].spec
      BY <1>1 DEF Resource
    <3>2. QED
      BY <1>1, <1>3, <2>1, <3>1
  <2>2. CASE res' = [res EXCEPT ![c] = [NoResource EXCEPT !.uid = res[c].uid]]
    BY <1>1, <1>3, <2>2, GoneType, NoResourceType
  <2>3. QED
    BY <1>1, <1>5, <2>1, <2>2 DEF DeleteResource
<1>6. CASE CreateResource(c)
  <2> DEFINE r == [live |-> TRUE, deleting |-> FALSE, fin |-> FALSE,
                   uid |-> res[c].uid + 1, spec |-> Defaulted(c, NoSpec)]
  <2>1. /\ Defaulted(c, NoSpec) \in Specs
        /\ c = "dbuser" => Defaulted(c, NoSpec).legacy = {}
    BY NoResourceType, DefaultedSpec
  <2>2. r \in Resource /\ r.spec = Defaulted(c, NoSpec)
    BY <1>1, <2>1 DEF Resource
  <2>3. res' = [res EXCEPT ![c] = r]
    BY <1>1, <1>6 DEF CreateResource
  <2> HIDE DEF r
  <2>4. QED
    BY <1>3, <2>1, <2>2, <2>3
<1>7. QED
  BY <1>4, <1>5, <1>6

-----------------------------------------------------------------------------
(* The environment, and the theorems *)

(* People and the garbage collector replace or remove an object: nobody's  *)
(* copy of it is the latest.                                               *)
LEMMA OutsideWrite ==
  ASSUME FullTypeOK, DependentsInv, NEW o \in Objects, NEW n \in Object,
         n.live => n.keys = obj[o].keys,
         Store(o, n), cur' = Latest(None, o, n), events' \in 0..MaxEvents,
         UNCHANGED <<todo, copy, work, res, seen>>
  PROVE  SafeStep
<1>1. /\ obj' \in [Objects -> Object] /\ obj'[o] = n
      /\ \A p \in Objects \ {o} : obj'[p] = obj[p]
  BY DEF Store, FullTypeOK, DependentsTypeOK
<1>2. /\ cur' \in [Callers -> SUBSET Copies]
      /\ \A k \in Callers :
           /\ cur'[k] \subseteq cur[k]
           /\ o \in cur'[k] => n = obj[o]
  BY LatestEffect, HelperAssumption
<1>3. FullTypeOK'
  BY <1>1, <1>2 DEF FullTypeOK, DependentsTypeOK
<1>4. IdleInv' /\ LegacyInv'
  <2>1. ASSUME NEW k \in Callers, cur[k] = {} PROVE cur'[k] = {}
    BY <1>2, <2>1
  <2>2. QED
    BY <2>1 DEF DependentsInv, IdleInv, LegacyInv
<1>5. ASSUME NEW k \in Callers PROVE Faithful(k, copy[k], cur[k])'
  <2>1. \A p \in Objects \cap cur'[k] : p \in cur[k] /\ obj'[p] = obj[p]
    BY <1>1, <1>2
  <2>2. QED
    BY <2>1 DEF DependentsInv, CopyInv, Faithful, NamesCredentials
<1>6. OwnerStep /\ KeysStep
  BY <1>1 DEF OwnerStep, KeysStep, Objects
<1>7. QED
  BY <1>3, <1>4, <1>5, <1>6 DEF SafeStep, DependentsInv, CopyInv

LEMMA CollectGarbageSafe ==
  ASSUME FullTypeOK, DependentsInv, NEW o \in Objects, CollectGarbage(o)
  PROVE  SafeStep
<1> DEFINE left == {r \in obj[o].refs : ~Dangling(r)}
           n == IF left = {} THEN NoObject ELSE [obj[o] EXCEPT !.refs = left]
<1>1. obj[o] \in Object /\ events \in 0..MaxEvents
  BY DEF FullTypeOK, DependentsTypeOK
<1>2. left \in SUBSET (Callers \X Nat)
  BY <1>1 DEF Object
<1>3. /\ Store(o, n) /\ cur' = Latest(None, o, n) /\ events' = events
      /\ UNCHANGED <<todo, copy, work, res, seen>>
  BY DEF CollectGarbage
<1> HIDE DEF left
<1>4. n \in Object /\ (n.live => n.keys = obj[o].keys)
  BY <1>1, <1>2, NoObjectType DEF Object
<1> HIDE DEF n
<1>5. QED
  BY <1>1, <1>3, <1>4, OutsideWrite

LEMMA DeleteObjectSafe ==
  ASSUME FullTypeOK, DependentsInv, NEW o \in Objects, DeleteObject(o)
  PROVE  SafeStep
<1>1. /\ Store(o, NoObject) /\ cur' = Latest(None, o, NoObject)
      /\ events' \in 0..MaxEvents /\ UNCHANGED <<todo, copy, work, res, seen>>
  BY EventType DEF DeleteObject
<1>2. QED
  BY <1>1, NoObjectType, OutsideWrite

LEMMA RestartSafe == ASSUME FullTypeOK, DependentsInv, Restart PROVE SafeStep
<1>1. FullTypeOK'
  BY NoObjectType, NoResourceType, EventType
     DEF Restart, FullTypeOK, DependentsTypeOK
<1>2. DependentsInv'
  BY NoResourceType DEF Restart, DependentsInv, CopyInv, Faithful, IdleInv,
     LegacyInv, Callers
<1>3. OwnerStep /\ KeysStep
  BY DEF Restart, OwnerStep, KeysStep
<1>4. QED
  BY <1>1, <1>2, <1>3 DEF SafeStep

LEMMA InitSafe == Init => FullTypeOK /\ DependentsInv
<1> SUFFICES ASSUME Init PROVE FullTypeOK /\ DependentsInv
  OBVIOUS
<1>1. ASSUME NEW c \in Callers
      PROVE  LET s == [NoSpec EXCEPT !.cleanup = (c = "database"),
                                     !.backup = (c = "database"),
                                     !.secret = {Default}]
             IN  s \in Specs /\ s.legacy = {}
  <2>1. (c = "database") \in BOOLEAN /\ {Default} \in SUBSET Keys
    BY DependentsAssumption
  <2>2. QED
    BY <2>1, NoResourceType DEF Specs
<1>2. ASSUME NEW c \in Callers
      PROVE  res[c] \in Resource /\ res[c].spec.legacy = {}
  BY <1>1 DEF Init, Resource
<1>3. FullTypeOK
  <2>1. res \in [Callers -> Resource]
    BY <1>2 DEF Init
  <2>2. DOMAIN todo = Callers /\ \A c \in Callers : todo[c] = <<>>
    BY DEF Init
  <2>3. /\ obj \in [Objects -> Object]
        /\ copy \in [Callers -> [Objects -> Object]]
        /\ cur \in [Callers -> SUBSET Copies]
        /\ work \in [Callers -> Resource] /\ seen \subseteq Callers
    BY NoObjectType, NoResourceType DEF Init
  <2>4. events = 0 /\ MaxEvents \in Nat
    BY HelperAssumption DEF Init
  <2>5. events \in 0..MaxEvents
    BY <2>4
  <2>6. QED
    BY <2>1, <2>2, <2>3, <2>5 DEF FullTypeOK, DependentsTypeOK
<1>4. DependentsInv
  BY <1>2, NoResourceType DEF Init, DependentsInv, CopyInv, Faithful, IdleInv,
     LegacyInv, Callers
<1>5. QED
  BY <1>3, <1>4

(* Every step keeps the invariant and is safe.                             *)
LEMMA NextSafe == FullTypeOK /\ DependentsInv /\ [Next]_vars => SafeStep
<1> SUFFICES ASSUME FullTypeOK, DependentsInv, [Next]_vars PROVE SafeStep
  OBVIOUS
<1>1. ASSUME UNCHANGED vars PROVE SafeStep
  <2>1. FullTypeOK' /\ DependentsInv'
    BY <1>1 DEF vars, FullTypeOK, DependentsTypeOK, DependentsInv, CopyInv,
       Faithful, NamesCredentials, IdleInv, LegacyInv
  <2>2. OwnerStep /\ KeysStep
    BY <1>1 DEF vars, OwnerStep, KeysStep
  <2>3. QED
    BY <2>1, <2>2 DEF SafeStep
<1>2. ASSUME NEW c \in Callers, Step(c) PROVE SafeStep
  <2>1. CASE ReconcileGone(c)
    BY <1>1, <2>1 DEF ReconcileGone
  <2>2. ASSUME NEW o \in Objects,
               \/ GetObject(c, o) \/ CreateObject(c, o, Built(c)[o])
               \/ UpdateObject(c, o) \/ ReleaseObject(c, o),
               UNCHANGED resVars
        PROVE  SafeStep
    BY <2>2, BuiltType, GetObjectSafe, CreateObjectSafe, UpdateObjectSafe,
       ReleaseObjectSafe
  <2>3. QED
    BY <1>2, <2>1, <2>2, ReconcileSafe, FindSecretSafe, FinalizerSafe,
       RenderLegacySafe, WriteLegacySafe, RenderSafe, RenderUserSafe DEF Step
<1>3. QED
  BY <1>1, <1>2, PeopleSafe, CollectGarbageSafe, DeleteObjectSafe, RestartSafe
     DEF Next

LEMMA DependentsInvariant == Spec => [](FullTypeOK /\ DependentsInv)
<1>1. FullTypeOK /\ DependentsInv /\ [Next]_vars
        => (FullTypeOK /\ DependentsInv)'
  BY NextSafe DEF SafeStep
<1>2. QED
  BY <1>1, InitSafe, PTL DEF Spec

(* Resources, objects and copies keep their types, and a reconcile with    *)
(* calls left to make works on a resource that it has read.                *)
THEOREM DependentsTypeCorrect == Spec => []DependentsTypeOK
<1>1. FullTypeOK => DependentsTypeOK
  BY DEF FullTypeOK
<1>2. QED
  BY <1>1, DependentsInvariant, PTL

(* No step of a controller changes an object with the label of another     *)
(* resource (kube.go Update and HandleDelete), although the label is read  *)
(* some calls before the write: the write is refused unless the copy is    *)
(* the latest, and the latest copy has the label that is stored.           *)
THEOREM OnlyOwnersWrite == Spec => OnlyOwnerWrites
<1>1. FullTypeOK /\ DependentsInv /\ [Next]_vars =>
        [\A c \in Callers, o \in Objects :
           todo'[c] # todo[c] /\ obj[o].live /\ obj[o].label \notin {c, None}
             => obj'[o] = obj[o]]_vars
  BY NextSafe DEF SafeStep, OwnerStep
<1>2. QED
  BY <1>1, DependentsInvariant, PTL DEF Spec, OnlyOwnerWrites

(* No template, of either kind, takes the generated credentials out of the *)
(* Secret (RemoveObsoleteSecret, Render), unless the secretsTemplates of   *)
(* the Database name one of them, whoever else writes the Secret meanwhile. *)
THEOREM CredentialsAreKept == Spec => CredentialsKept
<1>1. FullTypeOK /\ DependentsInv /\ [Next]_vars =>
        [obj["secret"].live /\ obj'["secret"].live
           /\ Blocked \subseteq obj["secret"].keys
           => \/ Blocked \subseteq obj'["secret"].keys
              \/ work["database"].spec.legacy \cap Blocked # {}]_vars
  BY NextSafe DEF SafeStep, KeysStep, NamesCredentials
<1>2. QED
  BY <1>1, DependentsInvariant, PTL DEF Spec, CredentialsKept
=============================================================================
