------------------------------- MODULE Grants -------------------------------
(***************************************************************************)
(* The extra grants of a Database (createDatabase in                       *)
(* database_controller.go): .spec.extraGrants lists users of the server    *)
(* that get access, .status.extraGrants what was brought to the server.    *)
(* Each reconcile revokes what is only in the status, grants what is only  *)
(* in the spec, and then records the spec in the status; a failure, a      *)
(* conflict or a restart may come between any two of these.  The server is *)
(* postgres: on mysql revokePermissions does nothing.                      *)
(*                                                                         *)
(* An entry is a pair of a user and an access type, and a list is a set of *)
(* entries with at most one for each user.                                 *)
(***************************************************************************)
EXTENDS Naturals

CONSTANTS
  Users,      \* the users of the server
  Patient,    \* people edit the list only when the last edit is recorded
  MaxFaults,  \* bound: failed calls and operator restarts
  MaxEdits    \* bound: edits of the list

ASSUME GrantsAssumption ==
  /\ Patient \in BOOLEAN
  /\ MaxFaults \in Nat
  /\ MaxEdits \in Nat

VARIABLES
  spec,      \* .spec.extraGrants of the Database
  recorded,  \* .status.extraGrants
  allow,     \* .spec.allowExtraGrants of the instance
  granted,   \* granted[u]: the privileges of u on the SQL database
  pc,        \* the next step of the reconcile
  dbcr,      \* the two lists in its memory
  current,   \* this copy of the Database is the latest
  revokes,   \* entries that are still to be revoked
  grants,    \* entries that are still to be granted
  lost,      \* a check whether a user exists has failed
  faults,
  edits

vars == <<spec, recorded, allow, granted, pc, dbcr, current, revokes, grants,
          lost, faults, edits>>

Entries == Users \X {"readOnly", "readWrite"}

Lists == {s \in SUBSET Entries : \A e, f \in s : e[1] = f[1] => e = f}

Privileges == {"read", "write"}

(* setUserPermission: what the access type stands for.                     *)
Access(type) == IF type = "readOnly" THEN {"read"} ELSE {"read", "write"}

NoLists == [spec |-> {}, recorded |-> {}]

GrantsTypeOK ==
  /\ spec \in Lists
  /\ recorded \in Lists
  /\ allow \in BOOLEAN
  /\ granted \in [Users -> SUBSET Privileges]
  /\ pc \in {"idle", "revoke", "grant", "status", "finish"}
  /\ dbcr \in [spec: Lists, recorded: Lists]
  /\ current \in BOOLEAN
  /\ revokes \subseteq Entries
  /\ grants \subseteq Entries
  /\ lost \in BOOLEAN
  /\ faults \in 0..MaxFaults
  /\ edits \in 0..MaxEdits

Init ==
  /\ spec \in Lists
  /\ recorded = {}
  /\ allow \in BOOLEAN
  /\ granted = [u \in Users |-> {}]
  /\ pc = "idle"
  /\ dbcr = NoLists
  /\ current = FALSE
  /\ revokes = {}
  /\ grants = {}
  /\ lost = FALSE
  /\ faults = 0
  /\ edits = 0

-----------------------------------------------------------------------------
resourceVars == <<spec, recorded, allow, edits>>

Fault == faults < MaxFaults /\ faults' = faults + 1

(* The reconcile ends; an error is retried by the next one.                *)
End ==
  /\ pc' = "idle"
  /\ dbcr' = NoLists
  /\ current' = FALSE
  /\ revokes' = {}
  /\ grants' = {}

(* Up to the extra grants.  Recorded grants on an instance that does not   *)
(* allow any are an error.                                                 *)
Reconcile ==
  /\ pc = "idle"
  /\ \/ recorded # {} /\ ~allow /\ UNCHANGED <<pc, dbcr, current, revokes, grants>>
     \/ /\ recorded = {} \/ allow
        /\ pc' = IF allow THEN "revoke" ELSE "status"
        /\ dbcr' = [spec |-> spec, recorded |-> recorded]
        /\ current' = TRUE
        /\ revokes' = IF allow THEN recorded \ spec ELSE {}
        /\ grants' = IF allow THEN spec \ recorded ELSE {}
  /\ UNCHANGED <<resourceVars, granted, lost, faults>>

(* Mutant: revokePermissions of mysql.                                     *)
RevokePermissionsMysql(e) ==
  /\ pc = "revoke"
  /\ e \in revokes
  /\ revokes' = revokes \ {e}
  /\ UNCHANGED <<resourceVars, granted, pc, dbcr, current, grants, lost, faults>>

(* revokePermissions takes everything from the user, unless the check that *)
(* the user exists fails, which is no error; any statement may fail.       *)
RevokePermissions(e) ==
  /\ pc = "revoke"
  /\ e \in revokes
  /\ \/ /\ granted' = [granted EXCEPT ![e[1]] = {}]
        /\ revokes' = revokes \ {e}
        /\ UNCHANGED <<pc, dbcr, current, grants, lost, faults>>
     \/ /\ Fault
        /\ lost' = TRUE
        /\ revokes' = revokes \ {e}
        /\ UNCHANGED <<granted, pc, dbcr, current, grants>>
     \/ /\ Fault
        /\ \E left \in SUBSET granted[e[1]] :
             granted' = [granted EXCEPT ![e[1]] = left]
        /\ End
        /\ UNCHANGED lost
  /\ UNCHANGED resourceVars

AllRevoked ==
  /\ pc = "revoke"
  /\ revokes = {}
  /\ pc' = "grant"
  /\ UNCHANGED <<resourceVars, granted, dbcr, current, revokes, grants, lost,
                 faults>>

(* Mutant: the status in memory has the list before it is granted, so that *)
(* manageError records it after an error.                                  *)
SetPermissionsRecorded(e) ==
  /\ pc = "grant"
  /\ e \in grants
  /\ \/ /\ granted' = [granted EXCEPT ![e[1]] = @ \cup Access(e[2])]
        /\ grants' = grants \ {e}
        /\ UNCHANGED <<recorded, pc, dbcr, current, revokes, faults>>
     \/ /\ Fault
        /\ recorded' = IF current THEN dbcr.spec ELSE recorded
        /\ End
        /\ UNCHANGED granted
  /\ UNCHANGED <<spec, allow, edits, lost>>

SetPermissions(e) ==
  /\ pc = "grant"
  /\ e \in grants
  /\ \/ /\ granted' = [granted EXCEPT ![e[1]] = @ \cup Access(e[2])]
        /\ grants' = grants \ {e}
        /\ UNCHANGED <<pc, dbcr, current, revokes, faults>>
     \/ /\ Fault
        /\ \E part \in SUBSET Access(e[2]) :
             granted' = [granted EXCEPT ![e[1]] = @ \cup part]
        /\ End
  /\ UNCHANGED <<resourceVars, lost>>

(* Mutant: the list is recorded while grants are still missing.            *)
AllGrantedEarly ==
  /\ pc = "grant"
  /\ pc' = "status"
  /\ UNCHANGED <<resourceVars, granted, dbcr, current, revokes, grants, lost,
                 faults>>

AllGranted ==
  /\ pc = "grant"
  /\ grants = {}
  /\ pc' = "status"
  /\ UNCHANGED <<resourceVars, granted, dbcr, current, revokes, grants, lost,
                 faults>>

(* Mutant: the list is added to the one that is recorded.                  *)
UpdateStatusAdding ==
  /\ pc = "status"
  /\ IF current THEN recorded' = recorded \cup dbcr.spec ELSE UNCHANGED recorded
  /\ End
  /\ UNCHANGED <<spec, allow, edits, granted, lost, faults>>

(* The status takes over the list.  A conflict ends the reconcile; after   *)
(* an error manageError writes the same status again, which may succeed.   *)
UpdateStatus ==
  /\ pc = "status"
  /\ \/ /\ current
        /\ recorded' = dbcr.spec
        /\ pc' = "finish"
        /\ UNCHANGED <<dbcr, current, revokes, grants, faults>>
     \/ ~current /\ End /\ UNCHANGED <<recorded, faults>>
     \/ /\ Fault
        /\ \/ current /\ recorded' = dbcr.spec
           \/ UNCHANGED recorded
        /\ End
  /\ UNCHANGED <<spec, allow, edits, granted, lost>>

(* The finalizer, the checksums and the objects around the Database.       *)
Finish == pc = "finish" /\ End /\ UNCHANGED <<resourceVars, granted, lost, faults>>

Restart == pc # "idle" /\ Fault /\ End /\ UNCHANGED <<resourceVars, granted, lost>>

(* People edit the list.                                                   *)
EditSpec ==
  /\ edits < MaxEdits
  /\ edits' = edits + 1
  /\ Patient => recorded = spec
  /\ spec' \in Lists \ {spec}
  /\ current' = FALSE
  /\ UNCHANGED <<recorded, allow, granted, pc, dbcr, revokes, grants, lost, faults>>

Step ==
  \/ Reconcile \/ AllRevoked \/ AllGranted \/ UpdateStatus \/ Finish
  \/ \E e \in Entries : RevokePermissions(e) \/ SetPermissions(e)

Next == Step \/ Restart \/ EditSpec

Spec == Init /\ [][Next]_vars

(* The work queue is served; people and failures owe nothing.              *)
FairSpec == Spec /\ WF_vars(Step)

-----------------------------------------------------------------------------
(* Properties *)

Wished(s, u) == UNION {Access(e[2]) : e \in {f \in s : f[1] = u}}

(* Once the list is recorded, the users of the server have exactly the     *)
(* access that it says: nothing that was granted for an earlier list is    *)
(* left, whatever failed on the way, unless a check whether a user exists  *)
(* was lost (createDatabase; database.md, Extra Grants).                   *)
RecordedMeansApplied ==
  allow /\ recorded = spec /\ ~lost
    => \A u \in Users : granted[u] = Wished(spec, u)

(* In the end, after all edits, failures and restarts, the users of the    *)
(* server have the access that .spec.extraGrants says: an entry that is    *)
(* removed or modified is revoked or changed (createDatabase).             *)
GrantsApplied ==
  <>[](allow /\ ~lost => \A u \in Users : granted[u] = Wished(spec, u))

-----------------------------------------------------------------------------
(* The inductive invariant behind RecordedMeansApplied *)

Has(s, u) == \E e \in s : e[1] = u

(* A user whose recorded entry, if there is one, is still wished has at    *)
(* least what is recorded and at most what is wished.                      *)
StoredInv ==
  \A u \in Users :
    ~Has(recorded \ spec, u) =>
      Wished(recorded, u) \subseteq granted[u] /\ granted[u] \subseteq Wished(spec, u)

(* What the reconcile has still to do, in the lists that it was read from. *)
WorkInv ==
  /\ pc \in {"idle", "status", "finish"} => revokes = {} /\ grants = {}
  /\ pc = "grant" => revokes = {}
  /\ pc \in {"revoke", "grant"} => allow
  /\ pc \in {"revoke", "grant", "status"} /\ ~current => revokes = {} /\ grants = {}
  /\ pc \in {"revoke", "grant", "status"} /\ current =>
       /\ dbcr = [spec |-> spec, recorded |-> recorded]
       /\ revokes \subseteq recorded \ spec
       /\ grants \subseteq spec \ recorded
       /\ pc = "revoke" => grants = spec \ recorded

(* What it has done already: who is revoked has nothing left, and who is   *)
(* granted has all of it.                                                  *)
DoneInv ==
  pc \in {"revoke", "grant", "status"} /\ current =>
    \A u \in Users :
      /\ ~Has(revokes, u) => granted[u] \subseteq Wished(spec, u)
      /\ pc # "revoke" /\ ~Has(grants, u) => granted[u] = Wished(spec, u)

(* Whatever step a reconcile has reached or was interrupted at, the server *)
(* is somewhere between the recorded and the wished list, user by user, in *)
(* a way that the next reconcile can finish from the two lists alone.      *)
GrantsInv ==
  /\ WorkInv
  /\ allow /\ ~lost => StoredInv /\ DoneInv
=============================================================================
