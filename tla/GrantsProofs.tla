---------------------------- MODULE GrantsProofs ----------------------------
(***************************************************************************)
(* The extra grants of a Database are on the server once they are recorded *)
(* (module Grants), for any set of users and any number of edits, failures *)
(* and restarts, provided that people wait for one edit to be recorded     *)
(* before they make the next.  GrantsInv is the inductive invariant.       *)
(***************************************************************************)
EXTENDS Grants, TLAPS

(* A user has a privilege if an entry of the list grants it.               *)
LEMMA WishedElement ==
  ASSUME NEW s, NEW u, NEW p
  PROVE  p \in Wished(s, u) <=> \E e \in s : e[1] = u /\ p \in Access(e[2])
BY DEF Wished

(* A list that keeps the entries of a user keeps what they grant.          *)
LEMMA WishedKept ==
  ASSUME NEW s, NEW t, NEW u, ~Has(s \ t, u)
  PROVE  Wished(s, u) \subseteq Wished(t, u)
BY WishedElement DEF Has

(* A user without an entry is granted nothing.                             *)
LEMMA WishedNothing ==
  ASSUME NEW s, NEW u, ~Has(s, u)
  PROVE  Wished(s, u) = {}
BY WishedElement DEF Has

(* An entry is all that a list says about its user.                        *)
LEMMA WishedEntry ==
  ASSUME NEW s \in Lists, NEW e \in s
  PROVE  Wished(s, e[1]) = Access(e[2])
<1>1. \A f \in s : f[1] = e[1] => f = e
  BY DEF Lists
<1>2. \A p : p \in Wished(s, e[1]) <=> p \in Access(e[2])
  BY <1>1, WishedElement
<1>3. QED
  BY <1>2

(* A user who keeps an entry is neither revoked nor granted anything.      *)
LEMMA KeptEntry ==
  ASSUME NEW s \in Lists, NEW t \in Lists, NEW u, Has(s, u), ~Has(s \ t, u)
  PROVE  Wished(s, u) = Wished(t, u)
<1>1. PICK e \in s : e[1] = u
  BY DEF Has
<1>2. e \in t
  BY <1>1 DEF Has
<1>3. QED
  BY <1>1, <1>2, WishedEntry

(* Entries consist of a user and an access type.                           *)
LEMMA EntryParts ==
  ASSUME NEW e \in Entries
  PROVE  e[1] \in Users /\ Access(e[2]) \subseteq Privileges
BY DEF Entries, Access, Privileges

(* The empty list is a list.                                               *)
LEMMA EmptyList == {} \in Lists /\ NoLists \in [spec: Lists, recorded: Lists]
<1>1. {} \in Lists
  BY DEF Lists
<1>2. QED
  BY <1>1 DEF NoLists

(* A fault stays within its bound.                                         *)
LEMMA FaultType ==
  ASSUME faults \in 0..MaxFaults, Fault PROVE faults' \in 0..MaxFaults
BY GrantsAssumption DEF Fault

-----------------------------------------------------------------------------
(* Types *)

(* The initial states have the types.                                      *)
LEMMA InitType == Init => GrantsTypeOK
<1> SUFFICES ASSUME Init PROVE GrantsTypeOK
  OBVIOUS
<1>1. faults \in 0..MaxFaults /\ edits \in 0..MaxEdits
  BY GrantsAssumption DEF Init
<1>2. granted \in [Users -> SUBSET Privileges]
  BY DEF Init
<1>3. QED
  BY <1>1, <1>2, EmptyList DEF Init, GrantsTypeOK

(* The end of a reconcile has the types.                                   *)
LEMMA EndType ==
  ASSUME End
  PROVE  /\ pc' \in {"idle", "revoke", "grant", "status", "finish"}
         /\ dbcr' \in [spec: Lists, recorded: Lists]
         /\ current' \in BOOLEAN /\ revokes' \subseteq Entries
         /\ grants' \subseteq Entries
BY EmptyList DEF End

(* Every step keeps the types.                                             *)
LEMMA NextType == GrantsTypeOK /\ [Next]_vars => GrantsTypeOK'
<1> SUFFICES ASSUME GrantsTypeOK, [Next]_vars PROVE GrantsTypeOK'
  OBVIOUS
<1> USE DEF GrantsTypeOK, resourceVars
<1>1. CASE Reconcile
  <2>1. spec \subseteq Entries /\ recorded \subseteq Entries
    BY DEF Lists
  <2>2. revokes' \subseteq Entries /\ grants' \subseteq Entries
    BY <1>1, <2>1 DEF Reconcile
  <2>3. dbcr' \in [spec: Lists, recorded: Lists]
    BY <1>1 DEF Reconcile
  <2>4. QED
    BY <1>1, <2>2, <2>3 DEF Reconcile
<1>2. CASE \E e \in Entries : RevokePermissions(e)
  <2>1. PICK e \in Entries : RevokePermissions(e)
    BY <1>2
  <2>2. granted' \in [Users -> SUBSET Privileges]
    BY <2>1, EntryParts DEF RevokePermissions
  <2>3. faults' \in 0..MaxFaults
    BY <2>1, FaultType DEF RevokePermissions
  <2>4. QED
    BY <2>1, <2>2, <2>3, EndType DEF RevokePermissions
<1>3. CASE AllRevoked \/ AllGranted
  BY <1>3 DEF AllRevoked, AllGranted
<1>4. CASE \E e \in Entries : SetPermissions(e)
  <2>1. PICK e \in Entries : SetPermissions(e)
    BY <1>4
  <2>2. granted' \in [Users -> SUBSET Privileges]
    BY <2>1, EntryParts DEF SetPermissions
  <2>3. faults' \in 0..MaxFaults
    BY <2>1, FaultType DEF SetPermissions
  <2>4. QED
    BY <2>1, <2>2, <2>3, EndType DEF SetPermissions
<1>5. CASE UpdateStatus
  <2>1. faults' \in 0..MaxFaults
    BY <1>5, FaultType DEF UpdateStatus
  <2>2. recorded' \in Lists
    BY <1>5 DEF UpdateStatus
  <2>3. QED
    BY <1>5, <2>1, <2>2, EndType DEF UpdateStatus
<1>6. CASE Finish \/ Restart
  BY <1>6, EndType, FaultType DEF Finish, Restart
<1>7. CASE EditSpec
  <2>1. edits' \in 0..MaxEdits
    BY <1>7, GrantsAssumption DEF EditSpec
  <2>2. QED
    BY <1>7, <2>1 DEF EditSpec
<1>8. CASE UNCHANGED vars
  BY <1>8 DEF vars
<1>9. QED
  BY <1>1, <1>2, <1>3, <1>4, <1>5, <1>6, <1>7, <1>8 DEF Next, Step

(* Lists, privileges and working copies have their types in every          *)
(* reachable state, and no list ever has two entries for one user.         *)
THEOREM GrantsTypeCorrect == Spec => []GrantsTypeOK
BY InitType, NextType, PTL DEF Spec

-----------------------------------------------------------------------------
(* The invariant *)

Busy == pc \in {"revoke", "grant", "status"} /\ current

(* While a recorded and a wished list are the same, every user has exactly *)
(* what they say.                                                          *)
LEMMA StoredMeansApplied ==
  ASSUME StoredInv, recorded = spec
  PROVE  \A u \in Users : granted[u] = Wished(spec, u)
BY DEF StoredInv, Has

(* In the initial states nothing is recorded and nothing is granted.       *)
LEMMA InitInv == Init => GrantsInv
<1> SUFFICES ASSUME Init PROVE GrantsInv
  OBVIOUS
<1>1. WorkInv
  BY DEF Init, WorkInv
<1>2. StoredInv
  BY WishedNothing DEF Init, StoredInv, Has
<1>3. DoneInv
  BY DEF Init, DoneInv
<1>4. QED
  BY <1>1, <1>2, <1>3 DEF GrantsInv

(* An end of the reconcile forgets what was to be done.                    *)
LEMMA EndInv == ASSUME End PROVE WorkInv' /\ DoneInv'
BY DEF End, WorkInv, DoneInv

(* What remains of the invariant when a step keeps the stored lists and    *)
(* the privileges.                                                         *)
LEMMA SameStored ==
  ASSUME UNCHANGED <<spec, recorded, granted>>, StoredInv PROVE StoredInv'
BY DEF StoredInv

(* A reconcile starts with all there is to do.                             *)
LEMMA ReconcileInv ==
  ASSUME GrantsTypeOK, GrantsInv, Reconcile PROVE GrantsInv'
<1>1. UNCHANGED <<spec, recorded, granted, allow, lost>>
  BY DEF Reconcile, resourceVars
<1>2. CASE UNCHANGED <<pc, dbcr, current, revokes, grants>>
  BY <1>1, <1>2 DEF GrantsInv, WorkInv, StoredInv, DoneInv
<1>3. CASE /\ recorded = {} \/ allow
           /\ pc' = (IF allow THEN "revoke" ELSE "status")
           /\ dbcr' = [spec |-> spec, recorded |-> recorded]
           /\ current' = TRUE
           /\ revokes' = (IF allow THEN recorded \ spec ELSE {})
           /\ grants' = (IF allow THEN spec \ recorded ELSE {})
  <2>1. WorkInv'
    BY <1>1, <1>3 DEF WorkInv
  <2>2. ASSUME allow, ~lost PROVE StoredInv' /\ DoneInv'
    BY <1>1, <1>3, <2>2 DEF GrantsInv, StoredInv, DoneInv
  <2>3. QED
    BY <1>1, <2>1, <2>2 DEF GrantsInv
<1>4. QED
  BY <1>2, <1>3 DEF Reconcile

(* Who is revoked has a recorded entry that is no longer wished.           *)
LEMMA RevokeInv ==
  ASSUME GrantsTypeOK, GrantsInv, NEW e \in Entries, RevokePermissions(e)
  PROVE  GrantsInv'
<1>1. /\ pc = "revoke" /\ e \in revokes /\ UNCHANGED <<spec, recorded, allow>>
      /\ granted \in [Users -> SUBSET Privileges]
  BY DEF RevokePermissions, resourceVars, GrantsTypeOK
<1>2. Busy /\ allow /\ e \in recorded \ spec
  BY <1>1 DEF GrantsInv, WorkInv, Busy
<1>3. \A u \in Users : u # e[1] => granted'[u] = granted[u]
  BY <1>1, EntryParts DEF RevokePermissions
<1>4. Has(recorded \ spec, e[1])
  BY <1>2 DEF Has
<1>5. ASSUME StoredInv PROVE StoredInv'
  BY <1>1, <1>3, <1>4, <1>5 DEF StoredInv
<1>6. CASE /\ granted' = [granted EXCEPT ![e[1]] = {}]
           /\ revokes' = revokes \ {e}
           /\ UNCHANGED <<pc, dbcr, current, grants, lost, faults>>
  <2>1. WorkInv'
    BY <1>1, <1>2, <1>6 DEF GrantsInv, WorkInv, Busy
  <2>2. ASSUME DoneInv PROVE DoneInv'
    <3> SUFFICES ASSUME NEW u \in Users, ~Has(revokes', u)
                 PROVE  granted'[u] \subseteq Wished(spec, u)
      BY <1>1, <1>6 DEF DoneInv
    <3>1. CASE u = e[1]
      BY <1>1, <1>6, <3>1
    <3>2. CASE u # e[1]
      <4>1. ~Has(revokes, u)
        BY <1>6, <3>2 DEF Has
      <4>2. QED
        BY <1>2, <1>3, <2>2, <3>2, <4>1 DEF DoneInv, Busy
    <3>3. QED
      BY <3>1, <3>2
  <2>3. QED
    BY <1>1, <1>5, <1>6, <2>1, <2>2 DEF GrantsInv
<1>7. CASE /\ lost' = TRUE
           /\ revokes' = revokes \ {e}
           /\ UNCHANGED <<granted, pc, dbcr, current, grants>>
  BY <1>1, <1>2, <1>7 DEF GrantsInv, WorkInv, Busy
<1>8. CASE End /\ UNCHANGED lost
  BY <1>1, <1>5, <1>8, EndInv DEF GrantsInv
<1>9. QED
  BY <1>6, <1>7, <1>8 DEF RevokePermissions

(* When all is revoked, who needs no grant has what is wished.             *)
LEMMA AllRevokedInv ==
  ASSUME GrantsTypeOK, GrantsInv, AllRevoked PROVE GrantsInv'
<1>1. /\ pc = "revoke" /\ pc' = "grant" /\ revokes = {}
      /\ UNCHANGED <<spec, recorded, granted, allow, lost, dbcr, current, revokes,
                     grants>>
  BY DEF AllRevoked, resourceVars
<1>2. WorkInv'
  BY <1>1 DEF GrantsInv, WorkInv
<1>3. ASSUME allow, ~lost PROVE DoneInv'
  <2> SUFFICES ASSUME Busy, NEW u \in Users
               PROVE  /\ granted[u] \subseteq Wished(spec, u)
                      /\ ~Has(grants, u) => granted[u] = Wished(spec, u)
    BY <1>1 DEF DoneInv, Busy
  <2>1. granted[u] \subseteq Wished(spec, u)
    BY <1>1, <1>3 DEF GrantsInv, DoneInv, Busy, Has
  <2>2. grants = spec \ recorded /\ spec \in Lists /\ recorded \in Lists
    BY <1>1 DEF GrantsInv, WorkInv, Busy, GrantsTypeOK
  <2>3. ASSUME ~Has(grants, u), Has(spec, u)
        PROVE  Wished(spec, u) \subseteq granted[u]
    <3>1. Wished(spec, u) = Wished(recorded, u)
      BY <2>2, <2>3, KeptEntry
    <3>2. ~Has(recorded \ spec, u)
      BY <2>2, <2>3 DEF Has, Lists
    <3>3. QED
      BY <1>3, <3>1, <3>2 DEF GrantsInv, StoredInv
  <2>4. QED
    BY <2>1, <2>3, WishedNothing
<1>4. QED
  BY <1>1, <1>2, <1>3, SameStored DEF GrantsInv

(* Who is granted an entry has just that.                                  *)
LEMMA SetPermissionsInv ==
  ASSUME GrantsTypeOK, GrantsInv, NEW e \in Entries, SetPermissions(e)
  PROVE  GrantsInv'
<1>1. /\ pc = "grant" /\ e \in grants
      /\ UNCHANGED <<spec, recorded, allow, lost>>
      /\ granted \in [Users -> SUBSET Privileges]
  BY DEF SetPermissions, resourceVars, GrantsTypeOK
<1>2. Busy /\ allow /\ e \in spec \ recorded /\ revokes = {} /\ spec \in Lists
  BY <1>1 DEF GrantsInv, WorkInv, Busy, GrantsTypeOK
<1>3. e[1] \in Users /\ Wished(spec, e[1]) = Access(e[2])
  BY <1>2, EntryParts, WishedEntry
<1>4. \A u \in Users : u # e[1] => granted'[u] = granted[u]
  BY <1>1, <1>3 DEF SetPermissions
<1>5. granted[e[1]] \subseteq granted'[e[1]]
  BY <1>1, <1>3 DEF SetPermissions
<1>6. granted'[e[1]] \subseteq granted[e[1]] \cup Access(e[2])
  BY <1>1, <1>3 DEF SetPermissions
<1>7. ASSUME StoredInv PROVE StoredInv'
  BY <1>1, <1>3, <1>4, <1>5, <1>6, <1>7 DEF StoredInv
<1>8. CASE /\ granted' = [granted EXCEPT ![e[1]] = @ \cup Access(e[2])]
           /\ grants' = grants \ {e}
           /\ UNCHANGED <<pc, dbcr, current, revokes, faults>>
  <2>1. WorkInv'
    BY <1>1, <1>2, <1>8 DEF GrantsInv, WorkInv, Busy
  <2>2. ASSUME DoneInv PROVE DoneInv'
    <3> SUFFICES ASSUME NEW u \in Users
                 PROVE  /\ granted'[u] \subseteq Wished(spec, u)
                        /\ ~Has(grants', u) => granted'[u] = Wished(spec, u)
      BY <1>1, <1>8 DEF DoneInv
    <3>1. granted[u] \subseteq Wished(spec, u)
      BY <1>2, <2>2 DEF DoneInv, Busy, Has
    <3>2. CASE u = e[1]
      BY <1>1, <1>3, <1>8, <3>1, <3>2
    <3>3. CASE u # e[1]
      <4>1. Has(grants', u) <=> Has(grants, u)
        BY <1>8, <3>3 DEF Has
      <4>2. QED
        BY <1>1, <1>2, <1>4, <2>2, <3>1, <3>3, <4>1 DEF DoneInv, Busy
    <3>4. QED
      BY <3>2, <3>3
  <2>3. QED
    BY <1>1, <1>7, <2>1, <2>2 DEF GrantsInv
<1>9. CASE End
  BY <1>1, <1>7, <1>9, EndInv DEF GrantsInv
<1>10. QED
  BY <1>8, <1>9 DEF SetPermissions

(* When the list is recorded, everybody has what it says.                  *)
LEMMA UpdateStatusInv ==
  ASSUME GrantsTypeOK, GrantsInv, UpdateStatus PROVE GrantsInv'
<1>1. /\ pc = "status" /\ UNCHANGED <<spec, allow, granted, lost>>
      /\ revokes = {} /\ grants = {}
  BY DEF UpdateStatus, GrantsInv, WorkInv
<1>2. recorded' = recorded \/ (current /\ recorded' = dbcr.spec)
  BY DEF UpdateStatus
<1>3. ASSUME allow, ~lost PROVE StoredInv'
  <2>1. CASE recorded' = recorded
    BY <1>1, <1>3, <2>1, SameStored DEF GrantsInv
  <2>2. CASE current /\ recorded' = dbcr.spec
    <3>1. recorded' = spec
      BY <1>1, <2>2 DEF GrantsInv, WorkInv
    <3>2. \A u \in Users : granted[u] = Wished(spec, u)
      BY <1>1, <1>3, <2>2 DEF GrantsInv, DoneInv, Has
    <3>3. QED
      BY <1>1, <3>1, <3>2 DEF StoredInv
  <2>3. QED
    BY <1>2, <2>1, <2>2
<1>4. WorkInv' /\ DoneInv'
  <2>1. CASE End
    BY <2>1, EndInv
  <2>2. CASE pc' = "finish" /\ UNCHANGED <<revokes, grants>>
    BY <1>1, <2>2 DEF WorkInv, DoneInv
  <2>3. QED
    BY <2>1, <2>2 DEF UpdateStatus
<1>5. QED
  BY <1>1, <1>3, <1>4 DEF GrantsInv

(* A patient edit finds the list recorded, and so applied.                 *)
LEMMA EditSpecInv ==
  ASSUME Patient, GrantsTypeOK, GrantsInv, EditSpec PROVE GrantsInv'
<1>1. /\ recorded = spec /\ current' = FALSE
      /\ UNCHANGED <<recorded, allow, granted, pc, dbcr, revokes, grants, lost>>
  BY DEF EditSpec
<1>2. revokes = {} /\ grants = {}
  BY <1>1 DEF GrantsInv, WorkInv, GrantsTypeOK
<1>3. WorkInv' /\ DoneInv'
  BY <1>1, <1>2 DEF GrantsInv, WorkInv, DoneInv
<1>4. ASSUME allow, ~lost PROVE StoredInv'
  <2>1. \A u \in Users : granted[u] = Wished(recorded, u)
    BY <1>1, <1>4, StoredMeansApplied DEF GrantsInv
  <2>2. QED
    BY <1>1, <2>1, WishedKept DEF StoredInv
<1>5. QED
  BY <1>1, <1>3, <1>4 DEF GrantsInv

(* Every step keeps the invariant.                                         *)
LEMMA NextInv ==
  ASSUME Patient PROVE GrantsTypeOK /\ GrantsInv /\ [Next]_vars => GrantsInv'
<1> SUFFICES ASSUME GrantsTypeOK, GrantsInv, [Next]_vars PROVE GrantsInv'
  OBVIOUS
<1>1. CASE AllGranted
  BY <1>1 DEF AllGranted, resourceVars, GrantsInv, WorkInv, StoredInv, DoneInv
<1>2. CASE Finish \/ Restart
  BY <1>2, EndInv, SameStored DEF Finish, Restart, resourceVars, GrantsInv
<1>3. CASE UNCHANGED vars
  BY <1>3 DEF vars, GrantsInv, WorkInv, StoredInv, DoneInv
<1>4. QED
  BY <1>1, <1>2, <1>3, ReconcileInv, RevokeInv, AllRevokedInv,
     SetPermissionsInv, UpdateStatusInv, EditSpecInv DEF Next, Step

(* With patient people, the server is at any time between the recorded and *)
(* the wished list in a way that the next reconcile can finish.            *)
THEOREM GrantsInvariant == ASSUME Patient PROVE Spec => []GrantsInv
BY InitInv, NextInv, GrantsTypeCorrect, PTL DEF Spec

(* With patient people, recorded grants are on the server, and no others.  *)
THEOREM RecordedIsApplied == ASSUME Patient PROVE Spec => []RecordedMeansApplied
<1>1. GrantsInv => RecordedMeansApplied
  BY StoredMeansApplied DEF GrantsInv, RecordedMeansApplied
<1>2. QED
  BY <1>1, GrantsInvariant, PTL
=============================================================================
