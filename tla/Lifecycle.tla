----------------------------- MODULE Lifecycle -----------------------------
(***************************************************************************)
(* What db-operator promises about a Database, without controllers, copies *)
(* and retries: the SQL database of a declared Database is guarded before  *)
(* anybody relies on it, users are let in only on guarded ground, and it   *)
(* is dropped and let go only when the deletion was asked for and the last *)
(* user has left.                                                          *)
(***************************************************************************)

CONSTANT Users

VARIABLES
  resource,  \* the Database resource: absent, declared or deleting
  guarded,   \* its deletion waits for the operator
  pins,      \* the users it waits for as well
  stored     \* the SQL database exists

lifeVars == <<resource, guarded, pins, stored>>

LifeInit ==
  /\ resource = "declared"
  /\ guarded = FALSE
  /\ pins = {}
  /\ stored = FALSE

Declare ==
  /\ resource = "absent"
  /\ resource' = "declared"
  /\ UNCHANGED <<guarded, pins, stored>>

(* The SQL database may be created late, for a resource that has gone.     *)
Provision ==
  /\ stored' = TRUE
  /\ UNCHANGED <<resource, guarded, pins>>

Guard ==
  /\ resource = "declared"
  /\ stored
  /\ guarded' = TRUE
  /\ UNCHANGED <<resource, pins, stored>>

Pin(u) ==
  /\ resource = "declared"
  /\ guarded
  /\ stored
  /\ pins' = pins \cup {u}
  /\ UNCHANGED <<resource, guarded, stored>>

Unpin(u) ==
  /\ pins' = pins \ {u}
  /\ UNCHANGED <<resource, guarded, stored>>

(* An unguarded resource goes at once.                                     *)
AskDeletion ==
  /\ resource = "declared"
  /\ resource' = IF guarded THEN "deleting" ELSE "absent"
  /\ UNCHANGED <<guarded, pins, stored>>

Drop ==
  /\ resource = "deleting"
  /\ guarded
  /\ pins = {}
  /\ stored' = FALSE
  /\ UNCHANGED <<resource, guarded, pins>>

LetGo ==
  /\ resource = "deleting"
  /\ guarded
  /\ pins = {}
  /\ resource' = "absent"
  /\ guarded' = FALSE
  /\ UNCHANGED <<pins, stored>>

LifeNext ==
  \/ Declare \/ Provision \/ Guard \/ AskDeletion \/ Drop \/ LetGo
  \/ \E u \in Users : Pin(u) \/ Unpin(u)

LifeSpec == LifeInit /\ [][LifeNext]_lifeVars
=============================================================================
