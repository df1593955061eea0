----------------------------- MODULE Refinement -----------------------------
(***************************************************************************)
(* The two controllers together keep the promise of Lifecycle: the stored  *)
(* Database, its finalizers and the SQL database are the abstract state,   *)
(* and every step of a reconcile, of a person or of a failing call is one  *)
(* abstract step or none.                                                  *)
(***************************************************************************)
EXTENDS OperatorInv

Resource ==
  IF ~db.live THEN "absent" ELSE IF db.deleting THEN "deleting" ELSE "declared"

Promise == INSTANCE Lifecycle WITH
  Users <- Users, resource <- Resource, guarded <- db.own, pins <- db.users,
  stored <- sqlDb

(* Operator implements Lifecycle: whatever conflicts, fails or restarts    *)
(* between the calls of database_controller.go and dbuser_controller.go,   *)
(* finalizers are set on existing ground, the drop waits for the last      *)
(* DbUser, and the own finalizer goes last.                                *)
ImplementsLifecycle == Promise!LifeSpec
=============================================================================
