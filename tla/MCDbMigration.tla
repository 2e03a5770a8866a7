---------------------------- MODULE MCDbMigration ----------------------------
(* The bootstrap with a process that may die before any statement. *)
EXTENDS DbMigration

AnyStatement == Stages \ {"down"}
=============================================================================
