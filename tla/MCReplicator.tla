---------------------------- MODULE MCReplicator ----------------------------
(* Replicator on small instances; the .cfg files give the constants.       *)
EXTENDS Replicator

=============================================================================
