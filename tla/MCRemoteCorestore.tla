-------------------------- MODULE MCRemoteCorestore --------------------------
(* Instance of RemoteCorestore for TLC. *)
EXTENDS RemoteCorestore, TLC

TaskSymmetry == Permutations(Tasks)
=============================================================================
