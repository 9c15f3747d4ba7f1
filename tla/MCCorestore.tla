----------------------------- MODULE MCCorestore -----------------------------
(* Corestore on small instances; the .cfg files give the constants.        *)
EXTENDS StoreRefinement

=============================================================================
