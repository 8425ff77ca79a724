--------------------------- MODULE MCResourceSync ---------------------------
(* Instances of ResourceSync for TLC: the sync targets and the lister's    *)
(* "not found" are model values, the environment is chosen by each .cfg.   *)
EXTENDS ResourceSync
=============================================================================
