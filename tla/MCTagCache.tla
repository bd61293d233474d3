---------------------------- MODULE MCTagCache ----------------------------
(* TagCache for TLC: sets of model values.                                 *)
EXTENDS TagCache

============================================================================
