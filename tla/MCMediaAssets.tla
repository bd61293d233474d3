---------------------------- MODULE MCMediaAssets ----------------------------
(* A user with two pictures and two requests in progress at a time.         *)
EXTENDS MediaAssets
=============================================================================
