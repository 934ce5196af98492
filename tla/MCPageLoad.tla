---------------------------- MODULE MCPageLoad ----------------------------
(* Any one request; constants are in the .cfg.                              *)
EXTENDS PageLoad
=============================================================================
