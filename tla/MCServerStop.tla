---------------------------- MODULE MCServerStop ----------------------------
(* Instances of ServerStop for TLC; all its constants are numbers.          *)
EXTENDS ServerStop
=============================================================================
