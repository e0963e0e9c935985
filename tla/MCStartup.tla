------------------------------ MODULE MCStartup ------------------------------
(* One item. *)
EXTENDS Startup

CONSTANT x1
=============================================================================
