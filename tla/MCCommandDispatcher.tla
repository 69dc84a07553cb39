------------------------ MODULE MCCommandDispatcher ------------------------
(* The dispatcher with controller and transport; see the README.            *)
EXTENDS CommandDispatcher
=============================================================================
