-------------------------- MODULE MCDmxController --------------------------
(* DmxController over two presets; see the README.                          *)
EXTENDS DmxController
=============================================================================
