------------------------- MODULE MCWifiCredentials -------------------------
(* WifiCredentials over two records an operator may propose; see the README. *)
EXTENDS WifiCredentials
=============================================================================
