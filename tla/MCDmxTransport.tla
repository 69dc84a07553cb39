-------------------------- MODULE MCDmxTransport --------------------------
(* DmxTransport over small packets and counters; see the README.            *)
EXTENDS DmxTransport
=============================================================================
