------------------------ MODULE MCDeviceMaintenance ------------------------
(* DeviceMaintenance on the transport, see the README.                      *)
EXTENDS DeviceMaintenance
=============================================================================
