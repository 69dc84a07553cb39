---------------------------- MODULE MCSenderView ----------------------------
(* The panel with one setting of two values and one browser.                *)
EXTENDS SenderView
=============================================================================
