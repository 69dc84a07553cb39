-------------------------- MODULE MCNetworkService ---------------------------
(* Two changes of the credentials, one browser, one station; see README.    *)
EXTENDS NetworkService
=============================================================================
