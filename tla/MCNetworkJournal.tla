-------------------------- MODULE MCNetworkJournal --------------------------
(* Endpoints of one Agent for the model checker: both endpoints of a profile. *)
EXTENDS NetworkJournal

BothEndpoints == <<"client", "server">>
OneEndpoint == <<"client">>
=============================================================================
