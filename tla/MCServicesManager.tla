------------------------- MODULE MCServicesManager -------------------------
(* Model-checking instance of ServicesManager: two deployments on the     *)
(* server at load time, one id left for a deploy, and three user          *)
(* operations, enough for a deploy, an undeploy and a redeploy to overlap *)
(* with the start-up refresh and the refreshes they trigger.              *)
EXTENDS ServicesManager

CONSTANTS d1, d2, d3

MCDeps == {d1, d2, d3}
MCInitDeployed == {d1, d2}

=============================================================================
