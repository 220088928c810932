--------------------------- MODULE MCGatewaySync ---------------------------
(* Instances of GatewaySync for TLC.                                       *)
EXTENDS GatewaySync

CONSTANTS a, b

\* Two upstreams, of which a can be restarted.
RestartObj == {<<a, 1>>, <<a, 2>>, <<b, 1>>}

\* A list changes and either a session is lost or the gateway is reloaded.
DropOrReload ==
  {[changes |-> 1, drops |-> 1, reloads |-> 0], [changes |-> 1, drops |-> 0, reloads |-> 1]}
=============================================================================
