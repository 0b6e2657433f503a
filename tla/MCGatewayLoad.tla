---------------------------- MODULE MCGatewayLoad ----------------------------
(* GatewayLoad on a small instance. *)
EXTENDS GatewayLoad

\* Half the default's rate, at which the idle time does not refill a burst.
MCOverrides == {[rps |-> 1, burst |-> 0]}
=============================================================================
