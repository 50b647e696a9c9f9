---------------------------- MODULE MCRouteFailover ----------------------------
(* RouteFailover for three accounts: one without routes that pings with raw  *)
(* packets, one with a service route, one with a service route and backups.  *)
EXTENDS RouteFailover

MCAccounts ==
    {[topology |-> "NoRoute", options |-> FALSE],
     [topology |-> "ServiceRoute", options |-> TRUE],
     [topology |-> "ServiceRouteWithBackup", options |-> TRUE]}

MCBackedAccounts == {c \in MCAccounts : c.topology = "ServiceRouteWithBackup"}

====
