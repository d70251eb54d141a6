-------------------------- MODULE MCGatewaySchema ---------------------------
(***************************************************************************)
(* The tables and columns of gateway/schema.py, and databases of several   *)
(* ages.                                                                   *)
(***************************************************************************)
EXTENDS GatewaySchema

MCRequired == <<"dbt_model_log", "change_tracking_registry", "change_tracking_log",
                "change_tracking_run", "change_tracking_run_event",
                "change_tracking_permission_issue">>
MCUpgrades == <<"enabled", "schedule_group", "unregistered_at">>

\* Empty, checkpoints only, from before there were runs, and complete.
Ages == {{}, {"dbt_model_log"}, {MCRequired[n] : n \in 1..3}, {MCRequired[n] : n \in 1..6}}
\* From before there were runs.
Older == {{MCRequired[n] : n \in 1..3}}
=============================================================================
