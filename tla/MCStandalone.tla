---------------------------- MODULE MCStandalone ----------------------------
(* Instances of Standalone for TLC. *)
EXTENDS Standalone

(* Every combination of the two table settings, one of which is refused,    *)
(* an engine that does not migrate, and a worker configuration that is      *)
(* refused.                                                                 *)
MCConfigs ==
    [unlogged_tables : BOOLEAN, audit_log : BOOLEAN, skip_migrations : {FALSE},
     worker : {"valid"}]
      \cup {[unlogged_tables |-> FALSE, audit_log |-> TRUE, skip_migrations |-> TRUE,
             worker |-> "valid"],
            [unlogged_tables |-> FALSE, audit_log |-> FALSE, skip_migrations |-> FALSE,
             worker |-> "invalid"]}
=============================================================================
