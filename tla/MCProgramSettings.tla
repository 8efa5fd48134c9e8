------------------------- MODULE MCProgramSettings -------------------------
(* An instance of ProgramSettings for TLC: the example configurations, and *)
(* of each field the values around its limits.                             *)
EXTENDS ProgramSettings, TLC

MCGiven ==
    [agent |->
        [agent_id |-> "plain", central_server_url |-> "http", api_key |-> "key",
         local_only |-> FALSE, auto_update_tasks |-> TRUE,
         local_data_retention_days |-> 7, metrics_flush_interval_seconds |-> 5,
         metrics_send_interval_seconds |-> 30, metrics_batch_size |-> 50,
         metrics_max_retries |-> 10, max_concurrent_tasks |-> 50,
         http_response_max_size_mb |-> 100, channel_buffer_size |-> 1000,
         http_client_timeout_seconds |-> 30],
     server |->
        [listen_address |-> "any", api_key |-> "key", data_retention_days |-> 30,
         reconfigure_check_interval_seconds |-> 10, bandwidth_test_size_mb |-> 10,
         agent_configs_dir |-> "dir", cleanup_interval_hours |-> 24,
         rate_limit_enabled |-> TRUE, rate_limit_window_seconds |-> 60,
         rate_limit_max_requests |-> 100, bandwidth_test_timeout_seconds |-> 120,
         bandwidth_max_delay_seconds |-> 300, wal_checkpoint_interval_seconds |-> 60,
         monitor_agents_health |-> FALSE, health_check_interval_seconds |-> 300,
         health_check_success_ratio_threshold |-> 90,
         health_check_retention_days |-> 30]]

Pairs(field, values) == {field :> v : v \in values}

MCEdits ==
    [agent |->
        Pairs("agent_id", {"", "spaced", "dashed", "other"})
        \cup Pairs("central_server_url", {"", "word", "login", "https"})
        \cup Pairs("api_key", {""}) \cup Pairs("local_only", {TRUE})
        \cup {[local_only |-> TRUE, central_server_url |-> "", api_key |-> ""]}
        \cup Pairs("local_data_retention_days", {0})
        \cup Pairs("metrics_flush_interval_seconds", {0, 60, 61})
        \cup Pairs("metrics_send_interval_seconds", {0})
        \cup Pairs("metrics_batch_size", {0}) \cup Pairs("metrics_max_retries", {32})
        \cup Pairs("max_concurrent_tasks", {0})
        \cup Pairs("http_response_max_size_mb", {0})
        \cup Pairs("channel_buffer_size", {0, 1})
        \cup Pairs("http_client_timeout_seconds", {0}),
     server |->
        Pairs("listen_address", {"", "word", "other"}) \cup Pairs("api_key", {""})
        \cup Pairs("data_retention_days", {0, 3650, 3651})
        \cup Pairs("reconfigure_check_interval_seconds", {0, 300, 301})
        \cup Pairs("bandwidth_test_size_mb", {0, 1000, 1001})
        \cup Pairs("cleanup_interval_hours", {0})
        \cup Pairs("rate_limit_enabled", {FALSE})
        \cup Pairs("rate_limit_window_seconds", {0, 3600, 3601})
        \cup Pairs("rate_limit_max_requests", {0, 10000, 10001})
        \cup Pairs("wal_checkpoint_interval_seconds", {0})
        \cup Pairs("bandwidth_test_timeout_seconds", {0})
        \cup Pairs("bandwidth_max_delay_seconds", {0})
        \cup Pairs("monitor_agents_health", {TRUE})
        \cup Pairs("health_check_interval_seconds", {0})
        \cup Pairs("health_check_success_ratio_threshold", {-1, 0, 100, 101})
        \cup Pairs("health_check_retention_days", {0})
        \cup {[rate_limit_enabled |-> FALSE, rate_limit_window_seconds |-> 0],
              [monitor_agents_health |-> TRUE, health_check_interval_seconds |-> 0],
              [monitor_agents_health |-> TRUE, health_check_interval_seconds |-> 59]}]

MCOverrides ==
    [agent |->
        Pairs("agent_id", {"", "other"}) \cup Pairs("central_server_url", {"https", "word"})
        \cup Pairs("api_key", {"", "other"}) \cup Pairs("local_data_retention_days", {0, 14})
        \cup Pairs("auto_update_tasks", {FALSE}) \cup Pairs("local_only", {TRUE})
        \cup {[central_server_url |-> "https", api_key |-> "other"]},
     server |->
        Pairs("listen_address", {"word", "other"}) \cup Pairs("api_key", {"", "other"})
        \cup Pairs("data_retention_days", {0, 90})
        \cup Pairs("agent_configs_dir", {"other"})
        \cup Pairs("bandwidth_test_size_mb", {50, 1001})
        \cup Pairs("reconfigure_check_interval_seconds", {0, 60})]

Snmp == [host |-> "text", oid |-> "dotted", version |-> "v2c", username |-> "",
         security_level |-> "noAuthNoPriv", auth_protocol |-> "none",
         auth_password |-> "", timeout_seconds |-> 5]
SnmpV3 == [Snmp EXCEPT !.version = "v3", !.username = "text",
           !.security_level = "authNoPriv", !.auth_protocol = "sha256",
           !.auth_password = "text"]
Sql == [query |-> "text", database_url |-> "text", database_type |-> "text",
        max_json_size_bytes |-> 65536, max_rows |-> 1000, timeout_seconds |-> 30]

Host(h)   == [host |-> h, timeout_seconds |-> 5]
Dns(s, d) == [server |-> s, domain |-> d, timeout_seconds |-> 10]

(* Parameters of each type, right and wrong.                               *)
ParamsOf(type) ==
    CASE type \in {"ping", "tcp"} -> {Host("text"), Host(""), Host("malformed")}
      [] type = "tls_handshake" -> {[host |-> "text"], [host |-> ""]}
      [] type = "http_get" ->
            {[url |-> u, timeout_seconds |-> 30] : u \in {"http", "https", "", "ftp"}}
      [] type = "http_content" ->
            {[url |-> u, regexp |-> r, timeout_seconds |-> 30] :
                u \in {"http", "login"}, r \in {"text", "", "malformed"}}
      [] type = "dns_query" ->
            {Dns(s, d) : s \in {"text", "malformed", ""}, d \in {"text", ""}}
      [] type = "dns_query_doh" ->
            {[server_url |-> u, domain |-> "text", timeout_seconds |-> 10] :
                u \in {"http", "https"}}
      [] type = "bandwidth" -> {[timeout_seconds |-> 60], [timeout_seconds |-> 0]}
      [] type = "sql_query" ->
            {Sql, [Sql EXCEPT !.database_type = ""], [Sql EXCEPT !.max_rows = 10001],
             [Sql EXCEPT !.max_json_size_bytes = MegaByte + 1]}
      [] type = "snmp" ->
            {Snmp, [Snmp EXCEPT !.oid = "words"], SnmpV3,
             [SnmpV3 EXCEPT !.username = ""], [SnmpV3 EXCEPT !.auth_protocol = "none"],
             [SnmpV3 EXCEPT !.auth_password = ""]}

ATask(type, name, schedule, timeout, params) ==
    [type |-> type, name |-> name, schedule |-> schedule, timeout |-> timeout,
     params |-> params]

Plain == ATask("ping", "a", 60, NoTimeout, Host("text"))

MCGivenTasks == <<Plain>>

MCTaskLists ==
    {<<>>, <<Plain, Plain>>, <<Plain, [Plain EXCEPT !.name = "b"]>>,
     <<[Plain EXCEPT !.name = ""]>>, <<[Plain EXCEPT !.schedule = 0]>>,
     <<[Plain EXCEPT !.timeout = 0]>>,
     <<[Plain EXCEPT !.timeout = 10, !.params.timeout_seconds = 0]>>}
    \cup {<<ATask(type, "a", s, NoTimeout, p)>> :
             <<type, s, p>> \in
                 UNION {{type} \X {59, 60} \X ParamsOf(type) : type \in Sparse}
                 \cup UNION {{type} \X {5} \X ParamsOf(type) : type \in TaskTypes \ Sparse}}

MCEvents == [edit |-> 1, start |-> 2, update |-> 1]
=============================================================================
