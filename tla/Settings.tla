------------------------------ MODULE Settings ------------------------------
(***************************************************************************)
(* The settings of the two programs (shared/src/config.rs): agent.toml,    *)
(* server.toml and tasks.toml, what their validation accepts, and what the *)
(* programs need of them.  A text is the class of its content: "" is       *)
(* empty, the others are named where they are told apart.  Numbers are     *)
(* those of the code, the ratio of the health checks is in percent.        *)
(***************************************************************************)
EXTENDS Integers, Sequences

Web == {"http", "https"}

(* validate_url, of a URL without credentials in it.                       *)
ValidUrl(u, httpsOnly) == u \in IF httpsOnly THEN {"https"} ELSE Web

-----------------------------------------------------------------------------
(* Tasks.  A task is [type, name, schedule, timeout, params], its params a *)
(* record of the fields of its type; the deserializer reads the params by  *)
(* the type, so that the two always match.                                 *)

TaskTypes == {"ping", "tcp", "tls_handshake", "http_get", "http_content",
              "dns_query", "dns_query_doh", "bandwidth", "sql_query", "snmp"}

(* The parameters that cannot be empty.                                    *)
Required(type) ==
    CASE type \in {"ping", "tcp", "tls_handshake"} -> {"host"}
      [] type = "http_get"      -> {"url"}
      [] type = "http_content"  -> {"url", "regexp"}
      [] type = "dns_query"     -> {"server", "domain"}
      [] type = "dns_query_doh" -> {"server_url", "domain"}
      [] type = "sql_query"     -> {"query", "database_url", "database_type"}
      [] type = "snmp"          -> {"host", "oid"}
      [] type = "bandwidth"     -> {}

(* Types that may not run more than once a minute.                         *)
Sparse == {"bandwidth", "sql_query", "snmp"}

MegaByte == 1048576

ValidSql(p) == p.max_json_size_bytes <= MegaByte /\ p.max_rows <= 10000

ValidSnmp(p) ==
    /\ p.oid # "words"
    /\ p.version = "v3" =>
          /\ p.username # ""
          /\ p.security_level = "authNoPriv" =>
                p.auth_protocol # "none" /\ p.auth_password # ""

ValidParams(type, p) ==
    /\ \A f \in Required(type) : p[f] # ""
    /\ type \in {"http_get", "http_content"} => ValidUrl(p.url, FALSE)
    /\ type = "http_content" => p.regexp # "malformed"
    /\ type = "dns_query_doh" => ValidUrl(p.server_url, TRUE)
    /\ type = "sql_query" => ValidSql(p)
    /\ type = "snmp" => ValidSnmp(p)

(* Mutant: SNMPv3 is not looked at.                                        *)
ValidTaskBeforeV3(t) ==
    /\ t.name # ""
    /\ t.schedule > 0
    /\ t.type \in Sparse => t.schedule >= 60
    /\ ValidParams(t.type, IF t.type = "snmp" THEN [t.params EXCEPT !.version = "v2c"]
                                              ELSE t.params)

(* TaskConfig::validate                                                    *)
ValidTask(t) ==
    /\ t.name # ""
    /\ t.schedule > 0
    /\ t.type \in Sparse => t.schedule >= 60
    /\ ValidParams(t.type, t.params)

(* TasksConfig::validate                                                   *)
ValidTasks(ts) ==
    /\ \A i, j \in DOMAIN ts : ts[i].name = ts[j].name => i = j
    /\ \A i \in DOMAIN ts : ValidTask(ts[i])

NoTimeout == -1

EffectiveTimeout(t) ==
    CASE t.timeout # NoTimeout     -> t.timeout
      [] t.type = "tls_handshake"  -> 10
      [] OTHER                     -> t.params.timeout_seconds

(* Below the timeout of the execution a probe has one of its own, in the    *)
(* params; the one of a TLS handshake is that of the execution.            *)
ProbeTimeout(t) ==
    IF t.type = "tls_handshake" THEN EffectiveTimeout(t) ELSE t.params.timeout_seconds

(* What an execution needs to get to the network at all.                   *)
CanProbe(t) ==
    LET p == t.params
    IN  /\ EffectiveTimeout(t) > 0
        /\ ProbeTimeout(t) > 0
        /\ \A f \in Required(t.type) : p[f] # "" /\ p[f] # "malformed"
        /\ t.type = "snmp" =>
              /\ p.oid # "words"
              /\ p.version = "v3" =>
                    /\ p.username # ""
                    /\ p.security_level = "authNoPriv" =>
                          p.auth_protocol # "none" /\ p.auth_password # ""

-----------------------------------------------------------------------------
(* AgentConfig::validate                                                   *)
ValidAgent(c) ==
    /\ c.agent_id \notin {"", "spaced"}
    /\ ~c.local_only => ValidUrl(c.central_server_url, FALSE) /\ c.api_key # ""
    /\ c.local_data_retention_days > 0
    /\ c.metrics_flush_interval_seconds \in 1 .. 60
    /\ c.metrics_send_interval_seconds > 0
    /\ c.metrics_batch_size > 0
    /\ c.max_concurrent_tasks > 0
    /\ c.http_response_max_size_mb > 0
    /\ c.channel_buffer_size > 0

(* The server's validate_agent_id and validate_agent_whitelist.            *)
Welcome(id, whitelist) ==
    /\ id \notin {"", "spaced", "dashed", "long"}
    /\ whitelist # {} => id \in whitelist

(* The parts of an agent that cannot work with its settings: channels      *)
(* without a place and batches without a row, requests that time out at    *)
(* once, a retry count for which 2^retries overflows an i32, and an id the *)
(* server refuses.                                                         *)
AgentImpaired(c) ==
    (IF c.channel_buffer_size = 0 THEN {"channel"} ELSE {})
    \cup (IF c.metrics_batch_size = 0 THEN {"batch"} ELSE {})
    \cup (IF c.metrics_max_retries > 31 THEN {"backoff"} ELSE {})
    \cup (IF ~c.local_only /\ c.http_client_timeout_seconds = 0 THEN {"client"} ELSE {})
    \cup (IF ~c.local_only /\ ~Welcome(c.agent_id, {}) THEN {"identity"} ELSE {})

-----------------------------------------------------------------------------
Hour == 3600

(* ServerConfig::validate                                                  *)
ValidLimits(c) ==
    /\ c.data_retention_days \in 1 .. 10 * 365
    /\ c.reconfigure_check_interval_seconds \in 1 .. 300
    /\ c.bandwidth_test_size_mb \in 1 .. 1000
    /\ c.rate_limit_enabled => /\ c.rate_limit_window_seconds \in 1 .. Hour
                               /\ c.rate_limit_max_requests \in 1 .. 10000
    /\ c.health_check_interval_seconds > 0
    /\ c.health_check_success_ratio_threshold \in 0 .. 100
    /\ c.health_check_retention_days > 0

ValidServer(c) ==
    /\ c.listen_address \notin {"", "word"}
    /\ c.api_key # ""
    /\ ValidLimits(c)

(* The background tasks of the server and the periods of their timers.     *)
Periods(c) ==
    [reconfigure |-> c.reconfigure_check_interval_seconds,
     cleanup     |-> c.cleanup_interval_hours * Hour,
     wal         |-> c.wal_checkpoint_interval_seconds,
     limiter     |-> c.rate_limit_window_seconds,
     health      |-> IF c.monitor_agents_health
                        THEN c.health_check_interval_seconds ELSE 1]

(* A timer without a period panics, and its task ends with it.  Checks     *)
(* that look back less than a minute expect nothing of any agent.  A       *)
(* bandwidth test that may take no time loses its slot to the next         *)
(* request, and agents that may wait no time are not queued.               *)
ServerImpaired(c) ==
    {t \in DOMAIN Periods(c) : Periods(c)[t] = 0}
    \cup (IF c.monitor_agents_health /\ c.health_check_interval_seconds < 60
          THEN {"verdicts"} ELSE {})
    \cup (IF c.bandwidth_test_timeout_seconds = 0 THEN {"slot"} ELSE {})
    \cup (IF c.bandwidth_max_delay_seconds = 0 THEN {"queue"} ELSE {})
=============================================================================
