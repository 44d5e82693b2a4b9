--------------------------- MODULE ServerProcess ---------------------------
(***************************************************************************)
(* The life of a server process: its configuration                         *)
(* (crates/core/src/config.rs), the steps of its start                     *)
(* (crates/server/src/main.rs), the Health RPC with the cached             *)
(* capabilities of Redis, and the readiness probe (crates/probe).          *)
(*                                                                         *)
(* Redis may go down, come back, and come back as another version.  What   *)
(* restarts an exited process, and calls the probe, is the cluster.        *)
(***************************************************************************)
EXTENDS Integers, Sequences

CONSTANTS
    Environments,  \* the environments a process may be started in
    Versions,      \* the versions of Redis, as sequences of numbers
    DefaultBytes   \* DEFAULT_GRPC_MAX_MESSAGE_BYTES

ASSUME DefaultBytesAssumption == DefaultBytes \in Nat \ {0}

\* A variable of the environment: not set, a number, or some other text.
Unset == [form |-> "unset", number |-> 0]
Number(n) == [form |-> "number", number |-> n]
Text == [form |-> "text", number |-> 0]

ASSUME EnvironmentsAssumption ==
    \A e \in Environments :
        \A name \in {"ttl", "stale", "maxlen", "bytes"} :
            e[name].form \in {"unset", "number", "text"} /\ e[name].number \in Int

VARIABLES
    env,       \* the environment
    phase,     \* what main does next
    config,    \* the parsed configuration; at most one
    metrics,   \* the task of the metrics listener
    up,        \* Redis answers
    version,   \* its version
    alive,     \* the store's connection is not broken
    caps,      \* REDIS_CAPABILITIES, a OnceCell
    hpc,       \* the step of the Health RPC that the probe waits for
    health,    \* its answer; at most one
    ready      \* what the last probe said

redisVars == <<up, version>>
healthVars == <<hpc, health, ready>>
mainVars == <<env, phase, config, metrics>>
vars == <<mainVars, redisVars, alive, caps, healthVars>>

-----------------------------------------------------------------------------
(* Configuration                                                           *)

parse_env(raw, default) ==
    IF raw.form = "unset" THEN {default}
    ELSE {n \in {raw.number} : raw.form = "number"}

parse_env_i64(raw, default) == parse_env(raw, default)

\* Mutant: a sign is read, too.
parse_env_u64_signed(raw, default) == parse_env(raw, default)

\* Also parse_env_usize.
parse_env_u64(raw, default) == {n \in parse_env(raw, default) : n >= 0}

\* Mutant: a negative threshold passes.
validate_nonzero(ttl_seconds, stale_seconds) ==
    ttl_seconds # 0 /\ stale_seconds # 0

validate(ttl_seconds, stale_seconds) ==
    ttl_seconds # 0 /\ stale_seconds > 0

\* StoreConfig::from_env.
from_env ==
    {c \in [ttl_seconds : parse_env_u64(env.ttl, 86400),
            stale_seconds : parse_env_i64(env.stale, 3600),
            stream_maxlen : parse_env_u64(env.maxlen, 10000)] :
        validate(c.ttl_seconds, c.stale_seconds)}

grpc_max_message_bytes_from_env ==
    {n \in parse_env_u64(env.bytes, DefaultBytes) : n # 0}

\* "on" and "off" stand for the texts that are understood.
metrics_http_enabled_from_env ==
    {on \in BOOLEAN : env.metrics \in IF on THEN {"unset", "on"} ELSE {"off"}}

-----------------------------------------------------------------------------
(* main                                                                    *)

Enter(p) == phase' = p

Exit ==
    /\ Enter("exited")
    /\ metrics' = "off"
    /\ UNCHANGED <<env, config, redisVars, alive, caps, healthVars>>

\* StoreConfig, the message limit and the address, in this order; any of
\* them ends the process.
Configure ==
    /\ phase = "configure"
    /\ \/ /\ \E c \in from_env, n \in grpc_max_message_bytes_from_env :
                config' = {[store |-> c, bytes |-> n]}
          /\ env.addr
          /\ Enter("connect")
          /\ UNCHANGED <<env, metrics, redisVars, alive, caps, healthVars>>
       \/ /\ \/ from_env = {} \/ grpc_max_message_bytes_from_env = {} \/ ~env.addr
          /\ Exit

\* ResponsesApiStoreService::new: the connections of the store and of the
\* queue.  One that cannot be made ends the process.
Connect ==
    /\ phase = "connect"
    /\ \/ /\ up
          /\ alive' = TRUE
          /\ Enter("metrics")
          /\ UNCHANGED <<env, config, metrics, redisVars, caps, healthVars>>
       \/ ~up /\ Exit

\* The metrics listener is bound before gRPC is served.
StartMetrics ==
    /\ phase = "metrics"
    /\ \/ /\ TRUE \in metrics_http_enabled_from_env
          /\ metrics' = "running"
          /\ Enter("serve")
          /\ UNCHANGED <<env, config, redisVars, alive, caps, healthVars>>
       \/ /\ FALSE \in metrics_http_enabled_from_env
          /\ Enter("serve")
          /\ UNCHANGED <<env, config, metrics, redisVars, alive, caps, healthVars>>
       \/ TRUE \in metrics_http_enabled_from_env /\ Exit   \* bind fails
       \/ metrics_http_enabled_from_env = {} /\ Exit

\* The metrics task ends with an error; gRPC goes on.
MetricsEnd ==
    /\ metrics = "running"
    /\ metrics' = "ended"
    /\ UNCHANGED <<env, phase, config, redisVars, alive, caps, healthVars>>

Serve ==
    /\ phase = "serve"
    /\ \/ /\ Enter("serving")
          /\ UNCHANGED <<env, config, metrics, redisVars, alive, caps, healthVars>>
       \/ Exit   \* the address is in use

\* The process is killed, or serve fails; a probe that waits for an answer
\* gets an error.
Die ==
    /\ phase = "serving"
    /\ Enter("exited")
    /\ metrics' = "off"
    /\ hpc' = "none" /\ health' = {}
    /\ ready' = (ready /\ hpc = "none")
    /\ UNCHANGED <<env, config, redisVars, alive, caps>>

Restart ==
    /\ phase = "exited"
    /\ Enter("configure")
    /\ config' = {} /\ caps' = {} /\ alive' = FALSE
    /\ UNCHANGED <<env, metrics, redisVars, healthVars>>

-----------------------------------------------------------------------------
(* Redis                                                                   *)

RedisDown ==
    /\ up
    /\ up' = FALSE /\ alive' = FALSE
    /\ UNCHANGED <<version, mainVars, caps, healthVars>>

RedisBack ==
    /\ ~up
    /\ up' = TRUE
    /\ version' \in Versions
    /\ UNCHANGED <<mainVars, alive, caps, healthVars>>

-----------------------------------------------------------------------------
(* The probe and the Health RPC                                            *)

redis_version_at_least(v, min_major, min_minor) ==
    \/ Len(v) >= 1 /\ v[1] > min_major
    \/ Len(v) >= 2 /\ v[1] = min_major /\ v[2] >= min_minor

Capabilities ==
    [version |-> version, lag_supported |-> redis_version_at_least(version, 7, 0)]

NoInfo == [version |-> <<>>, lag_supported |-> FALSE]

\* The probe dials the server.
Probe ==
    /\ hpc = "none"
    /\ \/ phase = "serving" /\ hpc' = "ping" /\ UNCHANGED ready
       \/ phase # "serving" /\ ready' = FALSE /\ UNCHANGED hpc
    /\ health' = {}
    /\ UNCHANGED <<mainVars, redisVars, alive, caps>>

Answered(ok, info) ==
    /\ health' = {[redis_ok |-> ok, info |-> info]}
    /\ hpc' = "answered"

\* Mutant: a failed PING is only logged.
PingUnchecked ==
    /\ hpc = "ping"
    /\ alive' = up
    /\ hpc' = "info"
    /\ UNCHANGED <<mainVars, redisVars, caps, health, ready>>

\* A command on a broken connection fails, and has it made anew.
Ping ==
    /\ hpc = "ping"
    /\ alive' = up
    /\ \/ /\ up /\ alive
          /\ hpc' = "info"
          /\ UNCHANGED health
       \/ /\ ~(up /\ alive)
          /\ Answered(FALSE, NoInfo)
    /\ UNCHANGED <<mainVars, redisVars, caps, ready>>

\* redis_server_info: INFO is sent once in the life of the process.
Info ==
    /\ hpc = "info"
    /\ caps' = IF caps = {} /\ up THEN {Capabilities} ELSE caps
    /\ \/ \E c \in caps' : Answered(TRUE, c)
       \/ caps' = {} /\ Answered(TRUE, NoInfo)
    /\ UNCHANGED <<mainVars, redisVars, alive, ready>>

\* The probe exits with 1 unless redis_ok.
Report ==
    /\ hpc = "answered"
    /\ ready' = (\E h \in health : h.redis_ok)
    /\ hpc' = "none"
    /\ UNCHANGED <<mainVars, redisVars, alive, caps, health>>

-----------------------------------------------------------------------------
Init ==
    /\ env \in Environments
    /\ phase = "configure" /\ config = {} /\ metrics = "off"
    /\ up \in BOOLEAN /\ version \in Versions
    /\ alive = FALSE /\ caps = {}
    /\ hpc = "none" /\ health = {} /\ ready = FALSE

Boot == Configure \/ Connect \/ StartMetrics \/ Serve

Probing == Probe \/ Ping \/ Info \/ Report

Next ==
    \/ Boot \/ MetricsEnd \/ Die \/ Restart
    \/ RedisDown \/ RedisBack
    \/ Probing

Spec == Init /\ [][Next]_vars

\* The probe is called over and over and the handler runs to its end; a
\* process that has begun to start goes on.
FairSpec == Spec /\ WF_vars(Boot) /\ WF_vars(Probing)

-----------------------------------------------------------------------------
(* Properties                                                              *)

AtMostOne(S) == \A x, y \in S : x = y

\* StoreConfig: lifetime and length are unsigned, the threshold is not.
StoreConfig == [ttl_seconds : Nat, stale_seconds : Int, stream_maxlen : Nat]

\* What INFO said; Health without an answer to it has no version.
RedisInfo == [version : Versions \cup {<<>>}, lag_supported : BOOLEAN]

\* Every variable has its type; a configuration, the capabilities and an
\* answer of Health are there at most once.
TypeOK ==
    /\ env \in Environments
    /\ phase \in {"configure", "connect", "metrics", "serve", "serving", "exited"}
    /\ config \subseteq [store : StoreConfig, bytes : Nat] /\ AtMostOne(config)
    /\ metrics \in {"off", "running", "ended"}
    /\ up \in BOOLEAN /\ alive \in BOOLEAN /\ ready \in BOOLEAN
    /\ version \in Versions
    /\ caps \subseteq RedisInfo /\ AtMostOne(caps)
    /\ hpc \in {"none", "ping", "info", "answered"}
    /\ health \subseteq [redis_ok : BOOLEAN, info : RedisInfo] /\ AtMostOne(health)

\* A process that serves has the configuration the store relies on: the
\* default lifetime and the stale threshold are positive (the assumption
\* ResponseStore makes of its constants), whatever the environment says.
ServingConfigIsValid ==
    phase = "serving" =>
        \E c \in config :
            /\ c.store.ttl_seconds > 0 /\ c.store.stale_seconds > 0
            /\ c.store.stream_maxlen >= 0 /\ c.bytes > 0

\* Readiness follows Redis (service.rs:446-451, probe/src/main.rs:7-10): once
\* Redis or the process stays away, the probe fails for good, and once both
\* stay, it succeeds for good, broken connections and all.
ReadinessFollowsRedis ==
    /\ <>[](~up \/ phase # "serving") => <>[]~ready
    /\ <>[](up /\ phase = "serving") => <>[]ready
=============================================================================
