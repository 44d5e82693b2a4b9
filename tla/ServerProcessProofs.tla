------------------------ MODULE ServerProcessProofs ------------------------
(***************************************************************************)
(* A server that serves has a configuration the store can rely on, for     *)
(* every environment it may be started in.                                 *)
(***************************************************************************)
EXTENDS ServerProcess, TLAPS

\* What validate and the checks of the message limit leave.
ValidConfig(c) ==
    /\ c.store.ttl_seconds > 0 /\ c.store.stale_seconds > 0
    /\ c.store.stream_maxlen >= 0 /\ c.bytes > 0

\* main passes the configuration step only with a valid configuration, and
\* keeps it until the process is started again.
ConfigInv ==
    /\ env \in Environments
    /\ phase \in {"connect", "metrics", "serve", "serving"} =>
          \E c \in config : ValidConfig(c)

\* parse_env answers an integer, and the unsigned variants no negative one.
LEMMA ParsedIsInteger ==
    ASSUME NEW e \in Environments, NEW name \in {"ttl", "stale", "maxlen", "bytes"},
           NEW default \in Int, NEW n \in parse_env(e[name], default)
    PROVE  n \in Int
BY EnvironmentsAssumption DEF parse_env

\* from_env accepts positive lifetimes and thresholds only.
LEMMA FromEnvIsValid ==
    ASSUME env \in Environments, NEW c \in from_env
    PROVE  c.ttl_seconds > 0 /\ c.stale_seconds > 0 /\ c.stream_maxlen >= 0
<1>1. /\ c.ttl_seconds \in parse_env(env.ttl, 86400) /\ c.ttl_seconds >= 0
      /\ c.stale_seconds \in parse_env(env.stale, 3600)
      /\ c.stream_maxlen >= 0
      /\ validate(c.ttl_seconds, c.stale_seconds)
  BY DEF from_env, parse_env_u64, parse_env_i64
<1>2. c.ttl_seconds \in Int
  <2>1. env["ttl"] = env.ttl
    OBVIOUS
  <2> QED BY <1>1, <2>1, ParsedIsInteger
<1> QED BY <1>1, <1>2 DEF validate

\* So does the message limit.
LEMMA BytesAreValid ==
    ASSUME env \in Environments, NEW n \in grpc_max_message_bytes_from_env
    PROVE  n > 0
<1>1. n \in parse_env(env.bytes, DefaultBytes) /\ n >= 0 /\ n # 0
  BY DEF grpc_max_message_bytes_from_env, parse_env_u64
<1>2. env["bytes"] = env.bytes
  OBVIOUS
<1>3. n \in Int
  BY <1>1, <1>2, ParsedIsInteger, DefaultBytesAssumption
<1> QED BY <1>1, <1>3

\* The configuration step establishes the invariant.
LEMMA ConfigureKeeps == ConfigInv /\ Configure => ConfigInv'
<1> SUFFICES ASSUME ConfigInv, Configure PROVE ConfigInv'
  OBVIOUS
<1>1. CASE phase' = "connect"
  <2>1. PICK c \in from_env, n \in grpc_max_message_bytes_from_env :
            config' = {[store |-> c, bytes |-> n]}
    BY <1>1 DEF Configure, Exit, Enter
  <2>2. ValidConfig([store |-> c, bytes |-> n])
    BY FromEnvIsValid, BytesAreValid DEF ConfigInv, ValidConfig
  <2>3. env' = env
    BY DEF Configure, Exit
  <2> QED BY <2>1, <2>2, <2>3 DEF ConfigInv
<1>2. CASE phase' # "connect"
  BY <1>2 DEF ConfigInv, Configure, Exit, Enter
<1> QED BY <1>1, <1>2

\* No other step changes the configuration of a running process.
LEMMA ConfigInvKept == ConfigInv /\ [Next]_vars => ConfigInv'
<1> SUFFICES ASSUME ConfigInv, [Next]_vars PROVE ConfigInv'
  OBVIOUS
<1>1. CASE Configure
  BY <1>1, ConfigureKeeps
<1>2. CASE Connect \/ StartMetrics \/ Serve
  BY <1>2 DEF ConfigInv, Connect, StartMetrics, Serve, Exit, Enter
<1>3. CASE MetricsEnd \/ Die \/ Restart
  BY <1>3 DEF ConfigInv, MetricsEnd, Die, Restart, Enter
<1>4. CASE RedisDown \/ RedisBack \/ Probing \/ UNCHANGED vars
  BY <1>4 DEF ConfigInv, RedisDown, RedisBack, Probing, Probe, Ping, Info,
              Report, mainVars, vars
<1> QED BY <1>1, <1>2, <1>3, <1>4 DEF Next, Boot

\* A process that serves has a positive default lifetime, a positive stale
\* threshold and a positive message limit, whatever its environment: what
\* ConfigAssumption of ResponseStore asks for.
THEOREM ServesValidConfig == Spec => []ServingConfigIsValid
<1>1. Init => ConfigInv
  BY DEF Init, ConfigInv
<1>2. ConfigInv => ServingConfigIsValid
  BY DEF ConfigInv, ServingConfigIsValid, ValidConfig
<1> QED BY <1>1, <1>2, ConfigInvKept, PTL DEF Spec


-----------------------------------------------------------------------------
(* Type correctness                                                        *)

\* The configuration that from_env and the message limit make has its types.
LEMMA ConfigurationTypes ==
    ASSUME env \in Environments, NEW c \in from_env,
           NEW n \in grpc_max_message_bytes_from_env
    PROVE  [store |-> c, bytes |-> n] \in [store : StoreConfig, bytes : Nat]
<1>1. PICK ttl \in parse_env_u64(env["ttl"], 86400),
           stale \in parse_env_i64(env["stale"], 3600),
           maxlen \in parse_env_u64(env["maxlen"], 10000) :
        c = [ttl_seconds |-> ttl, stale_seconds |-> stale, stream_maxlen |-> maxlen]
  BY DEF from_env
<1>2. n \in parse_env_u64(env["bytes"], DefaultBytes)
  BY DEF grpc_max_message_bytes_from_env
<1>3. ttl \in Int /\ stale \in Int /\ maxlen \in Int /\ n \in Int
  BY <1>1, <1>2, ParsedIsInteger, DefaultBytesAssumption DEF parse_env_u64, parse_env_i64
<1>4. ttl \in Nat /\ maxlen \in Nat /\ n \in Nat
  BY <1>1, <1>2, <1>3 DEF parse_env_u64
<1>5. c \in StoreConfig
  BY <1>1, <1>3, <1>4 DEF StoreConfig
<1> QED BY <1>4, <1>5

\* What INFO says of a version, and the lack of an answer, have their types.
LEMMA InfoTypes ==
    ASSUME version \in Versions
    PROVE  Capabilities \in RedisInfo /\ NoInfo \in RedisInfo
<1>1. redis_version_at_least(version, 7, 0) \in BOOLEAN
  BY DEF redis_version_at_least
<1> QED BY <1>1 DEF Capabilities, NoInfo, RedisInfo

\* An answer of Health has its type.
LEMMA AnsweredTypes ==
    ASSUME NEW ok \in BOOLEAN, NEW info \in RedisInfo, Answered(ok, info)
    PROVE  /\ health' \subseteq [redis_ok : BOOLEAN, info : RedisInfo]
           /\ AtMostOne(health') /\ hpc' = "answered"
BY DEF Answered, AtMostOne

\* Every step keeps the types.
LEMMA TypeStep == TypeOK /\ [Next]_vars => TypeOK'
<1> SUFFICES ASSUME TypeOK, [Next]_vars PROVE TypeOK'
  OBVIOUS
<1>1. CASE Configure
  <2>1. CASE phase' = "connect"
    <3>1. PICK c \in from_env, n \in grpc_max_message_bytes_from_env :
              config' = {[store |-> c, bytes |-> n]}
      BY <1>1, <2>1 DEF Configure, Exit, Enter
    <3>2. [store |-> c, bytes |-> n] \in [store : StoreConfig, bytes : Nat]
      BY ConfigurationTypes DEF TypeOK
    <3>3. config' \subseteq [store : StoreConfig, bytes : Nat] /\ AtMostOne(config')
      BY <3>1, <3>2 DEF AtMostOne
    <3> QED BY <1>1, <2>1, <3>3 DEF Configure, Exit, Enter, TypeOK, redisVars, healthVars
  <2>2. CASE phase' # "connect"
    BY <1>1, <2>2 DEF Configure, Exit, Enter, TypeOK, redisVars, healthVars
  <2> QED BY <2>1, <2>2
<1>2. CASE Connect \/ StartMetrics \/ Serve
  BY <1>2 DEF TypeOK, Connect, StartMetrics, Serve, Exit, Enter, redisVars, healthVars
<1>3. CASE MetricsEnd \/ Die \/ Restart
  BY <1>3 DEF TypeOK, MetricsEnd, Die, Restart, Enter, AtMostOne, redisVars, healthVars
<1>4. CASE RedisDown \/ RedisBack
  BY <1>4 DEF TypeOK, RedisDown, RedisBack, mainVars, healthVars
<1>5. CASE Probe \/ Report
  BY <1>5 DEF TypeOK, Probe, Report, AtMostOne, mainVars, redisVars
<1>6. CASE Ping
  <2>1. UNCHANGED health \/ Answered(FALSE, NoInfo)
    BY <1>6 DEF Ping
  <2>2. health' \subseteq [redis_ok : BOOLEAN, info : RedisInfo] /\ AtMostOne(health')
    BY <2>1, InfoTypes, AnsweredTypes DEF TypeOK
  <2> QED BY <1>6, <2>2 DEF TypeOK, Ping, Answered, mainVars, redisVars
<1>7. CASE Info
  <2>1. caps' \subseteq RedisInfo /\ AtMostOne(caps')
    BY <1>7, InfoTypes DEF TypeOK, Info, AtMostOne
  <2>2. PICK info \in RedisInfo : Answered(TRUE, info)
    BY <1>7, <2>1, InfoTypes DEF TypeOK, Info
  <2>3. /\ health' \subseteq [redis_ok : BOOLEAN, info : RedisInfo]
        /\ AtMostOne(health') /\ hpc' = "answered"
    BY <2>2, AnsweredTypes
  <2> QED BY <1>7, <2>1, <2>3 DEF TypeOK, Info, mainVars, redisVars
<1>8. CASE UNCHANGED vars
  BY <1>8 DEF TypeOK, vars, mainVars, redisVars, healthVars
<1> QED BY <1>1, <1>2, <1>3, <1>4, <1>5, <1>6, <1>7, <1>8 DEF Next, Boot, Probing

\* Every variable of the process keeps its type: the lifetime, the length of
\* the stream and the message limit are unsigned although the environment may
\* hold signed numbers (config.rs), REDIS_CAPABILITIES holds one answer of
\* INFO at most, and so does the reply of Health (service.rs:442-458).
THEOREM TypeCorrect == Spec => []TypeOK
<1>1. Init => TypeOK
  BY DEF Init, TypeOK, AtMostOne
<1> QED BY <1>1, TypeStep, PTL DEF Spec
=============================================================================
