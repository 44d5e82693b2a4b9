-------------------------- MODULE MCServerProcess --------------------------
(* Small instances of ServerProcess for TLC.                               *)
EXTENDS ServerProcess

Env(ttl, stale, maxlen, bytes, m, addr) ==
    [ttl |-> ttl, stale |-> stale, maxlen |-> maxlen, bytes |-> bytes,
     metrics |-> m, addr |-> addr]

\* Every variable at and beside its limits.
Numbers == {Unset, Text} \cup {Number(n) : n \in {-1, 0, 1}}

SomeEnvironments ==
    {Env(ttl, stale, Unset, Unset, "unset", TRUE) : ttl \in Numbers, stale \in Numbers}
    \cup {Env(Number(1), Number(1), maxlen, bytes, m, addr) :
            maxlen \in Numbers, bytes \in Numbers,
            m \in {"unset", "on", "off", "maybe"}, addr \in BOOLEAN}

SomeVersions == {<<6, 2>>, <<7, 0>>, <<7>>}
=============================================================================
