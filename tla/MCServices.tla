------------------------------ MODULE MCServices ------------------------------
(***************************************************************************)
(* One small instance for the machinery between pages and database: TLC    *)
(* chooses a part in the initial state and explores it; the state of the   *)
(* others stays as it is at their start.  Fairness is that of the part.    *)
(***************************************************************************)
EXTENDS ClientQuery, ConfigSync, DbConnection, DnsFailover, ApiCluster, TLC

VARIABLE part

vars == <<part, queryVars, configVars, dbVars, dnsVars, clusterVars>>

Queries == {[id |-> 1, certified |-> FALSE], [id |-> 2, certified |-> TRUE]}
Defaults == "k" :> "v1"
Pool == <<Ip, {}>>

I(id, body, polls, cert, hashfiles) ==
  [id |-> id, body |-> body, polls |-> polls, cert |-> cert, hashfiles |-> hashfiles]
Requests ==
  {I(1, "sound", FALSE, "admin", {"admin_hash", "registration_hash"}),
   I(2, "sound", TRUE, "admin", {"master_hash"}),
   I(3, "garbled", FALSE, NoCert, {})}
Hashes == "admin" :> {"admin_hash", "registration_hash"}

Init ==
  /\ part \in {"query", "config", "db", "dns", "cluster"}
  /\ DbInit /\ (part = "db" \/ reachable)
  /\ QueryInit /\ ConfigInit /\ DnsInit /\ ClusterInit

Next ==
  \/ /\ part = "query" /\ QueryNext
     /\ UNCHANGED <<part, configVars, dbVars, dnsVars, clusterVars>>
  \/ /\ part = "config" /\ ConfigNext
     /\ UNCHANGED <<part, queryVars, dbVars, dnsVars, clusterVars>>
  \/ /\ part = "db" /\ DbNext
     /\ UNCHANGED <<part, queryVars, configVars, dnsVars, clusterVars>>
  \/ /\ part = "dns" /\ DnsNext
     /\ UNCHANGED <<part, queryVars, configVars, dbVars, clusterVars>>
  \/ /\ part = "cluster" /\ ClusterNext
     /\ UNCHANGED <<part, queryVars, configVars, dbVars, dnsVars>>

Spec ==
  /\ Init /\ [][Next]_vars
  /\ \/ part = "query"
     \/ part = "cluster" /\ ClusterFairness
     \/ part = "config" /\ ConfigFairness
     \/ part = "db" /\ DbFairness
     \/ part = "dns" /\ DnsFairness

\* The variables of every part keep their types, whichever part is at work; the
\* database is reconnected by one interval at most, although every event and
\* every command may report the same failure.
ServicesTypeOK == QueryTypeOK /\ ConfigTypeOK /\ DbTypeOK /\ DnsTypeOK /\ ClusterTypeOK

\* Recovers, of a worker that runs: if the database stays reachable the worker
\* stays connected (db/config.js:36).
WorkerRecovers == part = "db" => Recovers

\* Converges, of workers that run: all of them end with what was logged last
\* (config/index.js:11).
WorkersConverge == part = "config" => Converges

\* WorkersReturn, of the master: in the end as many workers as cores run again,
\* however their deaths and the timers of the forks are interleaved (main.js:50).
ClusterRecovers == part = "cluster" => WorkersReturn

\* FailsOver, of a name server that runs: its pool is in the end the servers that
\* answer (network/dns/main.js:16).
PoolFailsOver == part = "dns" => FailsOver
=============================================================================
