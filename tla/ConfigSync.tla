------------------------------- MODULE ConfigSync -------------------------------
(***************************************************************************)
(* The configuration of the deployment (server/api/config, db/config.js,   *)
(* actions/config.js): the database logs every change with the time of the *)
(* worker that made it, all workers load the newest entries regularly.     *)
(***************************************************************************)
EXTENDS Integers, FiniteSets

CONSTANTS
  Worker, Key, Value,
  Default,    \* defaults.json: the keys it sets
  MaxChanges, \* bound: config_set and config_del
  MaxRestarts, \* bound: workers that die
  MaxLoads    \* bound: loads of a worker under way

NoValue == "no value" \* of a key that is not in config; null in the log

ASSUME ConfigAssumption ==
  /\ NoValue \notin Value
  /\ Default \in [Key -> Value \cup {NoValue}]
  /\ {MaxChanges, MaxRestarts, MaxLoads} \subseteq Nat

VARIABLES
  config,   \* of each worker
  saving,   \* entries on their way to the database
  entries,  \* the log in the database
  loads,    \* per worker: the answer of each cfgdb.load under way
  changes,  \* counter of MaxChanges, and the clock of the entries
  restarts  \* counter of MaxRestarts

configVars == <<config, saving, entries, loads, changes, restarts>>

Entry == [key : Key, value : Value \cup {NoValue}, time : 1..MaxChanges]
Copy == [Key -> Value \cup {NoValue}]

ConfigTypeOK ==
  /\ config \in [Worker -> Copy]
  /\ saving \subseteq Entry /\ entries \subseteq Entry
  /\ loads \in [Worker -> [1..MaxLoads -> SUBSET SUBSET Entry]]
  /\ changes \in 0..MaxChanges /\ restarts \in 0..MaxRestarts

-----------------------------------------------------------------------------
(* config_set and config_del, from the page of the bank *)

Logs(key, value) ==
  /\ changes < MaxChanges
  /\ changes' = changes + 1
  /\ saving' = saving \cup {[key |-> key, value |-> value, time |-> changes + 1]}

set(key, value) ==
  /\ Logs(key, value)
  /\ UNCHANGED <<config, entries, loads, restarts>>

\* The worker that is asked forgets the key at once.
del(w, key) ==
  /\ Logs(key, NoValue)
  /\ config' = [config EXCEPT ![w][key] = NoValue]
  /\ UNCHANGED <<entries, loads, restarts>>

\* Entries arrive in any order; one that cannot be saved is only logged.
Saved(e) ==
  /\ saving' = saving \ {e}
  /\ entries' \in {entries, entries \cup {e}}
  /\ UNCHANGED <<config, loads, changes, restarts>>

-----------------------------------------------------------------------------
(* Loading *)

\* The aggregation: of every key its entry with the greatest time
newest == {e \in entries : \A f \in entries : f.key = e.key => f.time <= e.time}

LoadNewest(w, n) ==
  /\ loads[w][n] = {}
  /\ loads' = [loads EXCEPT ![w][n] = {newest}]
  /\ UNCHANGED <<config, saving, entries, changes, restarts>>

Takes(w, n, cfg_new) ==
  /\ loads' = [loads EXCEPT ![w][n] = {}]
  /\ config' = [config EXCEPT ![w] = [key \in Key |->
       LET values == {e.value : e \in {f \in cfg_new : f.key = key}}
       IN  IF values = {} THEN config[w][key] ELSE CHOOSE v \in values : TRUE]]
  /\ UNCHANGED <<saving, entries, changes, restarts>>

LeavesRemoved(w, n) == \E cfg_new \in loads[w][n] :
  Takes(w, n, {e \in cfg_new : e.value # NoValue})

\* An answer after the timeout, or after that of a later load, counts as well.
update_config(w, n) == \E cfg_new \in loads[w][n] : Takes(w, n, cfg_new)

LoadLost(w, n) ==
  /\ loads[w][n] # {}
  /\ loads' = [loads EXCEPT ![w][n] = {}]
  /\ UNCHANGED <<config, saving, entries, changes, restarts>>

\* The worker starts with defaults.json.
Restart(w) ==
  /\ restarts < MaxRestarts
  /\ restarts' = restarts + 1
  /\ config' = [config EXCEPT ![w] = Default]
  /\ loads' = [loads EXCEPT ![w] = [n \in 1..MaxLoads |-> {}]]
  /\ UNCHANGED <<saving, entries, changes>>

-----------------------------------------------------------------------------
ConfigInit ==
  /\ config = [w \in Worker |-> Default]
  /\ saving = {} /\ entries = {}
  /\ loads = [w \in Worker |-> [n \in 1..MaxLoads |-> {}]]
  /\ changes = 0 /\ restarts = 0

ConfigNext ==
  \/ \E key \in Key, value \in Value : set(key, value)
  \/ \E e \in saving : Saved(e)
  \/ \E w \in Worker :
       \/ \E key \in Key : del(w, key)
       \/ \E n \in 1..MaxLoads : LoadNewest(w, n) \/ update_config(w, n) \/ LoadLost(w, n)
       \/ Restart(w)

ConfigSpec == ConfigInit /\ [][ConfigNext]_configVars

\* Loads are sent for ever, and again and again one is answered, entries are saved or
\* fail; nobody has to change or to restart anything.
ConfigFairness ==
  /\ WF_configVars(\E e \in saving : Saved(e))
  /\ \A w \in Worker, n \in 1..MaxLoads :
       /\ WF_configVars(LoadNewest(w, n))
       /\ SF_configVars(update_config(w, n))

-----------------------------------------------------------------------------
(* Properties *)

\* Whatever was changed at whichever worker, and however loads and deaths were
\* interleaved with it, in the end all workers have what was logged last
\* (config/index.js:11, "That way, multiple API instances can be synchronized").
Converges == \A key \in Key : <>[](\A e \in newest : e.key = key =>
  \A w \in Worker : config[w][key] = e.value)
=============================================================================
